---------------------------- MODULE DropBoxProof ----------------------------
(***************************************************************************)
(* DropSync implements DropBox, for every number of connections, clients,  *)
(* users, files and uploads: what is listed is what is on disk, every      *)
(* upload is stored once and whole, and what a client fetches is something *)
(* that was stored, the whole of it when a name keeps its size and else    *)
(* its beginning.                                                          *)
(***************************************************************************)
EXTENDS DropListsProof

-----------------------------------------------------------------------------
(* The inductive invariant of the files                                    *)

\* Upload v is of user u, and m describes it.
IsUpload(v, u, m) ==
  v \in 1..Len(uploads) /\ uploads[v] = [user |-> u, name |-> m.name, size |-> m.size]

\* Behind its first d cells s carries the beginning of upload v of u.
Carries(s, d, v, u, m) ==
  /\ IsUpload(v, u, m)
  /\ Len(s) <= d + m.size
  /\ \A p \in (d + 1)..Len(s) : s[p] = Byte(v, p - d)

\* An upload's connection carries the beginning of one upload, behind its
\* header as long as the server has not read that.
CarryOK(k) ==
  LET s == Stream(k) IN
  /\ Kind(k) = "NONE" /\ s[2].t = "PUT" =>
       \E v \in Nat : Carries(s, HeaderCells, v, s[2].user, s[2].meta)
  /\ Kind(k) = "PUT" => \E v \in Nat : Carries(s, 0, v, Ent(k).name, Ent(k).meta)
CarryInv == \A k \in Conns : CarryOK(k)

\* An uploading client still has the rest of what its connection carries.
RestIs(s, d, v, u, m, buf) ==
  Carries(s, d, v, u, m) /\ Len(s) + Len(buf) = d + m.size
UploadOK(c) ==
  LET k == client[c].data
      v == client[c].upload
      u == client[c].user
      s == Stream(k)
      buf == client[c].buf
  IN /\ uploads[v].user = u
     /\ Len(buf) <= uploads[v].size
     /\ \A p \in 1..Len(buf) : buf[p] = Byte(v, uploads[v].size - Len(buf) + p)
     /\ Kind(k) = "NONE" => s[2].user = u /\ RestIs(s, HeaderCells, v, u, s[2].meta, buf)
     /\ Kind(k) = "PUT" => Ent(k).name = u /\ RestIs(s, 0, v, u, Ent(k).meta, buf)
UploadInv == \A c \in Clients : At(c, "put") => UploadOK(c)

FilesInv == ProtoInv /\ CarryInv /\ UploadInv /\ ListMatchesDisk

-----------------------------------------------------------------------------
(* What a step that leaves the streams of uploads alone keeps              *)

\* The history of uploads only grows.
Grows ==
  /\ Len(uploads) \in Nat /\ Len(uploads') \in Nat /\ Len(uploads) <= Len(uploads')
  /\ \A v \in 1..Len(uploads) : uploads'[v] = uploads[v]

\* An upload stays the upload it was,
LEMMA UploadStays ==
  ASSUME Grows, NEW v, NEW u, NEW m, IsUpload(v, u, m)
  PROVE  v \in 1..Len(uploads') /\ uploads'[v] = [user |-> u, name |-> m.name, size |-> m.size]
<1>1. v \in 1..Len(uploads) /\ uploads[v] = [user |-> u, name |-> m.name, size |-> m.size]
  BY DEF IsUpload
<1>2. v \in 1..Len(uploads')
  BY <1>1 DEF Grows
<1>3. QED
  BY <1>1, <1>2 DEF Grows

\* a connection that is kept still carries what it carried,
LEMMA CarryKept ==
  ASSUME Grows, NEW k, CarryOK(k), Kept(k)
  PROVE  CarryOK(k)'
<1>1. CASE Kind(k) = "NONE" /\ Stream(k)[2].t = "PUT"
  <2>1. PICK s, u, m : s = Stream(k) /\ u = s[2].user /\ m = s[2].meta
    OBVIOUS
  <2>2. Stream(k)' = s /\ Kind(k)' = "NONE"
    BY <1>1, <2>1 DEF Kept
  <2>3. PICK v \in Nat : Carries(s, HeaderCells, v, u, m)
    BY <1>1, <2>1 DEF CarryOK
  <2>4. Carries(s, HeaderCells, v, u, m)'
    BY <2>3, UploadStays, ZenonT(60) DEF Carries, IsUpload
  <2>5. QED
    BY <2>1, <2>2, <2>4 DEF CarryOK
<1>2. CASE Kind(k) = "PUT"
  <2>1. PICK s, u, m : s = Stream(k) /\ u = Ent(k).name /\ m = Ent(k).meta
    OBVIOUS
  <2>2. Stream(k)' = s /\ Ent(k)'.name = u /\ Ent(k)'.meta = m /\ Kind(k)' = "PUT"
    BY <1>2, <2>1 DEF Kept
  <2>3. PICK v \in Nat : Carries(s, 0, v, u, m)
    BY <1>2, <2>1 DEF CarryOK
  <2>4. Carries(s, 0, v, u, m)'
    BY <2>3, UploadStays, ZenonT(60) DEF Carries, IsUpload
  <2>5. QED
    BY <2>2, <2>4 DEF CarryOK
<1>3. CASE ~(Kind(k) = "NONE" /\ Stream(k)[2].t = "PUT") /\ Kind(k) # "PUT"
  BY <1>3 DEF Kept, CarryOK
<1>4. QED
  BY <1>1, <1>2, <1>3

\* and its client has the rest.
LEMMA UploadKept ==
  ASSUME Grows, NEW c \in Clients, UploadOK(c), client'[c] = client[c],
         client[c].upload \in 1..Len(uploads),
         Kept(client[c].data) \/ Kind(client[c].data)' \notin {"NONE", "PUT"}
  PROVE  UploadOK(c)'
<1>1. PICK k, v, u, buf : /\ k = client[c].data /\ v = client[c].upload /\ u = client[c].user
                          /\ buf = client[c].buf
  OBVIOUS
<1>2. PICK len : len = uploads[v].size /\ len = uploads'[v].size
  BY <1>1 DEF Grows
<1>3. /\ client'[c].data = k /\ client'[c].upload = v /\ client'[c].user = u /\ client'[c].buf = buf
      /\ uploads'[v].user = u /\ Len(buf) <= len
      /\ \A p \in 1..Len(buf) : buf[p] = Byte(v, len - Len(buf) + p)
  BY <1>1, <1>2 DEF UploadOK, Grows
<1>4. CASE Kind(k)' \notin {"NONE", "PUT"}
  BY <1>2, <1>3, <1>4 DEF UploadOK
<1>5. CASE Kept(k) /\ Kind(k) = "NONE"
  <2>1. PICK s, m : s = Stream(k) /\ m = s[2].meta
    OBVIOUS
  <2>2. Stream(k)' = s /\ Kind(k)' = "NONE"
    BY <1>5, <2>1 DEF Kept
  <2>3. s[2].user = u /\ RestIs(s, HeaderCells, v, u, m, buf)
    BY <1>1, <1>5, <2>1 DEF UploadOK
  <2>4. RestIs(s, HeaderCells, v, u, m, buf)'
    BY <2>3, UploadStays DEF RestIs, Carries, IsUpload
  <2>5. QED
    BY <1>2, <1>3, <2>1, <2>2, <2>3, <2>4 DEF UploadOK
<1>6. CASE Kept(k) /\ Kind(k) = "PUT"
  <2>1. PICK s, m : s = Stream(k) /\ m = Ent(k).meta
    OBVIOUS
  <2>2. Stream(k)' = s /\ Kind(k)' = "PUT" /\ Ent(k)'.name = Ent(k).name /\ Ent(k)'.meta = m
    BY <1>6, <2>1 DEF Kept
  <2>3. Ent(k).name = u /\ RestIs(s, 0, v, u, m, buf)
    BY <1>1, <1>6, <2>1 DEF UploadOK
  <2>4. RestIs(s, 0, v, u, m, buf)'
    BY <2>3, UploadStays, SMTT(60) DEF RestIs, Carries, IsUpload
  <2>5. QED
    BY <1>2, <1>3, <2>2, <2>3, <2>4 DEF UploadOK
<1>7. CASE Kept(k) /\ Kind(k) \notin {"NONE", "PUT"}
  BY <1>4, <1>7 DEF Kept
<1>8. QED
  BY <1>1, <1>4, <1>5, <1>6, <1>7

\* The list and the disk of every user agree as long as both are left alone.
LEMMA ListStays ==
  ASSUME Grows, ListMatchesDisk, UNCHANGED <<files, stored>>
  PROVE  ListMatchesDisk'
<1>1. SUFFICES ASSUME NEW u \in Users, NEW n \in Names
               PROVE  /\ (Len(stored[u][n]) > 0)' <=> Positions(u, n)' # {}
                      /\ \A k \in Positions(u, n)' :
                           (\A j \in Positions(u, n)' : j <= k) =>
                             /\ files'[u][k].size = Len(OnDisk(u, n)')
                             /\ \E v \in 1..Len(uploads') :
                                  /\ uploads'[v] = [user |-> u, name |-> n, size |-> files'[u][k].size]
                                  /\ OnDisk(u, n)' = Content(v, uploads'[v].size)
  BY DEF ListMatchesDisk
<1>2. Positions(u, n)' = Positions(u, n) /\ OnDisk(u, n)' = OnDisk(u, n)
  BY DEF Positions, OnDisk
<1>3. ASSUME NEW k \in Positions(u, n), \A j \in Positions(u, n) : j <= k
      PROVE  /\ files[u][k].size = Len(OnDisk(u, n))
             /\ \E v \in 1..Len(uploads') :
                  /\ uploads'[v] = [user |-> u, name |-> n, size |-> files[u][k].size]
                  /\ OnDisk(u, n) = Content(v, uploads'[v].size)
  <2>1. /\ files[u][k].size = Len(OnDisk(u, n))
        /\ \E v \in 1..Len(uploads) :
             /\ uploads[v] = [user |-> u, name |-> n, size |-> files[u][k].size]
             /\ OnDisk(u, n) = Content(v, uploads[v].size)
    BY <1>3 DEF ListMatchesDisk
  <2>2. \A v \in 1..Len(uploads) : v \in 1..Len(uploads') /\ uploads'[v] = uploads[v]
    BY DEF Grows
  <2>3. QED
    BY <2>1, <2>2
<1>4. Len(stored[u][n]) > 0 <=> Positions(u, n) # {}
  BY DEF ListMatchesDisk
<1>5. QED
  BY <1>2, <1>3, <1>4

-----------------------------------------------------------------------------
(* The server                                                              *)

\* What is stored was named when its upload began, and uploads do not change.
LEMMA HistoryStays ==
  ASSUME SystemTypes, UNCHANGED clientVars
  PROVE  Grows
BY DEF Grows, SystemTypes, clientVars

\* The server keeps what uploads carry when it takes no connection for an upload.
LEMMA ServerKeeps ==
  ASSUME FilesInv, UNCHANGED clientVars,
         \A m \in Conns : Kept(m) \/ Kind(m)' \notin {"NONE", "PUT"}
  PROVE  CarryInv' /\ UploadInv'
<1>1. Grows
  BY HistoryStays DEF FilesInv, ProtoInv
<1>2. ASSUME NEW m \in Conns PROVE CarryOK(m)'
  <2>1. CASE Kept(m)
    BY <1>1, <2>1, CarryKept DEF FilesInv, CarryInv
  <2>2. CASE Kind(m)' \notin {"NONE", "PUT"}
    BY <2>2 DEF CarryOK
  <2>3. QED
    BY <2>1, <2>2
<1>3. ASSUME NEW c \in Clients, At(c, "put") PROVE UploadOK(c)'
  <2>1. UploadOK(c) /\ RoleOK(c) /\ ~At(c, "off") /\ client'[c] = client[c]
    BY <1>3 DEF FilesInv, UploadInv, ProtoInv, RoleInv, clientVars, At
  <2>2. client[c].upload \in 1..Len(uploads) /\ client[c].data # 0
    BY <1>3, <2>1 DEF RoleOK
  <2>3. client[c].data \in Conns
    BY <2>1, <2>2, ClientTypes DEF FilesInv, ProtoInv
  <2>4. Kept(client[c].data) \/ Kind(client[c].data)' \notin {"NONE", "PUT"}
    <3>1. PICK k : k = client[c].data
      OBVIOUS
    <3>2. Kept(k) \/ Kind(k)' \notin {"NONE", "PUT"}
      BY <2>3, <3>1
    <3>3. client'[c].data = k
      BY <2>1, <3>1
    <3>4. QED
      BY <3>1, <3>2, <3>3
  <2>5. QED
    BY <1>1, <2>1, <2>2, <2>4, UploadKept
<1>4. QED
  BY <1>2, <1>3 DEF CarryInv, UploadInv, At, clientVars

\* A connection whose header is read becomes an upload that carries what followed.
LEMMA PutFiles ==
  ASSUME FilesInv, IInv', Put, UNCHANGED clientVars
  PROVE  CarryInv' /\ UploadInv'
<1>1. PICK k : k = link
  OBVIOUS
<1>2. /\ k \in Conns /\ conn[k].server = "open" /\ Kind(k) = "NONE" /\ IsRequest(Stream(k))
      /\ Header = Stream(k)[2] /\ Header.t = "PUT" /\ Header \in Cell
  BY <1>1, HeaderView DEF Put, FilesInv
<1> DEFINE s == Stream(k)
           x == conn'[k].up
           u == s[2].user
           m == s[2].meta
<1>3. /\ conn'[k].server = "open" /\ Len(x) = Len(s) - HeaderCells /\ x \in Seq(Cell)
      /\ \A p \in 1..(Len(s) - HeaderCells) : x[p] = s[HeaderCells + p]
      /\ Ent(k)'.type = "PUT" /\ Ent(k)'.name = u /\ Ent(k)'.meta = m /\ Ent(k)'.rbuf = <<>>
      /\ \A l \in Conns \ {k} : conn'[l] = conn[l] /\ Ent(l)' = Ent(l)
  BY <1>1, <1>2, PutView DEF FilesInv
<1>4. Kind(k)' = "PUT" /\ Stream(k)' = x
  <2>1. Stream(k)' = <<>> \o x /\ <<>> \o x = x
    BY <1>3 DEF Stream
  <2>2. QED
    BY <1>3, <2>1 DEF Kind
<1>5. s \in Seq(Cell) /\ Len(s) \in Nat /\ Len(s) >= 2 /\ m \in Meta /\ m.size \in Nat
  <2>1. s \in Seq(Cell) /\ Len(s) \in Nat
    <3>1. s \in Seq(Cell)
      BY <1>2, Types DEF FilesInv, ProtoInv
    <3> HIDE DEF s
    <3>2. QED
      BY <3>1
  <2>2. s[2].meta \in Meta
    BY <1>2 DEF Cell
  <2>3. QED
    BY <1>2, <2>1, <2>2 DEF IsRequest, HeaderCells, Meta
<1>6. ASSUME NEW v, Carries(s, HeaderCells, v, u, m) PROVE Carries(x, 0, v, u, m)
  <2>1. IsUpload(v, u, m) /\ Len(s) <= 2 + m.size /\ \A p \in 3..Len(s) : s[p] = Byte(v, p - 2)
    BY <1>6 DEF Carries, HeaderCells
  <2> HIDE DEF s, x, u, m
  <2>2. Len(x) <= 0 + m.size
    BY <1>3, <1>5, <2>1 DEF HeaderCells
  <2>3. ASSUME NEW p \in (0 + 1)..Len(x) PROVE x[p] = Byte(v, p - 0)
    <3>1. p \in 1..(Len(s) - HeaderCells) /\ 2 + p \in 3..Len(s) /\ (2 + p) - 2 = p /\ p - 0 = p
      BY <1>3, <1>5 DEF HeaderCells
    <3>2. x[p] = s[2 + p]
      BY <1>3, <3>1 DEF HeaderCells
    <3>3. s[2 + p] = Byte(v, (2 + p) - 2)
      BY <2>1, <3>1
    <3>4. QED
      BY <3>1, <3>2, <3>3
  <2>4. QED
    BY <2>1, <2>2, <2>3 DEF Carries
<1>7. Grows /\ UNCHANGED <<client, uploads>>
  BY HistoryStays DEF FilesInv, ProtoInv, clientVars
<1>8. \A l \in Conns \ {k} : Kept(l)
  BY <1>3, SameKept DEF FilesInv, ProtoInv
<1>9. CarryOK(k)'
  <2>1. PICK v \in Nat : Carries(s, HeaderCells, v, u, m)
    BY <1>2 DEF FilesInv, CarryInv, CarryOK
  <2>2. Carries(x, 0, v, u, m)
    BY <1>6, <2>1
  <2>3. PICK y, w, z : y = x /\ w = u /\ z = m
    OBVIOUS
  <2>4. Carries(y, 0, v, w, z)'
    BY <1>7, <2>2, <2>3 DEF Carries, IsUpload
  <2>5. QED
    BY <1>3, <1>4, <2>3, <2>4 DEF CarryOK
<1>10. CarryInv'
  <2>1. \A l \in Conns \ {k} : CarryOK(l)'
    BY <1>7, <1>8, CarryKept DEF FilesInv, CarryInv
  <2>2. QED
    BY <1>9, <2>1 DEF CarryInv
<1>11. ASSUME NEW c \in Clients, At(c, "put") PROVE UploadOK(c)'
  <2>1. UploadOK(c) /\ RoleOK(c) /\ ~At(c, "off") /\ client'[c] = client[c]
    BY <1>7, <1>11 DEF FilesInv, UploadInv, ProtoInv, RoleInv, At
  <2>2. client[c].upload \in 1..Len(uploads) /\ client[c].data # 0
    BY <1>11, <2>1 DEF RoleOK
  <2>3. client[c].data \in Conns
    BY <2>1, <2>2, ClientTypes DEF FilesInv, ProtoInv
  <2>4. CASE client[c].data # k
    BY <1>7, <1>8, <2>1, <2>2, <2>3, <2>4, UploadKept
  <2>5. CASE client[c].data = k
    <3>1. PICK v, b, y, z : v = client[c].upload /\ b = client[c].buf /\ y = x /\ z = m
      OBVIOUS
    <3>2. u = client[c].user /\ RestIs(s, HeaderCells, v, u, m, b)
      BY <1>2, <2>1, <2>5, <3>1 DEF UploadOK
    <3>3. Carries(s, HeaderCells, v, u, m) /\ Len(s) + Len(b) = 2 + m.size
      BY <3>2 DEF RestIs, HeaderCells
    <3>4. Carries(x, 0, v, u, m)
      BY <1>6, <3>3
    <3>5. Len(b) \in Nat
      <4>1. b \in Seq(Cell)
        BY <2>1, <3>1, ClientTypes DEF Online, FilesInv, ProtoInv
      <4>2. QED
        BY <4>1
    <3>6. Len(x) + Len(b) = 0 + m.size
      <4>1. Len(x) = Len(s) - 2 /\ Len(s) \in Nat /\ m.size \in Nat
        BY <1>3, <1>5 DEF HeaderCells
      <4>2. Len(s) + Len(b) = 2 + m.size
        BY <3>3
      <4> HIDE DEF s, x, u, m
      <4>3. QED
        BY <3>5, <4>1, <4>2
    <3>7. RestIs(y, 0, v, client[c].user, z, b)
      BY <3>1, <3>2, <3>4, <3>6 DEF RestIs
    <3>8. PICK w : w = client[c].user
      OBVIOUS
    <3>9. RestIs(y, 0, v, w, z, b)'
      BY <1>7, <3>7, <3>8 DEF RestIs, Carries, IsUpload
    <3>10. /\ uploads'[v].user = w /\ Len(b) <= uploads'[v].size
           /\ \A p \in 1..Len(b) : b[p] = Byte(v, uploads'[v].size - Len(b) + p)
      BY <1>7, <2>1, <3>1, <3>8 DEF UploadOK
    <3>11. /\ client'[c].data = k /\ client'[c].upload = v /\ client'[c].user = w
           /\ client'[c].buf = b
      BY <2>1, <2>5, <3>1, <3>8
    <3>12. Stream(k)' = y /\ Ent(k)'.name = w /\ Ent(k)'.meta = z
      BY <1>3, <1>4, <3>1, <3>2, <3>8
    <3> HIDE DEF s, x, u, m
    <3>13. QED
      BY <1>4, <3>9, <3>10, <3>11, <3>12 DEF UploadOK
  <2>6. QED
    BY <2>4, <2>5
<1>12. UploadInv'
  BY <1>7, <1>11 DEF UploadInv, At
<1>13. QED
  BY <1>10, <1>12

\* No other step of the server takes a connection for an upload.
LEMMA NoOtherPut ==
  ASSUME FilesInv, IInv', Server, ~Put
  PROVE  \A m \in Conns : Kept(m) \/ Kind(m)' \notin {"NONE", "PUT"}
<1>0. ProtoInv /\ StreamInv
  BY DEF FilesInv, ProtoInv
<1>1. PICK k : k = link
  OBVIOUS
<1>2. CASE QuietServer
  BY <1>0, <1>2, ServerQuiet DEF Quiet
<1>3. CASE HangUp \/ EndGet
  BY <1>0, <1>1, <1>3, HangUpView, EndGetView, SameKept
<1>4. CASE Login
  <2>1. /\ conn'[k].server = "open" /\ Ent(k)'.type = "CMD"
        /\ \A m \in Conns \ {k} : conn'[m] = conn[m] /\ Ent(m)' = Ent(m)
    BY <1>0, <1>1, <1>4, LoginView
  <2>2. Kind(k)' = "CMD"
    BY <2>1 DEF Kind
  <2>3. QED
    BY <1>0, <2>1, <2>2, SameKept
<1>5. CASE Get
  <2>1. /\ conn'[k].server = "open" /\ Ent(k)'.type = "GET"
        /\ \A m \in Conns \ {k} : conn'[m] = conn[m] /\ Ent(m)' = Ent(m)
    BY <1>0, <1>1, <1>5, GetView
  <2>2. Kind(k)' = "GET"
    BY <2>1 DEF Kind
  <2>3. QED
    BY <1>0, <2>1, <2>2, SameKept
<1>6. CASE StoreFile
  <2>1. /\ Kind(k)' = "gone"
        /\ \A m \in Conns \ {k} :
             /\ conn'[m] = conn[m]
             /\ Ent(m)' = IF IsTold(Ent(m), Ent(k).name) THEN Listed(Ent(m), files') ELSE Ent(m)
    BY <1>0, <1>1, <1>6, StoreView
  <2>2. ASSUME NEW m \in Conns \ {k} PROVE Kept(m)
    <3>1. CASE IsTold(Ent(m), Ent(k).name)
      <4>1. Ent(m)' = SetData(Ent(m), ListOf(files'[Ent(m).name])) /\ Ent(m).type = "CMD"
        BY <2>1, <3>1 DEF Listed, IsTold
      <4>2. DOMAIN Ent(m) = EntryFields
        BY <1>0, Types DEF TableEntry, EntryFields, ProtoInv
      <4>3. QED
        BY <1>0, <2>1, <4>1, <4>2, SameKept
    <3>2. CASE ~IsTold(Ent(m), Ent(k).name)
      BY <1>0, <2>1, <3>2, SameKept
    <3>3. QED
      BY <3>1, <3>2
  <2>3. QED
    BY <2>1, <2>2
<1>7. QED
  BY <1>2, <1>3, <1>4, <1>5, <1>6 DEF Server, QuietServer

\* What is stored is the whole of the upload the connection carries.
LEMMA StoredWhole ==
  ASSUME FilesInv, IInv', StoreFile, NEW k, k = link
  PROVE  \E v \in Nat :
           /\ IsUpload(v, Ent(k).name, Ent(k).meta)
           /\ Carries(Stream(k), 0, v, Ent(k).name, Ent(k).meta)
           /\ Len(Stream(k)) = Ent(k).meta.size
           /\ Content(v, Ent(k).meta.size) \in Seq(Cell)
           /\ stored' = [stored EXCEPT ![Ent(k).name][Ent(k).meta.name] =
                           Append(@, Content(v, Ent(k).meta.size))]
<1>0. ProtoInv /\ IInv /\ SystemTypes /\ StreamInv
  BY DEF FilesInv, ProtoInv
<1>1. /\ k \in Conns /\ Kind(k) = "PUT" /\ Ent(k).meta.size <= Len(Stream(k))
      /\ \E x \in Seq(Cell) : StoredAs(k, x)
  BY <1>0, StoreView
<1> DEFINE s == Stream(k)
           m == Ent(k).meta
<1>2. PICK x \in Seq(Cell) : /\ stored' = [stored EXCEPT ![Ent(k).name][m.name] = Append(@, x)]
                             /\ Len(x) = m.size /\ \A p \in 1..m.size : x[p] = s[p]
  BY <1>1 DEF StoredAs
<1>3. PICK v \in Nat : Carries(s, 0, v, Ent(k).name, m)
  BY <1>1 DEF FilesInv, CarryInv, CarryOK
<1>4. m.size \in Nat
  BY <1>0, <1>1 DEF StreamInv, StreamOK, Meta
<1>5. Len(s) \in Nat /\ m.size <= Len(s)
  <2>1. s \in Seq(Cell)
    BY <1>0, <1>1, Types
  <2>2. QED
    BY <1>1, <2>1
<1> HIDE DEF s, m
<1>6. IsUpload(v, Ent(k).name, m) /\ Len(s) = m.size /\ \A p \in 1..Len(s) : s[p] = Byte(v, p)
  <2>1. IsUpload(v, Ent(k).name, m) /\ Len(s) <= 0 + m.size
        /\ \A p \in (0 + 1)..Len(s) : s[p] = Byte(v, p - 0)
    BY <1>3 DEF Carries
  <2>2. \A p \in 1..Len(s) : p \in (0 + 1)..Len(s) /\ p - 0 = p
    BY <1>5
  <2>3. QED
    BY <1>4, <1>5, <2>1, <2>2
<1>7. x = Content(v, m.size)
  <2>1. \A p \in 1..m.size : x[p] = Byte(v, p)
    BY <1>2, <1>6
  <2>2. x \in Seq(Cell) /\ Len(x) = m.size
    BY <1>2
  <2>3. x = [p \in 1..m.size |-> x[p]]
    BY <2>2
  <2>4. [p \in 1..m.size |-> x[p]] = [p \in 1..m.size |-> Byte(v, p)]
    BY <2>1
  <2>5. QED
    BY <2>3, <2>4 DEF Content
<1>8. QED
  BY <1>2, <1>3, <1>6, <1>7 DEF s, m

\* A stored file is the last of its name, in the list and on disk.
LEMMA StoreLists ==
  ASSUME FilesInv, IInv', StoreFile, UNCHANGED clientVars
  PROVE  ListMatchesDisk'
<1>0. ProtoInv /\ IInv /\ SystemTypes /\ StreamInv
  BY DEF FilesInv, ProtoInv
<1>1. PICK k : k = link
  OBVIOUS
<1>2. PICK w, m : w = Ent(k).name /\ m = Ent(k).meta
  OBVIOUS
<1>3. PICK v \in Nat :
        /\ v \in 1..Len(uploads) /\ uploads[v] = [user |-> w, name |-> m.name, size |-> m.size]
        /\ Content(v, m.size) \in Seq(Cell)
        /\ stored' = [stored EXCEPT ![w][m.name] = Append(@, Content(v, m.size))]
  BY <1>1, <1>2, StoredWhole DEF IsUpload
<1>4. /\ k \in Conns /\ Kind(k) = "PUT"
      /\ files' = [files EXCEPT ![w] = Append(@, m)]
  BY <1>0, <1>1, <1>2, StoreView
<1>5. m \in Meta /\ m.name \in Names /\ m.size \in Nat
  BY <1>0, <1>2, <1>4 DEF StreamInv, StreamOK, Meta
<1>6. w \in Users
  <2> DEFINE Up == [user : Users, name : Names, size : Nat]
  <2>1. uploads \in Seq(Up)
    BY <1>0 DEF SystemTypes
  <2> HIDE DEF Up
  <2>2. uploads[v] \in Up
    BY <1>3, <2>1
  <2>3. QED
    BY <1>3, <2>2 DEF Up
<1> DEFINE x == Content(v, m.size)
           fs == files[w]
           old == stored[w][m.name]
<1>7. fs \in Seq(Meta) /\ old \in Seq(Seq(Cell)) /\ x \in Seq(Cell) /\ Len(x) = m.size
  <2>1. fs \in Seq(Meta) /\ old \in Seq(Seq(Cell))
    BY <1>0, <1>5, <1>6 DEF SystemTypes
  <2>2. Len(x) = m.size
    BY <1>5 DEF Content
  <2>3. QED
    BY <1>3, <2>1, <2>2
<1>8. /\ files'[w] = Append(fs, m) /\ stored'[w][m.name] = Append(old, x)
      /\ \A u \in Users \ {w} : files'[u] = files[u]
      /\ \A u \in Users, n \in Names : u # w \/ n # m.name => stored'[u][n] = stored[u][n]
  BY <1>0, <1>3, <1>4, <1>5, <1>6 DEF SystemTypes
<1>9. UNCHANGED uploads
  BY DEF clientVars
<1> HIDE DEF x, fs, old
<1>10. /\ Len(fs) \in Nat /\ Len(files'[w]) = Len(fs) + 1
       /\ \A j \in 1..Len(fs) : files'[w][j] = fs[j]
       /\ files'[w][Len(fs) + 1] = m
       /\ Len(stored'[w][m.name]) = Len(old) + 1 /\ Len(old) \in Nat
       /\ stored'[w][m.name][Len(old) + 1] = x
  BY <1>5, <1>7, <1>8
<1> DEFINE Fits(u, n) ==
      /\ Len(stored[u][n]) > 0 <=> Positions(u, n) # {}
      /\ \A j \in Positions(u, n) :
           (\A i \in Positions(u, n) : i <= j) =>
              /\ files[u][j].size = Len(OnDisk(u, n))
              /\ \E h \in 1..Len(uploads) :
                   /\ uploads[h] = [user |-> u, name |-> n, size |-> files[u][j].size]
                   /\ OnDisk(u, n) = Content(h, uploads[h].size)
<1>11. \A u \in Users, n \in Names : Fits(u, n)
  BY DEF FilesInv, ListMatchesDisk
<1>12. ASSUME NEW u \in Users, NEW n \in Names PROVE Fits(u, n)'
  <2>1. CASE u = w /\ n = m.name
    <3>1. Positions(u, n)' = Positions(u, n) \cup {Len(fs) + 1}
      BY <1>10, <2>1 DEF Positions, fs
    <3>2. \A j \in Positions(u, n)' : (\A i \in Positions(u, n)' : i <= j) => j = Len(fs) + 1
      <4>1. \A i \in Positions(u, n) : i \in Nat /\ i <= Len(fs)
        BY <1>10, <2>1 DEF Positions, fs
      <4>2. QED
        BY <1>10, <3>1, <4>1
    <3>3. OnDisk(u, n)' = x
      <4>1. stored'[u][n] # <<>> /\ Len(stored'[u][n]) = Len(old) + 1
        BY <1>7, <1>8, <1>10, <2>1
      <4>2. OnDisk(u, n)' = stored'[u][n][Len(stored'[u][n])]
        BY <4>1 DEF OnDisk
      <4>3. QED
        BY <1>10, <2>1, <4>1, <4>2
    <3>4. Len(stored'[u][n]) > 0 /\ Positions(u, n)' # {}
      BY <1>10, <2>1, <3>1
    <3>5. /\ files'[u][Len(fs) + 1].size = Len(x)
          /\ uploads'[v] = [user |-> u, name |-> n, size |-> files'[u][Len(fs) + 1].size]
          /\ x = Content(v, uploads'[v].size) /\ v \in 1..Len(uploads')
      <4>1. uploads'[v].size = m.size
        BY <1>3, <1>9
      <4>2. QED
        BY <1>3, <1>7, <1>9, <1>10, <2>1, <4>1 DEF x
    <3>6. QED
      BY <3>2, <3>3, <3>4, <3>5
  <2>2. CASE u = w /\ n # m.name
    <3>1. Positions(u, n)' = Positions(u, n)
      BY <1>10, <2>2, SMTT(60) DEF Positions, fs
    <3>2. stored'[u][n] = stored[u][n] /\ OnDisk(u, n)' = OnDisk(u, n)
      BY <1>8, <2>2 DEF OnDisk
    <3>3. \A j \in Positions(u, n) : files'[u][j] = files[u][j]
      BY <1>10, <2>2 DEF Positions, fs
    <3>4. QED
      BY <1>9, <1>11, <3>1, <3>2, <3>3, SMTT(60)
  <2>3. CASE u # w
    <3>1. files'[u] = files[u] /\ stored'[u][n] = stored[u][n]
      BY <1>8, <2>3
    <3>2. Positions(u, n)' = Positions(u, n) /\ OnDisk(u, n)' = OnDisk(u, n)
      BY <3>1 DEF Positions, OnDisk
    <3>3. QED
      BY <1>9, <1>11, <3>1, <3>2
  <2>4. QED
    BY <2>1, <2>2, <2>3
<1>13. QED
  BY <1>12 DEF ListMatchesDisk

\* Every step of the server keeps the files in order.
LEMMA ServerFiles ==
  ASSUME FilesInv, IInv', Server, UNCHANGED clientVars
  PROVE  CarryInv' /\ UploadInv' /\ ListMatchesDisk'
<1>1. CarryInv' /\ UploadInv'
  BY NoOtherPut, ServerKeeps, PutFiles
<1>2. CASE StoreFile
  BY <1>1, <1>2, StoreLists
<1>3. CASE ~StoreFile
  <2>1. UNCHANGED <<files, stored>>
    BY <1>3 DEF Server, Select, Accept, HangUp, ReadPart, Login, Get, Put, Flush, FlushToNobody, EndGet
  <2>2. Grows
    BY HistoryStays DEF FilesInv, ProtoInv
  <2>3. QED
    BY <1>1, <2>1, <2>2, ListStays DEF FilesInv
<1>4. QED
  BY <1>2, <1>3

-----------------------------------------------------------------------------
(* The clients                                                             *)

\* What a client does to its own connections and to free ones leaves the
\* uploads of the others alone.
LEMMA ClientKeeps ==
  ASSUME FilesInv, UNCHANGED serverVars, Grows, NEW c \in Clients,
         \A d \in Clients \ {c} : client'[d] = client[d],
         \A m \in Conns : Kept(m) \/ (Owned(c, m) /\ CarryOK(m)'),
         At(c, "put")' => UploadOK(c)'
  PROVE  CarryInv' /\ UploadInv' /\ ListMatchesDisk'
<1>1. ProtoInv /\ SystemTypes /\ RoleInv /\ UNCHANGED <<files, stored>>
  BY DEF FilesInv, ProtoInv, serverVars
<1>2. CarryInv'
  BY CarryKept DEF FilesInv, CarryInv
<1>3. ASSUME NEW d \in Clients \ {c}, At(d, "put") PROVE UploadOK(d)'
  <2>1. ~At(d, "off") /\ UploadOK(d) /\ RoleOK(d)
    BY <1>1, <1>3 DEF At, FilesInv, UploadInv, RoleInv
  <2>2. client[d].data # 0 /\ client[d].upload \in 1..Len(uploads)
    BY <1>3, <2>1 DEF RoleOK
  <2>3. client[d].data \in Conns /\ ~Owned(c, client[d].data)
    BY <1>1, <2>1, <2>2, OthersKeep
  <2>4. Kept(client[d].data)
    <3>1. PICK k : k = client[d].data
      OBVIOUS
    <3>2. Kept(k)
      BY <2>3, <3>1
    <3>3. client'[d].data = k
      BY <3>1
    <3>4. QED
      BY <3>1, <3>2, <3>3
  <2>5. QED
    BY <2>1, <2>2, <2>4, UploadKept
<1>4. UploadInv'
  <2>1. \A d \in Clients \ {c} : At(d, "put")' => At(d, "put")
    BY DEF At
  <2>2. QED
    BY <1>3, <2>1 DEF UploadInv
<1>5. ListMatchesDisk'
  BY <1>1, ListStays DEF FilesInv
<1>6. QED
  BY <1>2, <1>4, <1>5

\* A client that reads of a connection or closes some keeps what the server
\* has received on all of them.
LEMMA ReadsKept ==
  ASSUME ProtoInv, IInv', UNCHANGED serverVars, NEW x \in Conns, NEW s,
         conn[x].down # <<>>, conn' = [conn EXCEPT ![x].down = s]
  PROVE  \A m \in Conns : Kept(m)
<1>1. IInv /\ StreamInv /\ DOMAIN conn = Conns /\ DOMAIN conn[x] = ConnFields
  BY DEF ProtoInv, IInv, NetInv
<1>2. /\ conn'[x] = [conn[x] EXCEPT !.down = s]
      /\ \A m \in Conns \ {x} : conn'[m] = conn[m]
  BY <1>1
<1>3. conn'[x].server = conn[x].server /\ conn'[x].up = conn[x].up
  BY <1>1, <1>2 DEF ConnFields
<1>4. \A m \in Conns : Ent(m)' = Ent(m)
  <2>1. \A m \in Conns : conn'[m].server = "open" <=> conn[m].server = "open"
    BY <1>2, <1>3
  <2>2. QED
    BY <1>1, <2>1, ClientsView
<1>5. Kept(x)
  <2>1. Kind(x)' = Kind(x) /\ Stream(x)' = Stream(x) /\ Kind(x) # "NONE"
    <3>1. StreamOK(x)
      BY <1>1 DEF StreamInv
    <3>2. QED
      BY <1>3, <1>4, <3>1 DEF Kind, Stream, StreamOK
  <2>2. QED
    BY <1>3, <1>4, <2>1 DEF Kept
<1>6. QED
  BY <1>1, <1>2, <1>4, <1>5, SameKept

\* So does a client that closes connections.
LEMMA ClosesKept ==
  ASSUME ProtoInv, IInv', UNCHANGED serverVars,
         \A m \in Conns : conn'[m] \in {conn[m], ClientClosed(conn[m])}
  PROVE  \A m \in Conns : Kept(m)
<1>1. IInv /\ StreamInv /\ \A m \in Conns : DOMAIN conn[m] = ConnFields
  BY DEF ProtoInv, IInv, NetInv
<1>2. \A m \in Conns : Ent(m)' = Ent(m)
  <2>1. \A m \in Conns : conn'[m].server = "open" <=> conn[m].server = "open"
    BY <1>1, ClosedAtClient
  <2>2. QED
    BY <1>1, <2>1, ClientsView
<1>3. QED
  BY <1>1, <1>2, SameKept, ClosedKept

\* A client that receives some of a file has some to receive.
LEMMA SomeData ==
  ASSUME ProtoInv, NEW c \in Clients, At(c, "get"), Received(c) > 0
  PROVE  conn[client[c].data].down # <<>> /\ client[c].data \in Conns
<1>1. ~At(c, "off") /\ client[c] \in Online /\ RoleOK(c) /\ client[c].data \in Conns \cup {0}
  BY ClientTypes DEF At, ProtoInv, RoleInv
<1>2. client[c].data \in Conns /\ client[c].diffFiles # <<>>
  BY <1>1 DEF RoleOK
<1>3. ASSUME conn[client[c].data].down = <<>> PROVE FALSE
  <2>1. Len(DataDown(c)) = 0
    BY <1>3 DEF DataDown
  <2>2. client[c].buf \in Seq(Cell) /\ Len(client[c].buf) \in Nat /\ Head(client[c].diffFiles) \in Meta
    BY <1>1, <1>2 DEF Online
  <2>3. Head(client[c].diffFiles).size \in Int
    BY <2>2 DEF Meta
  <2>4. QED
    BY <2>1, <2>2, <2>3 DEF Received, Smaller
<1>4. QED
  BY <1>2, <1>3

\* Reading a list, fetching a file, finishing and stopping: what uploads carry is left alone.
LEMMA QuietView ==
  ASSUME ProtoInv, IInv', UNCHANGED serverVars, NEW c \in Clients,
         \/ ReadList(c) \/ ReadCount(c) \/ ReadMeta(c) \/ ReadData(c)
         \/ FinishGet(c) \/ FinishPut(c) \/ Stop(c)
  PROVE  /\ uploads' = uploads /\ Grows
         /\ \A d \in Clients \ {c} : client'[d] = client[d]
         /\ ~At(c, "put")'
         /\ \A m \in Conns : Kept(m)
<1>1. ProtoInv /\ SystemTypes /\ RoleInv /\ DOMAIN conn = Conns
  BY DEF ProtoInv, IInv, NetInv
<1>2. /\ ~At(c, "off") /\ uploads' = uploads /\ client[c] \in Online
      /\ client[c].cmd \in Conns /\ client[c].data \in Conns \cup {0}
  BY <1>1, ClientTypes DEF At, ReadList, ReadCount, ReadMeta, ReadData, FinishGet, FinishPut, Stop
<1>3. /\ \A d \in Clients \ {c} : client'[d] = client[d]
      /\ ~At(c, "put")'
  <2>1. DOMAIN client = Clients
    BY <1>1 DEF SystemTypes
  <2>2. CASE ReadList(c)
    <3>1. client' = [client EXCEPT ![c] = [client[c] EXCEPT !.pc = "count"]]
      BY <2>2 DEF ReadList
    <3>2. [client[c] EXCEPT !.pc = "count"].pc = "count"
      BY <1>2 DEF Online
    <3>3. QED
      BY <2>1, <3>1, <3>2 DEF At
  <2>3. CASE ReadCount(c) \/ ReadMeta(c) \/ FinishGet(c)
    <3>1. "pc" \in DOMAIN client[c]
      BY <1>2 DEF Online
    <3>2. \E r : "pc" \in DOMAIN r /\ client' = [client EXCEPT ![c] = Resume(r)]
      <4>1. CASE ReadCount(c)
        <5> DEFINE r == [client[c] EXCEPT !.tCount = Head(CmdDown(c)).n]
        <5>1. client' = [client EXCEPT ![c] = Resume(r)]
          BY <4>1 DEF ReadCount
        <5>2. "pc" \in DOMAIN r
          BY <3>1
        <5> HIDE DEF r
        <5>3. QED
          BY <5>1, <5>2
      <4>2. CASE ReadMeta(c)
        <5> DEFINE m == Head(CmdDown(c)).meta
                   r == [client[c] EXCEPT !.tCount = client[c].tCount - 1,
                           !.diffFiles = IF IsNew(c, m) THEN Append(client[c].diffFiles, m)
                                                        ELSE client[c].diffFiles]
        <5>1. client' = [client EXCEPT ![c] = Resume(r)]
          BY <4>2 DEF ReadMeta
        <5>2. "pc" \in DOMAIN r
          BY <3>1
        <5> HIDE DEF r
        <5>3. QED
          BY <5>1, <5>2
      <4>3. CASE FinishGet(c)
        <5> DEFINE more == client[c].localFiles \cup {Head(client[c].diffFiles).name}
                   r == [client[c] EXCEPT !.localFiles = more, !.diffFiles = Tail(client[c].diffFiles),
                                          !.buf = <<>>, !.data = 0]
        <5>1. client' = [client EXCEPT ![c] = Resume(r)]
          BY <4>3 DEF FinishGet
        <5>2. "pc" \in DOMAIN r
          BY <3>1
        <5> HIDE DEF r
        <5>3. QED
          BY <5>1, <5>2
      <4>4. QED
        BY <2>3, <4>1, <4>2, <4>3
    <3>3. PICK r : "pc" \in DOMAIN r /\ client' = [client EXCEPT ![c] = Resume(r)]
      BY <3>2
    <3>4. Resume(r).pc # "put"
      BY <3>3 DEF Resume
    <3>5. QED
      BY <2>1, <3>3, <3>4 DEF At
  <2>4. CASE ReadData(c)
    <3>1. client' = [client EXCEPT ![c] = [client[c] EXCEPT !.buf = Data(c)]] /\ At(c, "get")
      BY <2>4 DEF ReadData
    <3>2. [client[c] EXCEPT !.buf = Data(c)].pc = client[c].pc
      BY <1>2 DEF Online
    <3>3. QED
      BY <2>1, <3>1, <3>2 DEF At
  <2>5. CASE FinishPut(c)
    <3> DEFINE r == [client[c] EXCEPT !.pc = "idle", !.data = 0, !.upload = 0,
                       !.localFiles = client[c].localFiles \cup {uploads[client[c].upload].name}]
    <3>1. client' = [client EXCEPT ![c] = r]
      BY <2>5 DEF FinishPut
    <3>2. r.pc = "idle"
      BY <1>2 DEF Online
    <3> HIDE DEF r
    <3>3. QED
      BY <2>1, <3>1, <3>2 DEF At
  <2>6. CASE Stop(c)
    <3>1. client' = [client EXCEPT ![c] = Off]
      BY <2>6 DEF Stop
    <3>2. QED
      BY <2>1, <3>1 DEF At, Off
  <2>7. QED
    BY <2>2, <2>3, <2>4, <2>5, <2>6
<1>4. \A m \in Conns : Kept(m)
  <2>1. CASE ReadList(c) \/ ReadCount(c) \/ ReadMeta(c)
    <3>1. /\ conn[client[c].cmd].down # <<>>
          /\ conn' = [conn EXCEPT ![client[c].cmd].down = Tail(@)]
      BY <2>1 DEF ReadList, ReadCount, ReadMeta, ReadCmd, CmdDown
    <3>2. QED
      BY <1>1, <1>2, <3>1, ReadsKept
  <2>2. CASE ReadData(c)
    <3>1. /\ At(c, "get") /\ Received(c) > 0
          /\ conn' = [conn EXCEPT ![client[c].data].down = Without(@, Received(c))]
      BY <2>2 DEF ReadData
    <3>2. conn[client[c].data].down # <<>> /\ client[c].data \in Conns
      BY <1>1, <1>2, <3>1, SomeData
    <3>3. QED
      BY <1>1, <3>1, <3>2, ReadsKept
  <2>3. CASE FinishGet(c) \/ FinishPut(c)
    <3>1. conn' = [conn EXCEPT ![client[c].data] = ClientClosed(@)]
      BY <2>3 DEF FinishGet, FinishPut
    <3>2. \A m \in Conns : conn'[m] \in {conn[m], ClientClosed(conn[m])}
      BY <1>1, <3>1
    <3>3. QED
      BY <1>1, <3>2, ClosesKept
  <2>4. CASE Stop(c)
    <3>1. \A m \in Conns : conn'[m] \in {conn[m], ClientClosed(conn[m])}
      BY <2>4 DEF Stop
    <3>2. QED
      BY <1>1, <3>1, ClosesKept
  <2>5. QED
    BY <2>1, <2>2, <2>3, <2>4
<1>5. Grows
  BY <1>1, <1>2 DEF Grows, SystemTypes
<1>6. QED
  BY <1>2, <1>3, <1>4, <1>5

\* So the files stay in order.
LEMMA QuietClient ==
  ASSUME FilesInv, IInv', UNCHANGED serverVars, NEW c \in Clients,
         \/ ReadList(c) \/ ReadCount(c) \/ ReadMeta(c) \/ ReadData(c)
         \/ FinishGet(c) \/ FinishPut(c) \/ Stop(c)
  PROVE  CarryInv' /\ UploadInv' /\ ListMatchesDisk'
BY QuietView, ClientKeeps DEF FilesInv

\* A connection that is opened for anything but an upload carries no upload.
LEMMA OpenFiles ==
  ASSUME FilesInv, IInv', UNCHANGED serverVars, UNCHANGED uploads, NEW c \in Clients,
         \A d \in Clients \ {c} : client'[d] = client[d], ~At(c, "put")',
         NEW k \in Conns, NEW h, Connect(k, h), h.t # "PUT"
  PROVE  CarryInv' /\ UploadInv' /\ ListMatchesDisk'
<1>1. /\ conn[k].server = "none" /\ Kind(k)' = "NONE" /\ Stream(k)' = Request(h)
      /\ \A m \in Conns \ {k} : conn'[m] = conn[m]
      /\ \A m \in Conns : Ent(m)' = Ent(m)
  BY OpenView DEF FilesInv, ProtoInv
<1>2. Owned(c, k) /\ CarryOK(k)'
  BY <1>1, RequestIs DEF Owned, CarryOK
<1>3. \A m \in Conns \ {k} : Kept(m)
  BY <1>1, SameKept DEF FilesInv, ProtoInv
<1>4. Grows
  BY DEF Grows, FilesInv, ProtoInv, SystemTypes
<1>5. QED
  BY <1>2, <1>3, <1>4, ClientKeeps

\* A login and a download.
LEMMA StartFiles ==
  ASSUME FilesInv, IInv', UNCHANGED serverVars, NEW c \in Clients, NEW u \in Users, Start(c, u)
  PROVE  CarryInv' /\ UploadInv' /\ ListMatchesDisk'
<1>1. PICK k \in Conns :
        /\ Connect(k, LoginHeader(u))
        /\ client' = [client EXCEPT ![c] =
                        [pc |-> "login", user |-> u, cmd |-> k, data |-> 0,
                         localFiles |-> {}, diffFiles |-> <<>>, tCount |-> 0,
                         buf |-> <<>>, upload |-> 0]]
  BY DEF Start
<1>2. DOMAIN client = Clients /\ UNCHANGED uploads
  BY DEF FilesInv, ProtoInv, SystemTypes, Start
<1>3. /\ \A d \in Clients \ {c} : client'[d] = client[d]
      /\ ~At(c, "put")'
  BY <1>1, <1>2 DEF At
<1>4. LoginHeader(u).t # "PUT"
  BY DEF LoginHeader
<1>5. QED
  BY <1>1, <1>2, <1>3, <1>4, OpenFiles

\* A client asks for a file.
LEMMA FetchFiles ==
  ASSUME FilesInv, IInv', UNCHANGED serverVars, NEW c \in Clients, Fetch(c)
  PROVE  CarryInv' /\ UploadInv' /\ ListMatchesDisk'
<1> DEFINE h == GetHeader(client[c].user, Head(client[c].diffFiles))
<1>1. PICK k \in Conns : /\ Connect(k, h)
                         /\ client' = [client EXCEPT ![c] = [client[c] EXCEPT !.pc = "get", !.data = k]]
  BY DEF Fetch
<1>2. DOMAIN client = Clients /\ UNCHANGED uploads
  BY DEF FilesInv, ProtoInv, SystemTypes, Fetch
<1>3. client[c] \in Online
  BY ClientTypes DEF FilesInv, ProtoInv, Fetch, At
<1>4. [client[c] EXCEPT !.pc = "get", !.data = k].pc = "get"
  BY <1>3 DEF Online
<1>5. /\ \A d \in Clients \ {c} : client'[d] = client[d]
      /\ ~At(c, "put")'
  BY <1>1, <1>2, <1>4 DEF At
<1>6. h.t # "PUT"
  BY DEF GetHeader
<1> HIDE DEF h
<1>7. QED
  BY <1>1, <1>2, <1>5, <1>6, OpenFiles

\* An upload begins: nothing of the file is on its connection yet.
LEMMA UploadFiles ==
  ASSUME FilesInv, IInv', UNCHANGED serverVars, NEW c \in Clients, NEW n \in Names,
         NEW len \in Sizes, Upload(c, n, len)
  PROVE  CarryInv' /\ UploadInv' /\ ListMatchesDisk'
<1> DEFINE v == Len(uploads) + 1
           m == [name |-> n, size |-> len]
           u == client[c].user
           h == PutHeader(u, m)
           x == [user |-> u, name |-> n, size |-> len]
           b == Content(v, len)
<1>0. /\ ProtoInv /\ SystemTypes /\ StreamInv /\ len \in Nat
      /\ At(c, "idle") /\ uploads' = Append(uploads, x)
  BY ClientAssumption DEF Upload, TakesCommands, FilesInv, ProtoInv
<1>1. PICK k \in Conns : /\ Connect(k, h)
                         /\ client' = [client EXCEPT ![c] = [client[c] EXCEPT !.pc = "put", !.data = k,
                                                               !.buf = b, !.upload = v]]
  BY ZenonT(60) DEF Upload
<1>2. client[c] \in Online /\ u \in Users
  BY <1>0, ClientTypes DEF At
<1>3. /\ conn[k].server = "none" /\ Kind(k)' = "NONE" /\ Stream(k)' = Request(h)
      /\ \A l \in Conns \ {k} : conn'[l] = conn[l]
      /\ \A l \in Conns : Ent(l)' = Ent(l)
  BY <1>1, OpenView DEF FilesInv, ProtoInv
<1>4. /\ Stream(k)'[2] = h /\ Len(Stream(k)') = 2
      /\ h.user = u /\ h.meta = m /\ m.name = n /\ m.size = len
  BY <1>3, RequestIs DEF PutHeader
<1>5. Len(b) = len /\ \A p \in 1..len : b[p] = Byte(v, p)
  BY <1>0 DEF Content
<1>6. /\ Grows /\ v \in 1..Len(uploads') /\ uploads'[v] = x
  <2> DEFINE Up == [user : Users, name : Names, size : Nat]
  <2>1. uploads \in Seq(Up) /\ x \in Up
    BY <1>0, <1>2 DEF SystemTypes
  <2> HIDE DEF Up, x
  <2>2. /\ Len(uploads) \in Nat /\ Len(uploads') = Len(uploads) + 1
        /\ \A w \in 1..Len(uploads) : uploads'[w] = uploads[w]
        /\ uploads'[Len(uploads) + 1] = x
    BY <1>0, <2>1
  <2>3. QED
    BY <2>2 DEF Grows
<1>7. /\ \A d \in Clients \ {c} : client'[d] = client[d]
      /\ client'[c].user = u /\ client'[c].data = k /\ client'[c].buf = b /\ client'[c].upload = v
  <2> HIDE DEF b, v
  <2>1. QED
    BY <1>0, <1>1, <1>2 DEF SystemTypes, Online
<1>8. x.user = u /\ x.size = len /\ x = [user |-> u, name |-> m.name, size |-> m.size]
  OBVIOUS
<1>9. PICK y, w, z, g, q : y = Stream(k)' /\ w = u /\ z = m /\ g = v /\ q = b
  OBVIOUS
<1> HIDE DEF v, m, h, x, b
<1>10. Carries(y, HeaderCells, g, w, z)' /\ Len(y) + Len(q) = HeaderCells + z.size
  <2>1. Len(y) = 2 /\ HeaderCells = 2 /\ z.size = len /\ Len(q) = len
    BY <1>4, <1>5, <1>9 DEF HeaderCells
  <2>2. Len(y) <= HeaderCells + z.size /\ Len(y) + Len(q) = HeaderCells + z.size
    BY <1>0, <2>1
  <2>3. \A p \in (HeaderCells + 1)..Len(y) : FALSE
    BY <2>1
  <2>4. g \in 1..Len(uploads') /\ uploads'[g] = [user |-> w, name |-> z.name, size |-> z.size]
    BY <1>6, <1>8, <1>9
  <2>5. QED
    BY <2>2, <2>3, <2>4 DEF Carries, IsUpload
<1>11. y[2].user = w /\ y[2].meta = z /\ g \in Nat
  BY <1>4, <1>6, <1>9
<1>12. CarryOK(k)'
  BY <1>3, <1>9, <1>10, <1>11 DEF CarryOK
<1>13. UploadOK(c)'
  <2>1. uploads'[g].user = w /\ uploads'[g].size = len
    BY <1>6, <1>8, <1>9
  <2>2. Len(q) <= len /\ \A p \in 1..Len(q) : q[p] = Byte(g, len - Len(q) + p)
    <3>1. \A p \in 1..len : len - len + p = p
      BY <1>0
    <3>2. QED
      BY <1>0, <1>5, <1>9, <3>1
  <2>3. RestIs(y, HeaderCells, g, w, z, q)'
    BY <1>10 DEF RestIs
  <2>4. QED
    BY <1>3, <1>7, <1>9, <1>11, <2>1, <2>2, <2>3 DEF UploadOK
<1>14. \A l \in Conns \ {k} : Kept(l)
  BY <1>0, <1>3, SameKept
<1>15. Owned(c, k)
  BY <1>3 DEF Owned
<1>16. QED
  BY <1>6, <1>7, <1>12, <1>13, <1>14, <1>15, ClientKeeps

\* What is left of a buffer, and of its file, when the first n cells are written.
BufRest(buf, n, v, len) ==
  LET w == Without(buf, n) IN
  /\ w \in Seq(Cell) /\ Len(w) = Len(buf) - n /\ Len(w) <= len
  /\ \A p \in 1..Len(w) : w[p] = Byte(v, len - Len(w) + p)

\* After n bytes were written, the rest of a buffer is still the end of the upload.
LEMMA RestOfBuf ==
  ASSUME NEW buf \in Seq(Cell), NEW n \in 1..Len(buf), NEW v, NEW len \in Nat, Len(buf) <= len,
         \A p \in 1..Len(buf) : buf[p] = Byte(v, len - Len(buf) + p)
  PROVE  BufRest(buf, n, v, len)
<1> DEFINE w == Without(buf, n)
<1>1. n \in Nat /\ n >= 1 /\ n <= Len(buf) /\ Len(buf) \in Nat
  OBVIOUS
<1>2. w \in Seq(Cell) /\ Len(w) = Len(buf) - n /\ \A p \in 1..(Len(buf) - n) : w[p] = buf[n + p]
  BY <1>1 DEF Without
<1> HIDE DEF w
<1>3. ASSUME NEW p \in 1..Len(w) PROVE w[p] = Byte(v, len - Len(w) + p)
  <2>1. n + p \in 1..Len(buf) /\ len - Len(buf) + (n + p) = len - Len(w) + p
    BY <1>1, <1>2
  <2>2. w[p] = buf[n + p] /\ buf[n + p] = Byte(v, len - Len(buf) + (n + p))
    BY <1>2, <2>1
  <2>3. QED
    BY <2>1, <2>2
<1>4. Len(w) <= len
  BY <1>1, <1>2
<1>5. QED
  BY <1>2, <1>3, <1>4 DEF BufRest, w

\* The connection carries so many bytes more of the same upload.
LEMMA RestWritten ==
  ASSUME NEW s \in Seq(Cell), NEW buf \in Seq(Cell), NEW n \in 1..Len(buf), NEW d \in Nat,
         NEW v, NEW u, NEW m \in Meta, RestIs(s, d, v, u, m, buf),
         \A p \in 1..Len(buf) : buf[p] = Byte(v, m.size - Len(buf) + p)
  PROVE  RestIs(s \o First(buf, n), d, v, u, m, Without(buf, n))
<1> DEFINE f == First(buf, n)
           w == Without(buf, n)
           r == s \o f
           len == m.size
<1>1. n \in Nat /\ n >= 1 /\ n <= Len(buf) /\ Len(buf) \in Nat /\ len \in Nat /\ Len(s) \in Nat
  BY DEF Meta
<1>2. /\ f \in Seq(Cell) /\ Len(f) = n /\ \A p \in 1..n : f[p] = buf[p]
      /\ Len(w) = Len(buf) - n
  BY <1>1, SMTT(30) DEF First, Without
<1> HIDE DEF f, w
<1>3. /\ r \in Seq(Cell) /\ Len(r) = Len(s) + n
      /\ \A p \in 1..Len(s) : r[p] = s[p]
      /\ \A q \in 1..n : r[Len(s) + q] = f[q]
  BY <1>2, Joined
<1> HIDE DEF r
<1>4. /\ IsUpload(v, u, m) /\ Len(s) <= d + len /\ Len(s) + Len(buf) = d + len
      /\ \A p \in (d + 1)..Len(s) : s[p] = Byte(v, p - d)
  BY DEF RestIs, Carries
<1> HIDE DEF len
<1>5. /\ Len(r) = Len(s) + n /\ Len(s) + Len(buf) = d + len /\ Len(w) = Len(buf) - n
      /\ n \in Nat /\ n >= 1 /\ n <= Len(buf)
      /\ Len(buf) \in Nat /\ len \in Nat /\ Len(s) \in Nat /\ d \in Nat
  BY <1>1, <1>2, <1>3, <1>4
<1>5a. Len(r) <= d + len /\ Len(r) + Len(w) = d + len
  BY <1>5
<1>6. ASSUME NEW p \in (d + 1)..Len(r) PROVE r[p] = Byte(v, p - d)
  <2>1. CASE p <= Len(s)
    <3>1. p \in (d + 1)..Len(s) /\ p \in 1..Len(s)
      BY <1>1, <1>3, <2>1
    <3>2. QED
      BY <1>3, <1>4, <3>1
  <2>2. CASE ~(p <= Len(s))
    <3> DEFINE q == p - Len(s)
    <3>1. q \in 1..n /\ q \in 1..Len(buf) /\ p = Len(s) + q /\ len - Len(buf) + q = p - d
      BY <1>5, <2>2
    <3> HIDE DEF q
    <3>2. r[p] = f[q] /\ f[q] = buf[q]
      BY <1>2, <1>3, <3>1
    <3>3. buf[q] = Byte(v, len - Len(buf) + q)
      BY <3>1 DEF len
    <3>4. QED
      BY <3>1, <3>2, <3>3
  <2>3. QED
    BY <2>1, <2>2
<1>7. QED
  BY <1>4, <1>5a, <1>6 DEF RestIs, Carries, len, f, w, r

\* What a client writes of an upload comes behind what it has written.
LEMMA WriteView ==
  ASSUME ProtoInv, IInv', UNCHANGED serverVars, NEW c \in Clients, WriteData(c),
         NEW x, x = client[c].data
  PROVE  /\ client[c] \in Online /\ x \in Conns /\ client[c].upload \in 1..Len(uploads)
         /\ Kind(x) \in {"NONE", "PUT", "gone"}
         /\ \E n \in 1..Len(client[c].buf) :
              /\ client'[c] = [client[c] EXCEPT !.buf = Without(client[c].buf, n)]
              /\ Stream(x)' = Stream(x) \o First(client[c].buf, n)
         /\ \A d \in Clients \ {c} : client'[d] = client[d]
         /\ Kind(x)' = Kind(x) /\ \A m \in Conns : Ent(m)' = Ent(m)
         /\ \A m \in Conns \ {x} : conn'[m] = conn[m]
<1>0. /\ SystemTypes /\ StreamInv /\ IInv
      /\ At(c, "put") /\ ~At(c, "off")
  BY DEF WriteData, At, ProtoInv
<1>1. PICK n \in 1..Len(client[c].buf) :
        /\ conn' = [conn EXCEPT ![client[c].data].up = @ \o First(client[c].buf, n)]
        /\ client' = [client EXCEPT ![c].buf = Without(@, n)]
  BY DEF WriteData
<1>2. RoleOK(c) /\ PutOK(c) /\ client[c] \in Online
  BY <1>0, ClientTypes DEF ProtoInv, RoleInv, PutInv
<1>3. /\ x \in Conns /\ client[c].buf \in Seq(Cell) /\ client[c].upload \in 1..Len(uploads)
      /\ Kind(x) \in {"NONE", "PUT", "gone"}
  BY <1>0, <1>2 DEF RoleOK, PutOK, Online, At
<1> DEFINE f == First(client[c].buf, n)
<1>4. f \in Seq(Cell)
  BY <1>3 DEF First
<1>5. /\ conn'[x] = [conn[x] EXCEPT !.up = conn[x].up \o f]
      /\ \A m \in Conns \ {x} : conn'[m] = conn[m]
      /\ DOMAIN conn[x] = ConnFields
  BY <1>0, <1>1, <1>3 DEF IInv, NetInv
<1>6. /\ client'[c] = [client[c] EXCEPT !.buf = Without(client[c].buf, n)]
      /\ \A d \in Clients \ {c} : client'[d] = client[d]
  BY <1>0, <1>1 DEF SystemTypes
<1> HIDE DEF f
<1>7. conn'[x].server = conn[x].server /\ conn'[x].up = conn[x].up \o f
  BY <1>5 DEF ConnFields
<1>8. \A m \in Conns : Ent(m)' = Ent(m)
  <2>1. \A m \in Conns : conn'[m].server = "open" <=> conn[m].server = "open"
    BY <1>5, <1>7
  <2>2. QED
    BY <1>0, <2>1, ClientsView
<1>9. Kind(x)' = Kind(x) /\ Stream(x)' = Stream(x) \o f
  <2>1. conn[x].up \in Seq(Cell) /\ Ent(x).rbuf \in Seq(Cell)
    BY <1>0, <1>3, Types
  <2>2. \A r, s, t \in Seq(Cell) : (r \o s) \o t = r \o (s \o t)
    BY ConcatAssociative
  <2>3. (Ent(x).rbuf \o conn[x].up) \o f = Ent(x).rbuf \o (conn[x].up \o f)
    BY <1>4, <2>1, <2>2
  <2>4. QED
    BY <1>3, <1>7, <1>8, <2>3 DEF Kind, Stream
<1>10. QED
  BY <1>1, <1>2, <1>3, <1>5, <1>6, <1>8, <1>9 DEF f

\* The connection and the buffer are still of one upload.
LEMMA WriteFiles ==
  ASSUME FilesInv, IInv', UNCHANGED serverVars, NEW c \in Clients, WriteData(c)
  PROVE  CarryInv' /\ UploadInv' /\ ListMatchesDisk'
<1>0. /\ ProtoInv /\ SystemTypes /\ StreamInv /\ IInv
      /\ At(c, "put") /\ ~At(c, "off") /\ uploads' = uploads
  BY DEF WriteData, At, FilesInv, ProtoInv
<1>1. PICK x, v, u, buf : /\ x = client[c].data /\ v = client[c].upload /\ u = client[c].user
                          /\ buf = client[c].buf
  OBVIOUS
<1>2. /\ client[c] \in Online /\ x \in Conns /\ v \in 1..Len(uploads) /\ buf \in Seq(Cell)
      /\ Kind(x) \in {"NONE", "PUT", "gone"} /\ Kind(x)' = Kind(x)
      /\ \A d \in Clients \ {c} : client'[d] = client[d]
      /\ \A m \in Conns : Ent(m)' = Ent(m)
      /\ \A m \in Conns \ {x} : conn'[m] = conn[m]
  BY <1>0, <1>1, WriteView DEF Online
<1>3. PICK n \in 1..Len(buf) : /\ client'[c] = [client[c] EXCEPT !.buf = Without(buf, n)]
                               /\ Stream(x)' = Stream(x) \o First(buf, n)
  BY <1>0, <1>1, WriteView
<1>4. UploadOK(c) /\ PutOK(c)
  BY <1>0 DEF FilesInv, UploadInv, ProtoInv, PutInv
<1> DEFINE f == First(buf, n)
           w == Without(buf, n)
           len == uploads[v].size
<1>5. len \in Nat /\ uploads[v].user = u
  <2> DEFINE Up == [user : Users, name : Names, size : Nat]
  <2>1. uploads \in Seq(Up)
    BY <1>0 DEF SystemTypes
  <2> HIDE DEF Up
  <2>2. uploads[v] \in Up
    BY <1>2, <2>1
  <2>3. QED
    BY <1>1, <1>4, <2>2 DEF Up, UploadOK
<1>6. /\ Len(buf) <= len /\ \A p \in 1..Len(buf) : buf[p] = Byte(v, len - Len(buf) + p)
  BY <1>1, <1>4 DEF UploadOK
<1>7. BufRest(buf, n, v, len)
  BY <1>2, <1>5, <1>6, RestOfBuf
<1>8. f \in Seq(Cell) /\ Stream(x) \in Seq(Cell)
  <2>1. f \in Seq(Cell)
    BY <1>2, <1>3 DEF First
  <2>2. QED
    BY <1>0, <1>2, <2>1, Types
<1> HIDE DEF f, w, len
<1>9. /\ client'[c].data = x /\ client'[c].upload = v /\ client'[c].user = u /\ client'[c].buf = w
  BY <1>1, <1>2, <1>3 DEF Online, w
<1>10. Stream(x)' = Stream(x) \o f
  BY <1>3 DEF f
<1>11. Grows /\ Owned(c, x)
  BY <1>0, <1>1 DEF Grows, SystemTypes, Owned
<1>12. \A m \in Conns \ {x} : Kept(m)
  BY <1>0, <1>2, SameKept
<1>13. PICK y, z, l : y = Stream(x) \o f /\ z = w /\ l = len
  OBVIOUS
<1>14. /\ uploads'[v].user = u /\ uploads'[v].size = l /\ Len(z) <= l
       /\ \A p \in 1..Len(z) : z[p] = Byte(v, l - Len(z) + p)
  BY <1>0, <1>5, <1>7, <1>13 DEF BufRest, w, len
<1>15. ASSUME NEW d \in Nat, NEW m \in Meta, RestIs(Stream(x), d, v, u, m, buf)
       PROVE  RestIs(y, d, v, u, m, z)' /\ Carries(y, d, v, u, m)'
  <2>1. m.size = len
    BY <1>15 DEF RestIs, Carries, IsUpload, len
  <2>2. RestIs(y, d, v, u, m, z)
    BY <1>2, <1>3, <1>6, <1>8, <1>13, <1>15, <2>1, RestWritten DEF f, w
  <2>3. QED
    BY <1>0, <2>2 DEF RestIs, Carries, IsUpload
<1>16. CarryOK(x)' /\ UploadOK(c)'
  <2>1. CASE Kind(x) = "NONE"
    <3>1. PICK s, m : s = Stream(x) /\ m = s[2].meta
      OBVIOUS
    <3>2. s[2].user = u /\ RestIs(s, HeaderCells, v, u, m, buf)
      BY <1>1, <1>2, <1>4, <2>1, <3>1 DEF UploadOK
    <3>3. y[2] = s[2] /\ m \in Meta
      <4>1. IsRequest(s) /\ s[2].t = "PUT"
        BY <1>0, <1>1, <1>2, <1>4, <2>1, <3>1 DEF StreamInv, StreamOK, PutOK, IsRequest
      <4>2. s \in Seq(Cell) /\ Len(s) \in Nat /\ Len(s) >= 2
        BY <1>8, <3>1, <4>1 DEF IsRequest, HeaderCells
      <4>3. 2 \in 1..Len(s) /\ s[2] \in Cell
        BY <4>2, ElementOfSeq
      <4>4. \A p \in 1..Len(s) : (s \o f)[p] = s[p]
        BY <1>8, <4>2, Joined
      <4>5. s[2].meta \in Meta
        BY <4>1, <4>3 DEF Cell
      <4>6. QED
        BY <1>13, <3>1, <4>3, <4>4, <4>5
    <3>4. RestIs(y, HeaderCells, v, u, m, z)' /\ Carries(y, HeaderCells, v, u, m)'
      BY <1>15, <3>1, <3>2, <3>3 DEF HeaderCells
    <3>5. y[2].user = u /\ y[2].meta = m /\ v \in Nat
      BY <1>2, <3>1, <3>2, <3>3
    <3>6. Kind(x)' = "NONE" /\ Stream(x)' = y
      BY <1>2, <1>10, <1>13, <2>1
    <3>7. CarryOK(x)'
      BY <3>4, <3>5, <3>6 DEF CarryOK
    <3>8. UploadOK(c)'
      BY <1>9, <1>13, <1>14, <3>4, <3>5, <3>6 DEF UploadOK
    <3>9. QED
      BY <3>7, <3>8
  <2>2. CASE Kind(x) = "PUT"
    <3>1. PICK m : m = Ent(x).meta
      OBVIOUS
    <3>2. Ent(x).name = u /\ RestIs(Stream(x), 0, v, u, m, buf)
      BY <1>1, <1>2, <1>4, <2>2, <3>1 DEF UploadOK
    <3>3. m \in Meta
      BY <1>0, <1>2, <2>2, <3>1 DEF StreamInv, StreamOK
    <3>4. RestIs(y, 0, v, u, m, z)' /\ Carries(y, 0, v, u, m)'
      BY <1>15, <3>2, <3>3
    <3>5. Kind(x)' = "PUT" /\ Stream(x)' = y /\ Ent(x)'.name = u /\ Ent(x)'.meta = m /\ v \in Nat
      BY <1>2, <1>10, <1>13, <2>2, <3>1, <3>2
    <3>6. CarryOK(x)'
      BY <3>4, <3>5 DEF CarryOK
    <3>7. UploadOK(c)'
      BY <1>9, <1>13, <1>14, <3>4, <3>5 DEF UploadOK
    <3>8. QED
      BY <3>6, <3>7
  <2>3. CASE Kind(x) = "gone"
    <3>1. Kind(x)' = "gone"
      BY <1>2, <2>3
    <3>2. QED
      BY <1>9, <1>13, <1>14, <3>1 DEF CarryOK, UploadOK
  <2>4. QED
    BY <1>2, <2>1, <2>2, <2>3
<1>17. QED
  BY <1>2, <1>11, <1>12, <1>16, ClientKeeps

\* Every step of a client keeps the files in order.
LEMMA ClientFiles ==
  ASSUME FilesInv, IInv', UNCHANGED serverVars, NEW c \in Clients, Client(c)
  PROVE  CarryInv' /\ UploadInv' /\ ListMatchesDisk'
BY QuietClient, StartFiles, FetchFiles, UploadFiles, WriteFiles DEF Client, Program, User

-----------------------------------------------------------------------------
(* Always                                                                  *)

\* Nothing is stored and nothing listed in the beginning.
LEMMA InitFiles == Init => FilesInv
<1>1. SUFFICES ASSUME Init PROVE FilesInv
  OBVIOUS
<1>2. \A k \in Conns : conn[k].server = "none"
  BY <1>1 DEF Init, NetInit, NoConn
<1>3. CarryInv
  BY <1>2 DEF CarryInv, CarryOK, Kind
<1>4. UploadInv
  BY <1>1 DEF Init, ClientInit, Off, At, UploadInv
<1>5. \A u \in Users, n \in Names : stored[u][n] = <<>> /\ files[u] = <<>>
  BY <1>1 DEF Init, ServerInit
<1>6. \A u \in Users, n \in Names : Positions(u, n) = {} /\ ~(Len(stored[u][n]) > 0)
  <2>1. Len(<<>>) = 0
    OBVIOUS
  <2>2. QED
    BY <1>5, <2>1 DEF Positions
<1>7. ListMatchesDisk
  BY <1>6 DEF ListMatchesDisk
<1>8. QED
  BY <1>1, <1>3, <1>4, <1>7, InitProto DEF FilesInv

\* Every step keeps them.
LEMMA NextFiles == ASSUME FilesInv, [Next]_vars PROVE FilesInv'
<1>1. ProtoInv' /\ IInv'
  BY NextProto DEF FilesInv, ProtoInv
<1>2. CASE Server /\ UNCHANGED clientVars
  BY <1>1, <1>2, ServerFiles DEF FilesInv
<1>3. CASE \E c \in Clients : Client(c) /\ UNCHANGED serverVars
  BY <1>1, <1>3, ClientFiles DEF FilesInv
<1>4. CASE UNCHANGED <<netVars, serverVars, clientVars>>
  <2>1. UNCHANGED clientVars /\ UNCHANGED serverVars /\ UNCHANGED <<conn, files, stored>>
    BY <1>4 DEF netVars, serverVars, clientVars
  <2>2. \A m \in Conns : Ent(m)' = Ent(m)
    BY <1>1, <2>1, ClientsView DEF FilesInv, ProtoInv
  <2>3. \A m \in Conns : Kept(m)
    BY <2>1, <2>2, SameKept DEF FilesInv, ProtoInv
  <2>4. Grows
    BY <2>1, HistoryStays DEF FilesInv, ProtoInv
  <2>5. QED
    BY <1>1, <2>1, <2>3, <2>4, ServerKeeps, ListStays DEF FilesInv
<1>5. QED
  BY <1>2, <1>3, <1>4, StepKinds

\* The files are always in order.
LEMMA FilesAlways == Spec => []FilesInv
<1>1. Init => FilesInv
  BY InitFiles
<1>2. FilesInv /\ [Next]_vars => FilesInv'
  BY NextFiles
<1>3. QED
  BY <1>1, <1>2, PTL DEF Spec

\* The list of a user's files agrees with the files on disk: the last entry for a
\* name describes the file that is there, and that file is one upload, whole, of
\* that user and name, however the uploads of several clients come in parts and
\* in turns.
THEOREM ListIsOnDisk == Spec => []ListMatchesDisk
<1>1. FilesInv => ListMatchesDisk
  BY DEF FilesInv
<1>2. QED
  BY <1>1, FilesAlways, PTL


-----------------------------------------------------------------------------
(* The inductive invariant of what is stored and fetched                   *)

\* A byte of upload v is in s, and so it is on connection k or was read from it.
HasByteOf(s, v) == \E p \in 1..Len(s) : s[p].t = "byte" /\ s[p].ver = v
OnItsWay(k, v)  == Kind(k) # "gone" /\ HasByteOf(Stream(k), v)
IsStored(v) ==
  \E u \in Users, n \in Names : \E j \in 1..Len(stored[u][n]) : HasByteOf(stored[u][n][j], v)

\* An upload is on its way on one connection, and is not stored as long as any of
\* it is on its way or still to be written.
PutsOnce(c) ==
  /\ \A k \in Conns : OnItsWay(k, client[c].upload) => k = client[c].data
  /\ client[c].buf # <<>> => ~IsStored(client[c].upload)
OnceInv ==
  /\ \A k, m \in Conns, v \in Nat : OnItsWay(k, v) /\ OnItsWay(m, v) => k = m
  /\ \A k \in Conns, v \in Nat : OnItsWay(k, v) => ~IsStored(v) /\ v <= Len(uploads)
  /\ \A v \in Nat : IsStored(v) => v <= Len(uploads)
  /\ \A c \in Clients : At(c, "put") => PutsOnce(c)
  /\ \A c, d \in Clients :
       At(c, "put") /\ At(d, "put") /\ client[c].upload = client[d].upload => c = d

\* Everything listed is stored in its size and not empty; what a client fetches, what it has
\* received included, is one of the contents stored under the name.
IsContent(s, u, n) == \E j \in 1..Len(stored[u][n]) : s = stored[u][n][j]
Listable(u, m) ==
  /\ m \in Meta /\ m.size \in Sizes /\ m.size > 0
  /\ \E j \in 1..Len(stored[u][m.name]) : Len(stored[u][m.name][j]) = m.size
GetOK(c) ==
  LET k == client[c].data
      u == client[c].user
      m == Head(client[c].diffFiles)
  IN /\ Kind(k) \in {"NONE", "GET", "gone"}
     /\ Len(client[c].buf) <= m.size
     /\ Kind(k) = "NONE" => client[c].buf = <<>> /\ Stream(k)[2] = GetHeader(u, m)
     /\ Kind(k) # "NONE" => IsContent(client[c].buf \o Pending(k), u, m.name)
FetchOK(c) ==
  /\ \A j \in 1..Len(client[c].diffFiles) : Listable(client[c].user, client[c].diffFiles[j])
  /\ ~At(c, "get") /\ ~At(c, "put") => client[c].buf = <<>>
  /\ At(c, "get") => GetOK(c)
StoreInv ==
  /\ \A v \in 1..Len(uploads) : uploads[v].size \in Sizes
  /\ \A u \in Users, n \in Names : \A j \in 1..Len(stored[u][n]) : Len(stored[u][n][j]) \in Sizes
  /\ \A u \in Users : \A j \in 1..Len(files[u]) : Listable(u, files[u][j])
GetInv == \A c \in Clients : ~At(c, "off") => FetchOK(c)

BoxInv == FilesInv /\ OnceInv /\ StoreInv /\ GetInv

-----------------------------------------------------------------------------
(* Once                                                                    *)

\* A step that puts no byte on its way, stores nothing and starts no upload
\* keeps it so that every upload is in one place.
LEMMA OnceKept ==
  ASSUME OnceInv, SystemTypes, Grows, stored' = stored,
         \A k \in Conns, v \in Nat : OnItsWay(k, v)' => OnItsWay(k, v),
         \A c \in Clients : At(c, "put")' => At(c, "put") /\ client'[c] = client[c],
         \A c \in Clients : At(c, "put") => client[c].upload \in Nat
  PROVE  OnceInv'
<1>1. \A v : IsStored(v)' <=> IsStored(v)
  BY DEF IsStored
<1>2. \A k, m \in Conns, v \in Nat : OnItsWay(k, v)' /\ OnItsWay(m, v)' => k = m
  BY DEF OnceInv
<1>3. ASSUME NEW v \in Nat, v <= Len(uploads) PROVE v <= Len(uploads')
  BY <1>3 DEF Grows
<1>4. \A k \in Conns, v \in Nat : OnItsWay(k, v)' => ~IsStored(v)' /\ v <= Len(uploads')
  BY <1>1, <1>3 DEF OnceInv
<1>5. \A v \in Nat : IsStored(v)' => v <= Len(uploads')
  BY <1>1, <1>3 DEF OnceInv
<1>6. ASSUME NEW c \in Clients, At(c, "put")' PROVE PutsOnce(c)'
  <2>1. PICK v, x, b : v = client[c].upload /\ x = client[c].data /\ b = client[c].buf
    OBVIOUS
  <2>2. At(c, "put") /\ v \in Nat /\ client'[c].upload = v /\ client'[c].data = x /\ client'[c].buf = b
    BY <1>6, <2>1
  <2>3. (\A k \in Conns : OnItsWay(k, v) => k = x) /\ (b # <<>> => ~IsStored(v))
    BY <2>1, <2>2 DEF OnceInv, PutsOnce
  <2>4. (\A k \in Conns : OnItsWay(k, v)' => k = x) /\ (b # <<>> => ~IsStored(v)')
    BY <1>1, <2>2, <2>3
  <2>5. QED
    BY <2>2, <2>4 DEF PutsOnce
<1>7. \A c, d \in Clients :
        At(c, "put")' /\ At(d, "put")' /\ client'[c].upload = client'[d].upload => c = d
  BY DEF OnceInv
<1>8. QED
  BY <1>2, <1>4, <1>5, <1>6, <1>7 DEF OnceInv

\* An uploading client has an upload of the history.
LEMMA UploadIs ==
  ASSUME ProtoInv, NEW c \in Clients, At(c, "put")
  PROVE  /\ client[c].upload \in 1..Len(uploads) /\ client[c].upload \in Nat
         /\ client[c].data \in Conns /\ client[c] \in Online
<1>1. ~At(c, "off") /\ RoleOK(c) /\ Len(uploads) \in Nat
  BY DEF At, ProtoInv, RoleInv, SystemTypes
<1>2. client[c].upload \in 1..Len(uploads) /\ client[c].data # 0
  BY <1>1 DEF RoleOK
<1>3. client[c] \in Online /\ client[c].data \in Conns \cup {0}
  BY <1>1, ClientTypes DEF ProtoInv
<1>4. QED
  BY <1>1, <1>2, <1>3

\* What is on its way on a connection that is kept was on its way before.
LEMMA WayKept ==
  ASSUME NEW k, Kept(k), NEW v, OnItsWay(k, v)' PROVE OnItsWay(k, v)
BY DEF Kept, OnItsWay, HasByteOf

\* Nothing is on its way to the server on a connection that is no upload.
LEMMA NoWay ==
  ASSUME StreamInv, NEW k \in Conns, Kind(k) \in {"CMD", "GET", "gone"}, NEW v
  PROVE  ~OnItsWay(k, v)
<1>1. Kind(k) # "gone" => Stream(k) = <<>>
  BY DEF StreamInv, StreamOK
<1>2. ~HasByteOf(<<>>, v)
  BY DEF HasByteOf
<1>3. QED
  BY <1>1, <1>2 DEF OnItsWay

\* Every connection is of one of the kinds.
LEMMA Kinds ==
  IInv /\ SystemTypes => \A k \in Conns : Kind(k) \in {"NONE", "CMD", "GET", "PUT", "gone"}
BY KindIs

\* The same after a step.
LEMMA NoWayNext ==
  (IInv /\ SystemTypes /\ StreamInv)' =>
    (\A k \in Conns : Kind(k) \notin {"NONE", "PUT"} => \A v \in Nat : ~OnItsWay(k, v))'
<1>1. IInv /\ SystemTypes /\ StreamInv =>
        \A k \in Conns : Kind(k) \notin {"NONE", "PUT"} => \A v \in Nat : ~OnItsWay(k, v)
  BY Kinds, NoWay
<1>2. QED
  BY <1>1, PTL

\* The bytes behind the header of an upload were on their way before it was read.
LEMMA PutWay ==
  ASSUME ProtoInv, IInv', Put, NEW k, k = link, NEW v, OnItsWay(k, v)'
  PROVE  OnItsWay(k, v)
<1> DEFINE s == Stream(k)
           x == conn'[k].up
<1>1. /\ conn'[k].server = "open" /\ Len(x) = Len(s) - HeaderCells /\ x \in Seq(Cell)
      /\ \A p \in 1..(Len(s) - HeaderCells) : x[p] = s[HeaderCells + p]
      /\ Ent(k)'.rbuf = <<>>
  BY PutView
<1>2. k \in Conns /\ Kind(k) = "NONE"
  BY HeaderView DEF Put
<1>3. Stream(k)' = x /\ Len(s) \in Nat
  <2>1. Stream(k)' = <<>> \o x /\ <<>> \o x = x
    BY <1>1 DEF Stream
  <2>2. s \in Seq(Cell)
    BY <1>2, Types DEF ProtoInv
  <2> HIDE DEF s
  <2>3. Len(s) \in Nat
    BY <2>2
  <2>4. QED
    BY <2>1, <2>3
<1>4. PICK p \in 1..Len(x) : x[p].t = "byte" /\ x[p].ver = v
  BY <1>3 DEF OnItsWay, HasByteOf
<1> HIDE DEF s, x
<1>5. p \in 1..(Len(s) - HeaderCells) /\ HeaderCells + p \in 1..Len(s)
  BY <1>1, <1>3 DEF HeaderCells
<1>6. s[HeaderCells + p].t = "byte" /\ s[HeaderCells + p].ver = v
  BY <1>1, <1>4, <1>5
<1>7. QED
  BY <1>2, <1>5, <1>6 DEF OnItsWay, HasByteOf, s

\* The server puts nothing on its way to itself.
LEMMA ServerWay ==
  ASSUME FilesInv, ProtoInv', Server, NEW k \in Conns, NEW v \in Nat, OnItsWay(k, v)'
  PROVE  OnItsWay(k, v)
<1>1. IInv' /\ ProtoInv /\ (IInv /\ SystemTypes /\ StreamInv)'
  BY DEF ProtoInv, FilesInv
<1>2. CASE ~Put
  <2>1. Kept(k) \/ Kind(k)' \notin {"NONE", "PUT"}
    BY <1>1, <1>2, NoOtherPut
  <2>2. QED
    BY <1>1, <2>1, WayKept, NoWayNext
<1>3. CASE Put
  <2>1. PICK l : l = link
    OBVIOUS
  <2>2. CASE k = l
    BY <1>1, <1>3, <2>1, <2>2, PutWay
  <2>3. CASE k # l
    <3>1. conn'[k] = conn[k] /\ Ent(k)' = Ent(k)
      BY <1>1, <1>3, <2>1, <2>3, PutView
    <3>2. Kept(k)
      BY <3>1, SameKept DEF FilesInv, ProtoInv
    <3>3. QED
      BY <3>2, WayKept
  <2>4. QED
    BY <2>2, <2>3
<1>4. QED
  BY <1>2, <1>3

\* An uploading client whose upload is on its way is the one that is putting it there:
\* once all of it has arrived, the client has nothing left.
LEMMA AllWritten ==
  ASSUME FilesInv, NEW c \in Clients, At(c, "put"), NEW k, k = client[c].data,
         Kind(k) = "PUT", Len(Stream(k)) = Ent(k).meta.size
  PROVE  client[c].buf = <<>>
<1>1. UploadOK(c) /\ ProtoInv
  BY DEF FilesInv, UploadInv
<1>2. PICK b, m : b = client[c].buf /\ m = Ent(k).meta
  OBVIOUS
<1>3. RestIs(Stream(k), 0, client[c].upload, client[c].user, m, b)
  BY <1>1, <1>2 DEF UploadOK
<1>4. Len(Stream(k)) + Len(b) = 0 + m.size /\ Len(Stream(k)) = m.size
  BY <1>2, <1>3 DEF RestIs
<1>5. b \in Seq(Cell) /\ k \in Conns
  BY <1>1, <1>2, UploadIs DEF Online
<1>6. m.size \in Nat
  BY <1>1, <1>2, <1>5 DEF ProtoInv, StreamInv, StreamOK, Meta
<1>7. Len(b) = 0
  BY <1>4, <1>5, <1>6
<1>8. QED
  BY <1>2, <1>5, <1>7

\* What is stored of a file is all of one upload, and the rest is as before.
LEMMA StoredNow ==
  ASSUME NEW w \in Users, NEW n \in Names, NEW x, NEW v, SystemTypes,
         stored' = [stored EXCEPT ![w][n] = Append(@, x)],
         \A h : HasByteOf(x, h) => h = v,
         NEW g, IsStored(g)'
  PROVE  IsStored(g) \/ g = v
<1>1. PICK u \in Users, m \in Names : \E j \in 1..Len(stored'[u][m]) : HasByteOf(stored'[u][m][j], g)
  BY DEF IsStored, HasByteOf
<1>2. PICK j \in 1..Len(stored'[u][m]) : HasByteOf(stored'[u][m][j], g)
  BY <1>1
<1>3. stored[u][m] \in Seq(Seq(Cell))
  BY DEF SystemTypes
<1>4. CASE u = w /\ m = n
  <2>1. stored'[u][m] = Append(stored[u][m], x)
    BY <1>4 DEF SystemTypes
  <2>2. CASE j \in 1..Len(stored[u][m])
    <3>1. stored'[u][m][j] = stored[u][m][j]
      BY <1>3, <2>1, <2>2
    <3>2. QED
      BY <1>2, <2>2, <3>1 DEF IsStored
  <2>3. CASE j \notin 1..Len(stored[u][m])
    <3>1. stored'[u][m][j] = x
      BY <1>2, <1>3, <2>1, <2>3
    <3>2. QED
      BY <1>2, <3>1
  <2>4. QED
    BY <2>2, <2>3
<1>5. CASE ~(u = w /\ m = n)
  <2>1. stored'[u][m] = stored[u][m]
    BY <1>5 DEF SystemTypes
  <2>2. QED
    BY <1>2, <2>1 DEF IsStored
<1>6. QED
  BY <1>4, <1>5

\* What is stored is not empty, and its bytes were on their way.
LEMMA StoredBytes ==
  ASSUME FilesInv, IInv', StoreFile, NEW k, k = link
  PROVE  \E v \in 1..Len(uploads) :
           /\ IsUpload(v, Ent(k).name, Ent(k).meta)
           /\ OnItsWay(k, v) /\ v \in Nat
           /\ k \in Conns /\ Kind(k) = "PUT" /\ Kind(k)' = "gone"
           /\ Ent(k).meta \in Meta /\ Ent(k).meta.size > 0
           /\ Len(Stream(k)) = Ent(k).meta.size
           /\ Content(v, Ent(k).meta.size) \in Seq(Cell)
           /\ stored' = [stored EXCEPT ![Ent(k).name][Ent(k).meta.name] =
                           Append(@, Content(v, Ent(k).meta.size))]
<1>0. ProtoInv /\ IInv /\ SystemTypes /\ StreamInv
  BY DEF FilesInv, ProtoInv
<1>1. k \in Conns /\ Kind(k) = "PUT" /\ Kind(k)' = "gone"
  BY <1>0, StoreView
<1> DEFINE s == Stream(k)
           m == Ent(k).meta
<1>2. PICK v \in Nat :
        /\ IsUpload(v, Ent(k).name, m)
        /\ Carries(s, 0, v, Ent(k).name, m)
        /\ Len(s) = m.size
        /\ Content(v, m.size) \in Seq(Cell)
        /\ stored' = [stored EXCEPT ![Ent(k).name][m.name] = Append(@, Content(v, m.size))]
  BY StoredWhole
<1>3. m \in Meta /\ m.size \in Nat
  BY <1>0, <1>1 DEF StreamInv, StreamOK, Meta
<1>4. Len(s) > 0
  <2>1. PICK n : n \in 1..Smaller(Wanted, Len(conn[k].up))
    BY DEF StoreFile, ReadSizes
  <2>2. /\ conn[k].up \in Seq(Cell) /\ Ent(k).rbuf \in Seq(Cell)
        /\ Len(s) = Len(Ent(k).rbuf) + Len(conn[k].up)
    BY <1>0, <1>1, Types
  <2>3. Len(conn[k].up) \in Nat /\ Len(Ent(k).rbuf) \in Nat
    BY <2>2
  <2>4. Wanted = Len(conn[k].up)
    BY DEF StoreFile, Wanted, ExpectsHeader
  <2>5. Smaller(Wanted, Len(conn[k].up)) = Len(conn[k].up)
    BY <2>3, <2>4 DEF Smaller
  <2>6. Len(conn[k].up) > 0
    BY <2>1, <2>3, <2>5
  <2>7. /\ Len(s) = Len(Ent(k).rbuf) + Len(conn[k].up) /\ Len(conn[k].up) > 0
        /\ Len(conn[k].up) \in Nat /\ Len(Ent(k).rbuf) \in Nat
    BY <2>2, <2>3, <2>6
  <2>8. PICK a, b : a = Len(Ent(k).rbuf) /\ b = Len(conn[k].up)
    OBVIOUS
  <2>9. Len(s) = a + b /\ a \in Nat /\ b \in Nat /\ b > 0
    BY <2>7, <2>8
  <2> HIDE DEF s
  <2>10. QED
    BY <2>9
<1> HIDE DEF s, m
<1>5. s[1] = Byte(v, 1) /\ 1 \in 1..Len(s)
  <2>1. 1 \in (0 + 1)..Len(s) /\ 1 \in 1..Len(s) /\ 1 - 0 = 1
    BY <1>2, <1>3, <1>4
  <2>2. s[1] = Byte(v, 1 - 0)
    BY <1>2, <2>1 DEF Carries
  <2>3. QED
    BY <2>1, <2>2
<1>6. OnItsWay(k, v)
  <2>1. s[1].t = "byte" /\ s[1].ver = v
    BY <1>5 DEF Byte
  <2>2. QED
    BY <1>1, <1>5, <2>1 DEF OnItsWay, HasByteOf, s
<1>7. v \in 1..Len(uploads)
  BY <1>2 DEF IsUpload
<1>8. QED
  BY <1>1, <1>2, <1>3, <1>4, <1>6, <1>7 DEF s, m

\* All of a content is of its upload.
LEMMA OneUpload ==
  ASSUME NEW v, NEW len \in Nat, NEW h, HasByteOf(Content(v, len), h) PROVE h = v
<1>1. Len(Content(v, len)) = len
  BY DEF Content
<1>2. PICK p \in 1..len : Content(v, len)[p].ver = h
  BY <1>1 DEF HasByteOf
<1>3. QED
  BY <1>2 DEF Content, Byte

\* An upload that is stored is on its way no more.
LEMMA StoreOnce ==
  ASSUME FilesInv, OnceInv, ProtoInv', StoreFile, UNCHANGED clientVars
  PROVE  OnceInv'
<1>0. ProtoInv /\ IInv /\ SystemTypes /\ IInv' /\ UNCHANGED <<client, uploads>>
  BY DEF FilesInv, ProtoInv, clientVars
<1>1. PICK k, w, m : k = link /\ w = Ent(k).name /\ m = Ent(k).meta
  OBVIOUS
<1>2. PICK v \in 1..Len(uploads) :
        /\ IsUpload(v, w, m) /\ OnItsWay(k, v) /\ v \in Nat
        /\ k \in Conns /\ Kind(k) = "PUT" /\ Kind(k)' = "gone" /\ m \in Meta
        /\ Len(Stream(k)) = m.size
        /\ stored' = [stored EXCEPT ![w][m.name] = Append(@, Content(v, m.size))]
  BY <1>0, <1>1, StoredBytes
<1>3. w \in Users /\ m.name \in Names /\ m.size \in Nat
  <2> DEFINE Up == [user : Users, name : Names, size : Nat]
  <2>1. uploads \in Seq(Up)
    BY <1>0 DEF SystemTypes
  <2> HIDE DEF Up
  <2>2. uploads[v] \in Up
    BY <1>2, <2>1
  <2>3. QED
    BY <1>2, <2>2 DEF Up, IsUpload, Meta
<1>4. ASSUME NEW g, IsStored(g)' PROVE IsStored(g) \/ g = v
  <2>1. \A h : HasByteOf(Content(v, m.size), h) => h = v
    BY <1>3, OneUpload
  <2>2. PICK x, n : x = Content(v, m.size) /\ n = m.name
    OBVIOUS
  <2>3. /\ SystemTypes /\ w \in Users /\ n \in Names /\ \A h : HasByteOf(x, h) => h = v
        /\ stored' = [stored EXCEPT ![w][n] = Append(@, x)]
    BY <1>0, <1>2, <1>3, <2>1, <2>2
  <2>4. QED
    BY <1>4, <2>3, StoredNow
<1>5. \A l \in Conns, g \in Nat : OnItsWay(l, g)' => OnItsWay(l, g) /\ l # k
  <2>1. \A l \in Conns, g \in Nat : OnItsWay(l, g)' => OnItsWay(l, g)
    BY ServerWay DEF Server
  <2>2. \A g : ~OnItsWay(k, g)'
    BY <1>2 DEF OnItsWay
  <2>3. QED
    BY <2>1, <2>2
<1>6. \A l, n \in Conns, g \in Nat : OnItsWay(l, g)' /\ OnItsWay(n, g)' => l = n
  BY <1>5 DEF OnceInv
<1>7. ASSUME NEW l \in Conns, NEW g \in Nat, OnItsWay(l, g)'
      PROVE  ~IsStored(g)' /\ g <= Len(uploads')
  <2>1. OnItsWay(l, g) /\ l # k
    BY <1>5, <1>7
  <2>2. ~IsStored(g) /\ g # v /\ g <= Len(uploads)
    BY <1>2, <2>1 DEF OnceInv
  <2>3. QED
    BY <1>0, <1>4, <2>2
<1>8. ASSUME NEW g \in Nat, IsStored(g)' PROVE g <= Len(uploads')
  <2>1. v <= Len(uploads)
    BY <1>2
  <2>2. QED
    BY <1>0, <1>4, <1>8, <2>1 DEF OnceInv
<1>9. ASSUME NEW c \in Clients, At(c, "put") PROVE PutsOnce(c)'
  <2>1. PICK g, x, b : g = client[c].upload /\ x = client[c].data /\ b = client[c].buf
    OBVIOUS
  <2>2. g \in Nat /\ (\A l \in Conns : OnItsWay(l, g) => l = x) /\ (b # <<>> => ~IsStored(g))
    BY <1>0, <1>9, <2>1, UploadIs DEF OnceInv, PutsOnce
  <2>3. \A l \in Conns : OnItsWay(l, g)' => l = x
    BY <1>5, <2>2
  <2>4. ASSUME b # <<>> PROVE ~IsStored(g)'
    <3>1. SUFFICES ASSUME IsStored(g)' PROVE FALSE
      OBVIOUS
    <3>2. g = v
      BY <1>4, <2>2, <2>4, <3>1
    <3>3. k = x
      BY <1>2, <2>2, <3>2
    <3>4. b = <<>>
      BY <1>1, <1>2, <1>9, <2>1, <3>3, AllWritten
    <3>5. QED
      BY <2>4, <3>4
  <2>5. client'[c].upload = g /\ client'[c].data = x /\ client'[c].buf = b
    BY <1>0, <2>1
  <2>6. QED
    BY <2>3, <2>4, <2>5 DEF PutsOnce
<1>10. \A c \in Clients : At(c, "put")' <=> At(c, "put")
  BY <1>0 DEF At
<1>11. \A c, d \in Clients :
         At(c, "put")' /\ At(d, "put")' /\ client'[c].upload = client'[d].upload => c = d
  BY <1>0, <1>10 DEF OnceInv
<1>12. QED
  BY <1>6, <1>7, <1>8, <1>9, <1>10, <1>11 DEF OnceInv

\* Every step of the server keeps uploads in one place.
LEMMA ServerOnce ==
  ASSUME FilesInv, OnceInv, ProtoInv', Server, UNCHANGED clientVars
  PROVE  OnceInv'
<1>1. CASE StoreFile
  BY <1>1, StoreOnce
<1>2. CASE ~StoreFile
  <2>1. stored' = stored
    BY <1>2 DEF Server, Select, Accept, HangUp, ReadPart, Login, Get, Put, Flush, FlushToNobody, EndGet
  <2>2. Grows /\ ProtoInv /\ SystemTypes /\ client' = client
    BY HistoryStays DEF FilesInv, ProtoInv, clientVars
  <2>3. \A c \in Clients : At(c, "put") => client[c].upload \in Nat
    BY <2>2, UploadIs
  <2>4. \A c \in Clients : At(c, "put")' => At(c, "put") /\ client'[c] = client[c]
    BY <2>2 DEF At
  <2>5. \A k \in Conns, v \in Nat : OnItsWay(k, v)' => OnItsWay(k, v)
    BY ServerWay
  <2>6. QED
    BY <2>1, <2>2, <2>3, <2>4, <2>5, OnceKept
<1>3. QED
  BY <1>1, <1>2

\* A new connection carries nothing of any upload.
LEMMA OpenWay ==
  ASSUME ProtoInv, IInv', UNCHANGED serverVars, NEW k \in Conns, NEW h, Connect(k, h), h.t # "byte"
  PROVE  \A m \in Conns, v \in Nat : OnItsWay(m, v)' => OnItsWay(m, v)
<1>1. /\ Stream(k)' = Request(h)
      /\ \A m \in Conns \ {k} : conn'[m] = conn[m]
      /\ \A m \in Conns : Ent(m)' = Ent(m)
  BY OpenView DEF ProtoInv
<1>2. \A v : ~OnItsWay(k, v)'
  <2>1. SUFFICES ASSUME NEW v, NEW p \in 1..Len(Request(h)), Request(h)[p].t = "byte" PROVE FALSE
    BY <1>1 DEF OnItsWay, HasByteOf
  <2>2. p \in {1, 2}
    BY RequestIs
  <2>3. QED
    BY <2>1, <2>2, RequestIs
<1>3. \A m \in Conns \ {k} : Kept(m)
  BY <1>1, SameKept DEF ProtoInv
<1>4. QED
  BY <1>2, <1>3, WayKept

\* Steps of a client that neither begin nor write an upload.
LEMMA OtherOnce ==
  ASSUME FilesInv, OnceInv, ProtoInv', UNCHANGED serverVars, NEW c \in Clients,
         \/ ReadList(c) \/ ReadCount(c) \/ ReadMeta(c) \/ ReadData(c)
         \/ FinishGet(c) \/ FinishPut(c) \/ Stop(c) \/ Fetch(c)
         \/ \E u \in Users : Start(c, u)
  PROVE  OnceInv'
<1>0. ProtoInv /\ SystemTypes /\ IInv' /\ stored' = stored /\ DOMAIN client = Clients
  BY DEF FilesInv, ProtoInv, serverVars, SystemTypes
<1>1. /\ Grows /\ \A d \in Clients \ {c} : client'[d] = client[d]
      /\ ~At(c, "put")'
      /\ \A m \in Conns, v \in Nat : OnItsWay(m, v)' => OnItsWay(m, v)
  <2>1. CASE Fetch(c)
    <3> DEFINE h == GetHeader(client[c].user, Head(client[c].diffFiles))
    <3>1. PICK k \in Conns :
            /\ Connect(k, h)
            /\ client' = [client EXCEPT ![c] = [client[c] EXCEPT !.pc = "get", !.data = k]]
      BY <2>1 DEF Fetch
    <3>2. client[c] \in Online
      BY <1>0, <2>1, ClientTypes DEF Fetch, At
    <3>3. [client[c] EXCEPT !.pc = "get", !.data = k].pc = "get"
      BY <3>2 DEF Online
    <3>4. h.t # "byte"
      BY DEF GetHeader
    <3> HIDE DEF h
    <3>5. Grows
      <4>1. uploads' = uploads
        BY <2>1 DEF Fetch
      <4>2. QED
        BY <1>0, <4>1 DEF Grows, SystemTypes
    <3>6. QED
      BY <1>0, <3>1, <3>3, <3>4, <3>5, OpenWay DEF At
  <2>2. CASE \E u \in Users : Start(c, u)
    <3>1. PICK u \in Users : Start(c, u)
      BY <2>2
    <3>2. PICK k \in Conns :
            /\ Connect(k, LoginHeader(u))
            /\ client' = [client EXCEPT ![c] =
                            [pc |-> "login", user |-> u, cmd |-> k, data |-> 0,
                             localFiles |-> {}, diffFiles |-> <<>>, tCount |-> 0,
                             buf |-> <<>>, upload |-> 0]]
      BY <3>1 DEF Start
    <3>3. Grows
      BY <1>0, <3>1 DEF Grows, Start, SystemTypes
    <3>4. LoginHeader(u).t # "byte"
      BY DEF LoginHeader
    <3>5. QED
      BY <1>0, <3>2, <3>3, <3>4, OpenWay DEF At
  <2>3. CASE ~Fetch(c) /\ ~(\E u \in Users : Start(c, u))
    BY <1>0, <2>3, QuietView, WayKept
  <2>4. QED
    BY <2>1, <2>2, <2>3
<1>2. \A d \in Clients : At(d, "put")' => At(d, "put") /\ client'[d] = client[d]
  BY <1>1 DEF At
<1>3. \A d \in Clients : At(d, "put") => client[d].upload \in Nat
  BY <1>0, UploadIs
<1>4. QED
  BY <1>0, <1>1, <1>2, <1>3, OnceKept

\* A new upload is nowhere yet.
LEMMA UploadOnce ==
  ASSUME FilesInv, OnceInv, ProtoInv', UNCHANGED serverVars, NEW c \in Clients, NEW n \in Names,
         NEW len \in Sizes, Upload(c, n, len)
  PROVE  OnceInv'
<1> DEFINE m == [name |-> n, size |-> len]
           h == PutHeader(client[c].user, m)
<1>0. /\ ProtoInv /\ SystemTypes /\ IInv' /\ stored' = stored /\ At(c, "idle")
      /\ Len(uploads) \in Nat
      /\ uploads' = Append(uploads, [user |-> client[c].user, name |-> n, size |-> len])
  BY SMTT(30) DEF FilesInv, ProtoInv, serverVars, Upload, TakesCommands, SystemTypes
<1>1. PICK k \in Conns :
        /\ Connect(k, h)
        /\ client' = [client EXCEPT ![c].pc = "put", ![c].data = k,
                                    ![c].buf = Content(Len(uploads) + 1, len),
                                    ![c].upload = Len(uploads) + 1]
  BY DEF Upload
<1>1a. PICK v, b : v = Len(uploads) + 1 /\ b = Content(v, len)
  OBVIOUS
<1>2. client[c] \in Online
  BY <1>0, ClientTypes DEF At
<1>3. \A l \in Conns, g \in Nat : OnItsWay(l, g)' => OnItsWay(l, g)
  <2>1. h.t # "byte"
    BY DEF PutHeader
  <2> HIDE DEF h
  <2>2. QED
    BY <1>0, <1>1, <2>1, OpenWay
<1>4. Len(uploads') = v /\ v \in Nat
  <2> DEFINE Up == [user : Users, name : Names, size : Nat]
  <2>1. uploads \in Seq(Up)
    BY <1>0 DEF SystemTypes
  <2> HIDE DEF Up
  <2>2. QED
    BY <1>0, <1>1a, <2>1
<1>5. /\ \A d \in Clients \ {c} : client'[d] = client[d]
      /\ client'[c].upload = v
  <2>1. client' = [client EXCEPT ![c].pc = "put", ![c].data = k, ![c].buf = b, ![c].upload = v]
    BY <1>1, <1>1a
  <2>2. QED
    BY <1>0, <1>2, <2>1 DEF SystemTypes, Online
<1>6. \A g : IsStored(g)' <=> IsStored(g)
  BY <1>0 DEF IsStored
<1>7. \A g \in Nat : g <= Len(uploads) => g <= Len(uploads')
  BY <1>0, <1>1a, <1>4
<1>8. \A g \in Nat : g <= Len(uploads) => g # v
  BY <1>0, <1>1a
<1> HIDE DEF m, h
<1>9. \A l \in Conns, g \in Nat : OnItsWay(l, g)' => ~IsStored(g)' /\ g <= Len(uploads')
  BY <1>3, <1>6, <1>7 DEF OnceInv
<1>10. \A l, o \in Conns, g \in Nat : OnItsWay(l, g)' /\ OnItsWay(o, g)' => l = o
  BY <1>3 DEF OnceInv
<1>11. \A g \in Nat : IsStored(g)' => g <= Len(uploads')
  BY <1>6, <1>7 DEF OnceInv
<1>12. (\A l \in Conns : ~OnItsWay(l, v)') /\ ~IsStored(v)'
  BY <1>3, <1>4, <1>6, <1>8 DEF OnceInv
<1>13. PutsOnce(c)'
  BY <1>5, <1>12 DEF PutsOnce
<1>14. ASSUME NEW d \in Clients \ {c}, At(d, "put") PROVE PutsOnce(d)' /\ client'[d].upload # v
  <2>1. PICK g, x, buf : g = client[d].upload /\ x = client[d].data /\ buf = client[d].buf
    OBVIOUS
  <2>2. g \in Nat /\ g <= Len(uploads)
    BY <1>0, <1>14, <2>1, UploadIs
  <2>3. (\A l \in Conns : OnItsWay(l, g) => l = x) /\ (buf # <<>> => ~IsStored(g))
    BY <1>14, <2>1 DEF OnceInv, PutsOnce
  <2>4. client'[d].upload = g /\ client'[d].data = x /\ client'[d].buf = buf
    BY <1>5, <2>1
  <2>5. PutsOnce(d)'
    BY <1>3, <1>6, <2>2, <2>3, <2>4 DEF PutsOnce
  <2>6. QED
    BY <1>8, <2>2, <2>4, <2>5
<1>15. \A d \in Clients \ {c} : At(d, "put")' => At(d, "put")
  BY <1>5 DEF At
<1>16. \A d \in Clients : At(d, "put")' => PutsOnce(d)'
  BY <1>13, <1>14, <1>15
<1>17. \A d, e \in Clients :
         At(d, "put")' /\ At(e, "put")' /\ client'[d].upload = client'[e].upload => d = e
  BY <1>5, <1>14, <1>15 DEF OnceInv
<1>18. QED
  BY <1>9, <1>10, <1>11, <1>16, <1>17 DEF OnceInv

\* What a client writes is of its upload, which is nowhere else.
LEMMA WriteOnce ==
  ASSUME FilesInv, OnceInv, ProtoInv', UNCHANGED serverVars, NEW c \in Clients, WriteData(c)
  PROVE  OnceInv'
<1>0. /\ ProtoInv /\ SystemTypes /\ IInv' /\ stored' = stored /\ At(c, "put") /\ uploads' = uploads
      /\ UploadOK(c)
  BY DEF FilesInv, UploadInv, ProtoInv, serverVars, WriteData
<1>0a. IInv /\ StreamInv
  BY DEF FilesInv, ProtoInv
<1>1. PICK x, v, buf : x = client[c].data /\ v = client[c].upload /\ buf = client[c].buf
  OBVIOUS
<1>2. /\ client[c] \in Online /\ x \in Conns /\ v \in 1..Len(uploads) /\ v \in Nat
      /\ v <= Len(uploads) /\ Kind(x)' = Kind(x)
      /\ \A d \in Clients \ {c} : client'[d] = client[d]
      /\ \A m \in Conns : Ent(m)' = Ent(m)
      /\ \A m \in Conns \ {x} : conn'[m] = conn[m]
  BY <1>0, <1>1, WriteView, UploadIs
<1>3. PICK n \in 1..Len(buf) : /\ client'[c] = [client[c] EXCEPT !.buf = Without(buf, n)]
                               /\ Stream(x)' = Stream(x) \o First(buf, n)
  BY <1>0, <1>1, WriteView
<1>4. (\A k \in Conns : OnItsWay(k, v) => k = x) /\ ~IsStored(v)
  BY <1>0, <1>1, <1>3 DEF OnceInv, PutsOnce
<1>5. buf \in Seq(Cell) /\ \A p \in 1..Len(buf) : buf[p].ver = v
  <2>1. buf \in Seq(Cell)
    BY <1>1, <1>2 DEF Online
  <2>2. \A p \in 1..Len(buf) : \E q : buf[p] = Byte(v, q)
    BY <1>0, <1>1 DEF UploadOK
  <2>3. QED
    <3>1. ASSUME NEW p \in 1..Len(buf) PROVE buf[p].ver = v
      <4>1. PICK q : buf[p] = Byte(v, q)
        BY <2>2
      <4>2. QED
        BY <4>1 DEF Byte
    <3>2. QED
      BY <2>1, <3>1
<1>6. ASSUME NEW g, OnItsWay(x, g)' PROVE OnItsWay(x, g) \/ g = v
  <2>1. PICK s, f : s = Stream(x) /\ f = First(buf, n)
    OBVIOUS
  <2>2. s \in Seq(Cell)
    BY <1>0, <1>0a, <1>2, <2>1, Types
  <2>3. f \in Seq(Cell) /\ Len(f) = n /\ \A q \in 1..n : f[q] = buf[q]
    BY <1>3, <1>5, <2>1 DEF First
  <2>4. PICK p \in 1..Len(s \o f) : (s \o f)[p].t = "byte" /\ (s \o f)[p].ver = g
    BY <1>3, <1>6, <2>1 DEF OnItsWay, HasByteOf
  <2>5. CASE p \in 1..Len(s)
    <3>1. (s \o f)[p] = s[p]
      BY <2>2, <2>3, <2>5, Joined
    <3>2. QED
      BY <1>2, <1>6, <2>1, <2>4, <2>5, <3>1 DEF OnItsWay, HasByteOf
  <2>6. CASE p \notin 1..Len(s)
    <3>1. Len(s \o f) = Len(s) + n /\ Len(s) \in Nat /\ n \in Nat
      BY <1>3, <2>2, <2>3, Joined
    <3>2. PICK q : q = p - Len(s)
      OBVIOUS
    <3>3. q \in 1..n /\ p = Len(s) + q
      BY <2>6, <3>1, <3>2
    <3>4. (s \o f)[p] = buf[q] /\ q \in 1..Len(buf)
      BY <1>3, <2>2, <2>3, <3>3, Joined
    <3>5. QED
      BY <1>5, <2>4, <3>4
  <2>7. QED
    BY <2>5, <2>6
<1>7. ASSUME NEW k \in Conns, NEW g \in Nat, OnItsWay(k, g)'
      PROVE  OnItsWay(k, g) \/ (g = v /\ k = x)
  <2>1. CASE k = x
    BY <1>6, <1>7, <2>1
  <2>2. CASE k # x
    <3>1. Kept(k)
      BY <1>0a, <1>2, <2>2, SameKept
    <3>2. QED
      BY <1>7, <3>1, WayKept
  <2>3. QED
    BY <2>1, <2>2
<1>8. \A g : IsStored(g)' <=> IsStored(g)
  BY <1>0 DEF IsStored
<1>9. \A k, m \in Conns, g \in Nat : OnItsWay(k, g)' /\ OnItsWay(m, g)' => k = m
  BY <1>4, <1>7 DEF OnceInv
<1>10. \A k \in Conns, g \in Nat : OnItsWay(k, g)' => ~IsStored(g)' /\ g <= Len(uploads')
  BY <1>0, <1>2, <1>4, <1>7, <1>8 DEF OnceInv
<1>11. \A g \in Nat : IsStored(g)' => g <= Len(uploads')
  BY <1>0, <1>8 DEF OnceInv
<1>12. client'[c].data = x /\ client'[c].upload = v /\ client'[c].pc = "put"
  BY <1>0, <1>1, <1>2, <1>3 DEF Online, At
<1>13. PutsOnce(c)'
  <2>1. \A k \in Conns : OnItsWay(k, v)' => k = x
    BY <1>2, <1>4, <1>7
  <2>2. QED
    BY <1>4, <1>8, <1>12, <2>1 DEF PutsOnce
<1>14. ASSUME NEW d \in Clients \ {c}, At(d, "put") PROVE PutsOnce(d)'
  <2>1. PICK g, y, b : g = client[d].upload /\ y = client[d].data /\ b = client[d].buf
    OBVIOUS
  <2>2. g \in Nat /\ g # v
    BY <1>0, <1>1, <1>14, <2>1, UploadIs DEF OnceInv
  <2>3. (\A k \in Conns : OnItsWay(k, g) => k = y) /\ (b # <<>> => ~IsStored(g))
    BY <1>14, <2>1 DEF OnceInv, PutsOnce
  <2>4. client'[d].upload = g /\ client'[d].data = y /\ client'[d].buf = b
    BY <1>2, <2>1
  <2>5. QED
    BY <1>7, <1>8, <2>2, <2>3, <2>4 DEF PutsOnce
<1>15. \A d \in Clients : (At(d, "put")' <=> At(d, "put")) /\ client'[d].upload = client[d].upload
  BY <1>0, <1>1, <1>2, <1>12 DEF At
<1>16. \A d \in Clients : At(d, "put")' => PutsOnce(d)'
  BY <1>13, <1>14, <1>15
<1>17. \A d, e \in Clients :
         At(d, "put")' /\ At(e, "put")' /\ client'[d].upload = client'[e].upload => d = e
  BY <1>15 DEF OnceInv
<1>18. QED
  BY <1>9, <1>10, <1>11, <1>16, <1>17 DEF OnceInv

\* Every step of a client keeps uploads in one place.
LEMMA ClientOnce ==
  ASSUME FilesInv, OnceInv, ProtoInv', UNCHANGED serverVars, NEW c \in Clients, Client(c)
  PROVE  OnceInv'
BY OtherOnce, UploadOnce, WriteOnce DEF Client, Program, User

\* The other step: nothing happens at all.
LEMMA StutterOnce ==
  ASSUME FilesInv, OnceInv, ProtoInv',
         UNCHANGED <<netVars, serverVars, clientVars>>
  PROVE  OnceInv'
<1>1. /\ ProtoInv /\ SystemTypes /\ StreamInv /\ IInv /\ IInv' /\ UNCHANGED <<conn, stored, client>>
      /\ UNCHANGED clientVars /\ UNCHANGED serverVars
  BY DEF FilesInv, ProtoInv, vars, netVars, serverVars, clientVars
<1>2. \A m \in Conns : Ent(m)' = Ent(m)
  BY <1>1, ClientsView
<1>3. \A m \in Conns : Kept(m)
  BY <1>1, <1>2, SameKept
<1>4. \A m \in Conns, v \in Nat : OnItsWay(m, v)' => OnItsWay(m, v)
  BY <1>3, WayKept
<1>5. Grows
  BY <1>1, HistoryStays
<1>6. \A c \in Clients : At(c, "put") => client[c].upload \in Nat
  BY <1>1, UploadIs
<1>7. \A c \in Clients : At(c, "put")' => At(c, "put") /\ client'[c] = client[c]
  BY <1>1 DEF At
<1>8. QED
  BY <1>1, <1>4, <1>5, <1>6, <1>7, OnceKept

\* An upload is in one place after every step.
LEMMA NextOnce ==
  ASSUME FilesInv, OnceInv, ProtoInv', [Next]_vars
  PROVE  OnceInv'
<1>1. CASE Server /\ UNCHANGED clientVars
  BY <1>1, ServerOnce
<1>2. CASE \E c \in Clients : Client(c) /\ UNCHANGED serverVars
  BY <1>2, ClientOnce
<1>3. CASE UNCHANGED <<netVars, serverVars, clientVars>>
  BY <1>3, StutterOnce
<1>4. QED
  BY <1>1, <1>2, <1>3, StepKinds

-----------------------------------------------------------------------------
(* What is stored                                                          *)

\* Whatever was stored stays where it is.
StoredStays ==
  \A u \in Users, n \in Names : \A j \in 1..Len(stored[u][n]) :
    j \in 1..Len(stored'[u][n]) /\ stored'[u][n][j] = stored[u][n][j]

\* What could be listed can be listed,
LEMMA StaysListable ==
  ASSUME SystemTypes, StoredStays, NEW u \in Users, NEW m, Listable(u, m)
  PROVE  Listable(u, m)'
<1>1. m \in Meta /\ m.name \in Names /\ m.size \in Sizes /\ m.size > 0
  BY DEF Listable, Meta
<1>2. PICK n \in Names : n = m.name
  BY <1>1
<1>3. PICK j \in 1..Len(stored[u][n]) : Len(stored[u][n][j]) = m.size
  BY <1>2 DEF Listable
<1>4. j \in 1..Len(stored'[u][n]) /\ stored'[u][n][j] = stored[u][n][j]
  BY <1>3 DEF StoredStays
<1>5. QED
  BY <1>1, <1>2, <1>3, <1>4 DEF Listable

\* and what was a content stored under a name is one.
LEMMA StaysContent ==
  ASSUME StoredStays, NEW u \in Users, NEW n \in Names, NEW s, IsContent(s, u, n)
  PROVE  IsContent(s, u, n)'
<1>1. PICK j \in 1..Len(stored[u][n]) : s = stored[u][n][j]
  BY DEF IsContent
<1>2. j \in 1..Len(stored'[u][n]) /\ stored'[u][n][j] = s
  BY <1>1 DEF StoredStays
<1>3. QED
  BY <1>2 DEF IsContent

\* Adding one file keeps the rest.
LEMMA AddedStays ==
  ASSUME SystemTypes, NEW w \in Users, NEW n \in Names, NEW x,
         stored' = [stored EXCEPT ![w][n] = Append(@, x)]
  PROVE  StoredStays
<1>1. SUFFICES ASSUME NEW u \in Users, NEW m \in Names, NEW j \in 1..Len(stored[u][m])
               PROVE  j \in 1..Len(stored'[u][m]) /\ stored'[u][m][j] = stored[u][m][j]
  BY DEF StoredStays
<1>2. CASE u = w /\ m = n
  <2>1. stored'[u][m] = Append(stored[u][m], x) /\ stored[u][m] \in Seq(Seq(Cell))
    BY <1>2 DEF SystemTypes
  <2>2. QED
    BY <2>1
<1>3. CASE ~(u = w /\ m = n)
  <2>1. stored'[u][m] = stored[u][m]
    BY <1>3 DEF SystemTypes
  <2>2. QED
    BY <2>1
<1>4. QED
  BY <1>2, <1>3

\* What the server stores it adds to what is stored.
LEMMA StoreAdds ==
  ASSUME FilesInv, IInv', StoreFile, NEW k, k = link
  PROVE  /\ StoredStays
         /\ \E v \in 1..Len(uploads), w \in Users, m \in Meta :
              /\ w = Ent(k).name /\ m = Ent(k).meta /\ IsUpload(v, w, m) /\ m.size > 0
              /\ m.name \in Names /\ m.size \in Nat
              /\ stored' = [stored EXCEPT ![w][m.name] = Append(@, Content(v, m.size))]
<1>0. SystemTypes
  BY DEF FilesInv, ProtoInv
<1>1. PICK w, m : w = Ent(k).name /\ m = Ent(k).meta
  OBVIOUS
<1>2. PICK v \in 1..Len(uploads) :
        /\ IsUpload(v, w, m) /\ m \in Meta /\ m.size > 0
        /\ stored' = [stored EXCEPT ![w][m.name] = Append(@, Content(v, m.size))]
  BY <1>1, StoredBytes
<1>3. w \in Users /\ m.name \in Names /\ m.size \in Nat
  <2> DEFINE Up == [user : Users, name : Names, size : Nat]
  <2>1. uploads \in Seq(Up)
    BY <1>0 DEF SystemTypes
  <2> HIDE DEF Up
  <2>2. uploads[v] \in Up
    BY <1>2, <2>1
  <2>3. QED
    BY <1>2, <2>2 DEF Up, IsUpload, Meta
<1>4. StoredStays
  BY <1>0, <1>2, <1>3, AddedStays
<1>5. QED
  BY <1>1, <1>2, <1>3, <1>4

\* No other step of the server stores or lists anything.
LEMMA OthersStore ==
  ASSUME Server, ~StoreFile
  PROVE  UNCHANGED <<files, stored>>
BY DEF Server, Select, Accept, HangUp, ReadPart, Login, Get, Put, Flush, FlushToNobody, EndGet

\* Nothing stored ever goes.
LEMMA ServerStays == ASSUME FilesInv, IInv', Server PROVE StoredStays
<1>1. CASE StoreFile
  BY <1>1, StoreAdds
<1>2. CASE ~StoreFile
  BY <1>2, OthersStore DEF StoredStays
<1>3. QED
  BY <1>1, <1>2

\* Everything stored has a size uploads have, and everything listed is stored,
\* after the server stored a file, too.
LEMMA StoreStore ==
  ASSUME FilesInv, StoreInv, ProtoInv', StoreFile, UNCHANGED clientVars
  PROVE  StoreInv'
<1>0. ProtoInv /\ SystemTypes /\ IInv' /\ uploads' = uploads
  BY DEF FilesInv, ProtoInv, clientVars
<1>1. PICK k : k = link
  OBVIOUS
<1>2. StoredStays
  BY <1>0, <1>1, StoreAdds
<1>3. PICK v \in 1..Len(uploads), w \in Users, m \in Meta :
              /\ w = Ent(k).name /\ m = Ent(k).meta /\ IsUpload(v, w, m) /\ m.size > 0
              /\ m.name \in Names /\ m.size \in Nat
              /\ stored' = [stored EXCEPT ![w][m.name] = Append(@, Content(v, m.size))]
  BY <1>0, <1>1, StoreAdds
<1>4. m.size \in Sizes
  BY <1>3 DEF StoreInv, IsUpload
<1>5. PICK x : x = Content(v, m.size)
  OBVIOUS
<1>6. Len(x) \in Sizes
  <2>1. Len(x) = m.size
    BY <1>3, <1>5 DEF Content
  <2>2. QED
    BY <1>4, <2>1
<1>7. ASSUME NEW u \in Users, NEW n \in Names, NEW j \in 1..Len(stored'[u][n])
      PROVE  Len(stored'[u][n][j]) \in Sizes
  <2>1. stored[u][n] \in Seq(Seq(Cell)) /\ \A i \in 1..Len(stored[u][n]) : Len(stored[u][n][i]) \in Sizes
    BY <1>0 DEF SystemTypes, StoreInv
  <2>2. CASE u = w /\ n = m.name
    <3>1. stored'[u][n] = Append(stored[u][n], x)
      BY <1>0, <1>3, <1>5, <2>2 DEF SystemTypes
    <3>2. CASE j \in 1..Len(stored[u][n])
      <4>1. stored'[u][n][j] = stored[u][n][j]
        BY <2>1, <3>1, <3>2
      <4>2. QED
        BY <2>1, <3>2, <4>1
    <3>3. CASE j \notin 1..Len(stored[u][n])
      <4>1. stored'[u][n][j] = x
        BY <2>1, <3>1, <3>3
      <4>2. QED
        BY <1>6, <4>1
    <3>4. QED
      BY <3>2, <3>3
  <2>3. CASE ~(u = w /\ n = m.name)
    <3>1. stored'[u][n] = stored[u][n]
      BY <1>0, <1>3, <2>3 DEF SystemTypes
    <3>2. QED
      BY <2>1, <3>1
  <2>4. QED
    BY <2>2, <2>3
<1>8. Listable(w, m)'
  <2>1. PICK n \in Names : n = m.name
    BY <1>3
  <2>2. stored'[w][n] = Append(stored[w][n], x) /\ stored[w][n] \in Seq(Seq(Cell))
    BY <1>0, <1>3, <1>5, <2>1 DEF SystemTypes
  <2>3. PICK s : s = stored[w][n]
    OBVIOUS
  <2>4. Len(s) + 1 \in 1..Len(Append(s, x)) /\ Append(s, x)[Len(s) + 1] = x
    BY <2>2, <2>3
  <2>5. Len(x) = m.size
    BY <1>3, <1>5 DEF Content
  <2>6. \E j \in 1..Len(stored'[w][m.name]) : Len(stored'[w][m.name][j]) = m.size
    BY <2>1, <2>2, <2>3, <2>4, <2>5
  <2>7. QED
    BY <1>3, <1>4, <2>6 DEF Listable
<1>9. files' = [files EXCEPT ![w] = Append(files[w], m)]
  BY <1>0, <1>1, <1>3, StoreView
<1>10. ASSUME NEW u \in Users, NEW j \in 1..Len(files'[u]) PROVE Listable(u, files[u][j])'
  <2>1. files[u] \in Seq(Meta) /\ DOMAIN files = Users
    BY <1>0 DEF SystemTypes
  <2>2. CASE u = w /\ j \notin 1..Len(files[u])
    <3>1. files'[u] = Append(files[u], m)
      BY <1>9, <2>1, <2>2
    <3>2. PICK y : y = files'[u][j]
      OBVIOUS
    <3>3. y = m
      BY <2>1, <2>2, <3>1, <3>2
    <3>4. Listable(u, y)'
      BY <1>8, <2>2, <3>3
    <3>5. QED
      BY <3>2, <3>4 DEF Listable
  <2>3. CASE ~(u = w /\ j \notin 1..Len(files[u]))
    <3>1. PICK y : y = files[u][j]
      OBVIOUS
    <3>2. j \in 1..Len(files[u]) /\ files'[u][j] = y
      <4>1. CASE u = w
        <5>1. files'[u] = Append(files[u], m)
          BY <1>9, <2>1, <4>1
        <5>2. QED
          BY <2>1, <2>3, <3>1, <4>1, <5>1
      <4>2. CASE u # w
        <5>1. files'[u] = files[u]
          BY <1>9, <2>1, <4>2
        <5>2. QED
          BY <3>1, <5>1
      <4>3. QED
        BY <4>1, <4>2
    <3>3. Listable(u, y)
      BY <3>1, <3>2 DEF StoreInv
    <3>4. Listable(u, y)'
      BY <1>0, <1>2, <3>3, StaysListable
    <3>5. QED
      BY <3>2, <3>4 DEF Listable
  <2>4. QED
    BY <2>2, <2>3
<1>11. QED
  BY <1>0, <1>7, <1>10 DEF StoreInv

-----------------------------------------------------------------------------
(* What is fetched: the server                                             *)

\* A fetching client has a connection of its own and a file to fetch.
LEMMA GetIs ==
  ASSUME ProtoInv, NEW c \in Clients, At(c, "get")
  PROVE  /\ ~At(c, "off") /\ client[c] \in Online /\ client[c].user \in Users
         /\ client[c].data \in Conns /\ conn[client[c].data].client
         /\ client[c].buf \in Seq(Cell)
         /\ client[c].diffFiles \in Seq(Meta) /\ client[c].diffFiles # <<>>
         /\ Head(client[c].diffFiles) = client[c].diffFiles[1] /\ 1 \in 1..Len(client[c].diffFiles)
         /\ Head(client[c].diffFiles) \in Meta /\ Head(client[c].diffFiles).name \in Names
         /\ Head(client[c].diffFiles).size \in Nat
<1>1. ~At(c, "off") /\ RoleOK(c)
  BY DEF At, ProtoInv, RoleInv
<1>2. client[c] \in Online
  BY <1>1, ClientTypes DEF ProtoInv
<1>3. /\ client[c].user \in Users /\ client[c].buf \in Seq(Cell) /\ client[c].diffFiles \in Seq(Meta)
      /\ client[c].data \in Conns /\ conn[client[c].data].client /\ client[c].diffFiles # <<>>
  BY <1>1, <1>2 DEF RoleOK, Online
<1>4. PICK s : s = client[c].diffFiles
  OBVIOUS
<1>5. s \in Seq(Meta) /\ s # <<>>
  BY <1>3, <1>4
<1>6. Head(s) = s[1] /\ 1 \in 1..Len(s) /\ Head(s) \in Meta
  BY <1>5
<1>7. Head(s).name \in Names /\ Head(s).size \in Nat
  BY <1>6 DEF Meta
<1>8. QED
  BY <1>1, <1>2, <1>3, <1>4, <1>6, <1>7

\* A client that is left alone still fetches what is stored, when its connection
\* brings what it brought.
LEMMA GetStays ==
  ASSUME StoredStays, NEW c \in Clients, GetOK(c), client'[c] = client[c],
         client[c].user \in Users, Head(client[c].diffFiles).name \in Names,
         NEW k, k = client[c].data,
         Kind(k) = "NONE" => Kind(k)' = "NONE" /\ Stream(k)' = Stream(k),
         Kind(k) # "NONE" => Kind(k)' \in {"GET", "gone"} /\ Pending(k)' = Pending(k)
  PROVE  GetOK(c)'
<1>1. PICK u, m, n, b : /\ u = client[c].user /\ m = Head(client[c].diffFiles)
                        /\ n = m.name /\ b = client[c].buf
  OBVIOUS
<1>2. /\ client'[c].data = k /\ client'[c].user = u /\ Head(client'[c].diffFiles) = m
      /\ client'[c].buf = b /\ u \in Users /\ n \in Names
  BY <1>1
<1>3. /\ Kind(k) \in {"NONE", "GET", "gone"} /\ Len(b) <= m.size
      /\ Kind(k) = "NONE" => b = <<>> /\ Stream(k)[2] = GetHeader(u, m)
      /\ Kind(k) # "NONE" => IsContent(b \o Pending(k), u, n)
  BY <1>1 DEF GetOK
<1>4. PICK s : s = b \o Pending(k)
  OBVIOUS
<1>5. Kind(k) # "NONE" => IsContent(s, u, n)' /\ b \o Pending(k)' = s
  BY <1>2, <1>3, <1>4, StaysContent
<1>6. Kind(k)' # "NONE" => IsContent(b \o Pending(k), u, n)'
  BY <1>5 DEF IsContent
<1>7. QED
  BY <1>1, <1>2, <1>3, <1>6 DEF GetOK

\* The same for all a client has still to fetch.
LEMMA FetchStays ==
  ASSUME SystemTypes, StoredStays, NEW c \in Clients, ~At(c, "off"), FetchOK(c), client'[c] = client[c],
         At(c, "get") => GetOK(c)'
  PROVE  FetchOK(c)'
<1>1. PICK u, s : u = client[c].user /\ s = client[c].diffFiles
  OBVIOUS
<1>2. u \in Users /\ client'[c].user = u /\ client'[c].diffFiles = s
  BY <1>1, ClientTypes
<1>3. ASSUME NEW j \in 1..Len(s) PROVE Listable(u, s[j])'
  <2>1. Listable(u, s[j])
    BY <1>1 DEF FetchOK
  <2>2. PICK m : m = s[j]
    OBVIOUS
  <2>3. Listable(u, m)'
    BY <1>2, <2>1, <2>2, StaysListable
  <2>4. QED
    BY <2>2, <2>3
<1>4. \A j \in 1..Len(client'[c].diffFiles) : Listable(client[c].user, client[c].diffFiles[j])'
  BY <1>2, <1>3
<1>5. QED
  BY <1>4 DEF FetchOK, At

\* A download the server has been asked for brings the file on disk.
LEMMA GetGets ==
  ASSUME BoxInv, IInv', Get, UNCHANGED clientVars, NEW c \in Clients, At(c, "get"),
         client[c].data = link
  PROVE  GetOK(c)'
<1>0. ProtoInv /\ SystemTypes /\ FetchOK(c) /\ GetOK(c) /\ client' = client /\ stored' = stored
  BY GetIs DEF BoxInv, FilesInv, ProtoInv, GetInv, FetchOK, clientVars, Get
<1>1. PICK k, u, m, n, b : /\ k = link /\ u = client[c].user /\ m = Head(client[c].diffFiles)
                           /\ n = m.name /\ b = client[c].buf
  OBVIOUS
<1>2. /\ k \in Conns /\ Kind(k) = "NONE" /\ Header = Stream(k)[2]
  BY <1>0, <1>1, HeaderView DEF Get
<1>3. b = <<>> /\ Header = GetHeader(u, m)
  BY <1>0, <1>1, <1>2 DEF GetOK
<1>4. Header.user = u /\ Header.meta = m
  BY <1>3 DEF GetHeader
<1>5. /\ conn'[k].server = "open" /\ conn'[k].down = <<>>
      /\ Ent(k)'.type = "GET" /\ Ent(k)'.wbuf = <<>> \o OnDisk(u, n)
  BY <1>0, <1>1, <1>4, GetView
<1>6. u \in Users /\ n \in Names /\ Listable(u, m)
  BY <1>0, <1>1, GetIs DEF FetchOK
<1>7. stored[u][n] \in Seq(Seq(Cell)) /\ stored[u][n] # <<>>
  <2>1. stored[u][n] \in Seq(Seq(Cell)) /\ \E j \in 1..Len(stored[u][n]) : TRUE
    BY <1>0, <1>1, <1>6 DEF SystemTypes, Listable
  <2>2. QED
    BY <2>1
<1>8. PICK s, l : s = stored[u][n] /\ l = Len(stored[u][n])
  OBVIOUS
<1>9. l \in 1..Len(s) /\ s[l] \in Seq(Cell) /\ OnDisk(u, n) = s[l]
  BY <1>7, <1>8 DEF OnDisk
<1>10. Kind(k)' = "GET"
  BY <1>5 DEF Kind
<1>11. <<>> \o Pending(k)' = s[l]
  <2>1. \A t \in Seq(Cell) : <<>> \o t = t
    OBVIOUS
  <2>2. Pending(k)' = <<>> \o (<<>> \o s[l])
    BY <1>5, <1>9 DEF Pending
  <2>3. QED
    BY <1>9, <2>1, <2>2
<1>12. stored'[u][n] = s
  BY <1>0, <1>8
<1>13. IsContent(<<>> \o Pending(k), u, n)'
  BY <1>8, <1>9, <1>11, <1>12 DEF IsContent
<1>14. /\ client'[c].data = k /\ client'[c].user = u /\ Head(client'[c].diffFiles) = m
       /\ client'[c].buf = <<>> /\ Len(<<>>) <= m.size
  BY <1>0, <1>1, <1>3 DEF GetOK
<1>15. QED
  BY <1>1, <1>10, <1>13, <1>14 DEF GetOK

\* Whatever the server does, the connection of a fetching client brings what it
\* is to bring.
LEMMA ServerGet ==
  ASSUME BoxInv, IInv', Server, UNCHANGED clientVars, NEW c \in Clients, At(c, "get")
  PROVE  GetOK(c)'
<1>0. /\ FilesInv /\ ProtoInv /\ SystemTypes /\ StreamInv /\ IInv /\ client' = client
      /\ ~At(c, "off") /\ FetchOK(c) /\ GetOK(c) /\ StoredStays
  BY GetIs, ServerStays DEF BoxInv, FilesInv, ProtoInv, GetInv, FetchOK, clientVars
<1>1. PICK k, l : k = client[c].data /\ l = link
  OBVIOUS
<1>2. /\ k \in Conns /\ conn[k].client /\ client[c].user \in Users
      /\ Head(client[c].diffFiles).name \in Names
  BY <1>0, <1>1, GetIs
<1>3. Kind(k) \in {"NONE", "GET", "gone"}
  BY <1>0, <1>1 DEF GetOK
<1>4. SUFFICES ASSUME ~(Get /\ k = l)
               PROVE  /\ Kind(k) = "NONE" => Kind(k)' = "NONE" /\ Stream(k)' = Stream(k)
                      /\ Kind(k) # "NONE" => /\ Kind(k)' \in {"GET", "gone"}
                                             /\ Pending(k)' = Pending(k)
  BY <1>0, <1>1, <1>2, GetGets, GetStays
<1>5. ASSUME conn'[k] = conn[k], Ent(k)' = Ent(k)
      PROVE  Kind(k)' = Kind(k) /\ Stream(k)' = Stream(k) /\ Pending(k)' = Pending(k)
  BY <1>5 DEF Kind, Stream, Pending
<1>6. CASE QuietServer
  <2>1. Quiet(k)
    BY <1>0, <1>2, <1>6, ServerQuiet
  <2>2. QED
    BY <1>2, <1>3, <2>1 DEF Quiet, Kept
<1>7. CASE Login \/ Get \/ Put
  <2>1. CASE k = l
    <3>1. /\ Kind(k) = "NONE" /\ Header = Stream(k)[2]
          /\ Header.t \in {"LOGIN", "PUT"}
      BY <1>0, <1>1, <1>4, <1>7, <2>1, HeaderView DEF Login, Put
    <3>2. Stream(k)[2].t = "GET"
      BY <1>0, <1>1, <3>1 DEF GetOK, GetHeader
    <3>3. QED
      BY <3>1, <3>2
  <2>2. CASE k # l
    <3>1. conn'[k] = conn[k] /\ Ent(k)' = Ent(k)
      BY <1>0, <1>1, <1>2, <1>7, <2>2, LoginView, GetView, PutView
    <3>2. QED
      BY <1>3, <1>5, <3>1
  <2>3. QED
    BY <2>1, <2>2
<1>8. CASE HangUp
  <2>1. ~conn[l].client /\ \A m \in Conns \ {l} : conn'[m] = conn[m] /\ Ent(m)' = Ent(m)
    BY <1>0, <1>1, <1>8, HangUpView
  <2>2. QED
    BY <1>2, <1>3, <1>5, <2>1
<1>9. CASE EndGet
  <2>1. /\ l \in Conns /\ conn[l].server = "open" /\ Kind(l) = "GET" /\ Ent(l).wbuf = <<>>
        /\ Kind(l)' = "gone" /\ Ent(l)' = NoEntry /\ conn'[l] = ServerClosed(conn[l])
        /\ \A m \in Conns \ {l} : conn'[m] = conn[m] /\ Ent(m)' = Ent(m)
    BY <1>0, <1>1, <1>9, EndGetView
  <2>2. CASE k = l
    <3>1. DOMAIN conn[k] = ConnFields
      BY <1>0, <1>2 DEF IInv, NetInv
    <3>2. ServerClosed(conn[k]).down = conn[k].down
      BY <1>2, <3>1 DEF ServerClosed, ConnFields
    <3>3. Pending(k)' = Pending(k)
      <4>1. conn'[k].down = conn[k].down
        BY <2>1, <2>2, <3>2
      <4>2. NoEntry.wbuf = <<>>
        BY DEF NoEntry
      <4>3. Ent(k)'.wbuf = <<>> /\ Ent(k).wbuf = <<>>
        BY <2>1, <2>2, <4>2
      <4>4. QED
        BY <4>1, <4>3 DEF Pending
    <3>4. QED
      BY <2>1, <2>2, <3>3
  <2>3. CASE k # l
    BY <1>2, <1>3, <1>5, <2>1, <2>3
  <2>4. QED
    BY <2>2, <2>3
<1>10. CASE StoreFile
  <2>1. /\ Kind(l) = "PUT"
        /\ \A m \in Conns \ {l} :
             /\ conn'[m] = conn[m]
             /\ Ent(m)' = IF IsTold(Ent(m), Ent(l).name) THEN Listed(Ent(m), files') ELSE Ent(m)
    BY <1>0, <1>1, <1>10, StoreView
  <2>2. k # l
    BY <1>3, <2>1
  <2>3. Ent(k).type # "CMD"
    <3>1. CASE conn[k].server = "open"
      BY <1>3, <3>1 DEF Kind
    <3>2. CASE conn[k].server # "open"
      BY <3>2 DEF Ent, NoEntry
    <3>3. QED
      BY <3>1, <3>2
  <2>4. Ent(k)' = Ent(k) /\ conn'[k] = conn[k]
    BY <1>2, <2>1, <2>2, <2>3 DEF IsTold
  <2>5. QED
    BY <1>3, <1>5, <2>4
<1>11. QED
  BY <1>6, <1>7, <1>8, <1>9, <1>10 DEF Server, QuietServer

\* What is stored and what is fetched stay right whatever the server does.
LEMMA ServerBox ==
  ASSUME BoxInv, ProtoInv', Server, UNCHANGED clientVars
  PROVE  StoreInv' /\ GetInv'
<1>0. /\ FilesInv /\ StoreInv /\ GetInv /\ ProtoInv /\ SystemTypes /\ IInv' /\ UNCHANGED <<client, uploads>>
  BY DEF BoxInv, FilesInv, ProtoInv, clientVars
<1>1. StoreInv'
  <2>1. CASE StoreFile
    BY <1>0, <2>1, StoreStore
  <2>2. CASE ~StoreFile
    <3>1. UNCHANGED <<files, stored, uploads>>
      BY <1>0, <2>2, OthersStore
    <3>2. QED
      BY <1>0, <3>1 DEF StoreInv, Listable
  <2>3. QED
    BY <2>1, <2>2
<1>2. StoredStays
  BY <1>0, ServerStays
<1>3. ASSUME NEW c \in Clients, ~At(c, "off") PROVE FetchOK(c)'
  <2>1. FetchOK(c) /\ client'[c] = client[c]
    BY <1>0, <1>3 DEF GetInv
  <2>2. At(c, "get") => GetOK(c)'
    BY <1>0, ServerGet
  <2>3. QED
    BY <1>0, <1>2, <1>3, <2>1, <2>2, FetchStays
<1>4. GetInv'
  BY <1>0, <1>3 DEF GetInv, At
<1>5. QED
  BY <1>1, <1>4

-----------------------------------------------------------------------------
(* What is fetched: the clients                                            *)

\* A client changes its own connections and free ones only, and no entry.
LEMMA ClientView ==
  ASSUME ProtoInv, IInv', UNCHANGED serverVars, NEW c \in Clients, Client(c)
  PROVE  /\ \A d \in Clients \ {c} : client'[d] = client[d]
         /\ \A m \in Conns : conn'[m] = conn[m] \/ Owned(c, m)
         /\ \A m \in Conns : Ent(m)' = Ent(m)
<1>0. SystemTypes /\ IInv /\ DOMAIN conn = Conns /\ \A m \in Conns : DOMAIN conn[m] = ConnFields
  BY DEF ProtoInv, IInv, NetInv
<1>1. \E x : client' = [client EXCEPT ![c] = x]
  BY ZenonT(60) DEF Client, Program, User, ReadList, ReadCount, ReadMeta, Fetch, ReadData, FinishGet,
         WriteData, FinishPut, Start, Upload, Stop
<1>2. \A d \in Clients \ {c} : client'[d] = client[d]
  BY <1>0, <1>1 DEF SystemTypes
<1>3. SUFFICES /\ \A m \in Conns : conn'[m] = conn[m] \/ Owned(c, m)
               /\ \A m \in Conns : conn'[m].server = "open" <=> conn[m].server = "open"
  BY <1>0, <1>2, ClientsView
<1>4. \A m \in Conns : (ClientClosed(conn[m]).server = "open" <=> conn[m].server = "open")
  BY <1>0 DEF ClientClosed, NoConn, ConnFields
<1>5. ASSUME NEW x, \/ conn' = [conn EXCEPT ![x].down = Tail(@)]
                    \/ \E n : conn' = [conn EXCEPT ![x].down = Without(@, n)]
                    \/ \E s : conn' = [conn EXCEPT ![x].up = @ \o s]
                    \/ conn' = [conn EXCEPT ![x] = ClientClosed(@)],
             ~At(c, "off"), x \in {client[c].cmd, client[c].data}
      PROVE  /\ \A m \in Conns : conn'[m] = conn[m] \/ Owned(c, m)
             /\ \A m \in Conns : conn'[m].server = "open" <=> conn[m].server = "open"
  <2>1. \A m \in Conns \ {x} : conn'[m] = conn[m]
    BY <1>0, <1>5
  <2>2. Owned(c, x)
    BY <1>5 DEF Owned
  <2>3. x \in Conns => (conn'[x].server = "open" <=> conn[x].server = "open")
    BY <1>0, <1>4, <1>5 DEF ConnFields
  <2>4. QED
    BY <2>1, <2>2, <2>3
<1>6. CASE ReadList(c) \/ ReadCount(c) \/ ReadMeta(c)
  <2>1. ~At(c, "off") /\ ReadCmd(c)
    BY <1>6 DEF ReadList, ReadCount, ReadMeta, At
  <2>2. conn' = [conn EXCEPT ![client[c].cmd].down = Tail(@)]
    BY <2>1 DEF ReadCmd
  <2>3. QED
    BY <1>5, <2>1, <2>2
<1>7. CASE ReadData(c) \/ WriteData(c) \/ FinishGet(c) \/ FinishPut(c)
  <2>1. ~At(c, "off")
    BY <1>7 DEF ReadData, WriteData, FinishGet, FinishPut, At
  <2>2. \/ \E n : conn' = [conn EXCEPT ![client[c].data].down = Without(@, n)]
        \/ \E s : conn' = [conn EXCEPT ![client[c].data].up = @ \o s]
        \/ conn' = [conn EXCEPT ![client[c].data] = ClientClosed(@)]
    BY <1>7 DEF ReadData, WriteData, FinishGet, FinishPut
  <2>3. QED
    BY <1>5, <2>1, <2>2
<1>8. CASE Fetch(c) \/ (\E u \in Users : Start(c, u)) \/ (\E n \in Names, len \in Sizes : Upload(c, n, len))
  <2>1. PICK k, h : k \in Conns /\ Connect(k, h)
    BY <1>8 DEF Fetch, Start, Upload
  <2>2. /\ conn[k].server = "none" /\ conn'[k].server = "backlog"
        /\ \A m \in Conns \ {k} : conn'[m] = conn[m]
    BY <1>0, <2>1, OpenView
  <2>3. QED
    BY <2>2 DEF Owned
<1>9. CASE Stop(c)
  <2>1. ~At(c, "off") /\ \A m \in Conns : conn'[m] = IF m \in {client[c].cmd, client[c].data}
                                                       THEN ClientClosed(conn[m]) ELSE conn[m]
    BY <1>9 DEF Stop
  <2>2. QED
    BY <1>4, <2>1 DEF Owned
<1>10. QED
  BY <1>6, <1>7, <1>8, <1>9 DEF Client, Program, User

\* What a client does leaves what the others fetch alone.
LEMMA OthersFetch ==
  ASSUME BoxInv, IInv', UNCHANGED serverVars, NEW c \in Clients, Client(c),
         NEW d \in Clients \ {c}, ~At(d, "off")
  PROVE  FetchOK(d)'
<1>0. ProtoInv /\ SystemTypes /\ RoleInv /\ FetchOK(d) /\ stored' = stored
  BY DEF BoxInv, FilesInv, ProtoInv, GetInv, serverVars
<1>1. client'[d] = client[d] /\ StoredStays
  BY <1>0, ClientView DEF StoredStays
<1>2. ASSUME At(d, "get") PROVE GetOK(d)'
  <2>1. PICK k : k = client[d].data
    OBVIOUS
  <2>2. k \in Conns /\ client[d].data # 0 /\ GetOK(d)
    BY <1>0, <1>2, <2>1, GetIs DEF FetchOK, Conns
  <2>3. ~Owned(c, k)
    BY <1>0, <2>1, <2>2, OthersKeep
  <2>4. conn'[k] = conn[k] /\ Ent(k)' = Ent(k)
    BY <1>0, <2>2, <2>3, ClientView
  <2>5. Kind(k)' = Kind(k) /\ Stream(k)' = Stream(k) /\ Pending(k)' = Pending(k)
    BY <2>4 DEF Kind, Stream, Pending
  <2>6. Kind(k) # "NONE" => Kind(k)' \in {"GET", "gone"}
    BY <2>1, <2>2, <2>5 DEF GetOK
  <2>7. QED
    BY <1>0, <1>1, <1>2, <2>1, <2>2, <2>5, <2>6, GetIs, GetStays
<1>3. QED
  BY <1>0, <1>1, <1>2, FetchStays

\* A client that is not fetching has nothing in its buffer but what it uploads.
LEMMA OwnFetch ==
  ASSUME NEW c \in Clients, stored' = stored, NEW r, client'[c] = r, r.pc # "get",
         r.pc # "put" => r.buf = <<>>,
         \A j \in 1..Len(r.diffFiles) : Listable(r.user, r.diffFiles[j])
  PROVE  FetchOK(c)'
<1>1. \A j \in 1..Len(r.diffFiles) : Listable(r.user, r.diffFiles[j])'
  BY DEF Listable
<1>2. QED
  BY <1>1 DEF FetchOK, At

\* The next file of a list is one of its user's files.
LEMMA NextListed ==
  ASSUME BoxInv, NEW c \in Clients, At(c, "metas"), CmdDown(c) # <<>>
  PROVE  Listable(client[c].user, Head(CmdDown(c)).meta)
<1> DEFINE s  == Pending(client[c].cmd)
           fs == files[client[c].user]
<1>0. ProtoInv /\ StoreInv /\ ~At(c, "off")
  BY DEF BoxInv, FilesInv, At
<1>1. /\ s \in Seq(Cell) /\ fs \in Seq(Meta) /\ ListOK(c) /\ RoleOK(c) /\ client[c] \in Online
      /\ Head(CmdDown(c)) = s[1] /\ s # <<>>
  BY <1>0, NextCell
<1>2. PICK left : left = client[c].tCount
  OBVIOUS
<1>3. left \in Nat \ {0} /\ ListState("metas", left, s, fs)
  BY <1>1, <1>2 DEF RoleOK, ListOK, At, Online
<1>4. client[c].user \in Users /\ \A j \in 1..Len(fs) : Listable(client[c].user, fs[j])
  BY <1>0, <1>1 DEF StoreInv, Online
<1> HIDE DEF s, fs
<1>5. s[1].t = "meta" /\ \E from \in 1..(Len(fs) - left + 1) : IsRunOfLists(s, fs, from)
  BY <1>3 DEF ListState
<1>6. PICK from \in 1..(Len(fs) - left + 1) : IsRunOfLists(s, fs, from)
  BY <1>5
<1>7. 1 \in 1..Len(s) /\ Len(fs) \in Nat /\ from \in Nat \ {0} /\ from + 1 - 1 = from
  BY <1>1, <1>3
<1>8. HeaderAt(s, 1) \/ CountAt(s, fs, 1) \/ ItemAt(s, 1) \/ RestAt(s, fs, from, 1)
  BY <1>6, <1>7, RunParts
<1>9. from <= Len(fs) /\ s[1] = Item(fs[from])
  <2>1. ~HeaderAt(s, 1) /\ ~CountAt(s, fs, 1)
    BY <1>5 DEF HeaderAt, CountAt, ListHeader
  <2>2. ~ItemAt(s, 1)
    BY DEF ItemAt
  <2>3. RestAt(s, fs, from, 1)
    BY <1>8, <2>1, <2>2
  <2>4. QED
    BY <1>7, <2>3 DEF RestAt
<1>10. from \in 1..Len(fs) /\ s[1].meta = fs[from]
  BY <1>7, <1>9 DEF Item
<1>11. QED
  BY <1>1, <1>4, <1>10

\* After a step of a list or of a download a client has still what it was to fetch.
LEMMA ResumeFetch ==
  ASSUME NEW c \in Clients, stored' = stored, NEW r, client'[c] = Resume(r),
         {"pc", "user", "diffFiles", "buf"} \subseteq DOMAIN r, r.buf = <<>>,
         \A j \in 1..Len(r.diffFiles) : Listable(r.user, r.diffFiles[j])
  PROVE  FetchOK(c)'
<1>1. PICK q : q = Resume(r)
  OBVIOUS
<1>2. q.buf = <<>> /\ q.diffFiles = r.diffFiles /\ q.user = r.user /\ q.pc \in {"metas", "sync", "idle"}
  BY <1>1 DEF Resume
<1>3. q.pc # "get" /\ q.buf = <<>>
  BY <1>2
<1>4. \A j \in 1..Len(q.diffFiles) : Listable(q.user, q.diffFiles[j])
  BY <1>2
<1>5. client'[c] = q
  BY <1>1
<1>6. QED
  BY <1>3, <1>4, <1>5, OwnFetch

\* The steps that read a list.
LEMMA ReadsFetch ==
  ASSUME BoxInv, UNCHANGED serverVars, NEW c \in Clients, ReadList(c) \/ ReadCount(c) \/ ReadMeta(c)
  PROVE  FetchOK(c)'
<1>1. /\ SystemTypes /\ stored' = stored /\ ~At(c, "off") /\ ~At(c, "get") /\ ~At(c, "put")
      /\ CmdDown(c) # <<>>
  BY DEF BoxInv, FilesInv, ProtoInv, serverVars, ReadList, ReadCount, ReadMeta, At
<1>2. FetchOK(c) /\ client[c] \in Online /\ DOMAIN client = Clients
  BY <1>1, ClientTypes DEF BoxInv, GetInv, SystemTypes
<1>3. /\ client[c].buf = <<>> /\ {"pc", "user", "diffFiles", "buf", "tCount"} \subseteq DOMAIN client[c]
      /\ \A j \in 1..Len(client[c].diffFiles) : Listable(client[c].user, client[c].diffFiles[j])
      /\ client[c].diffFiles \in Seq(Meta)
  BY <1>1, <1>2 DEF FetchOK, Online
<1>4. CASE ReadList(c)
  <2>1. PICK q : q = [client[c] EXCEPT !.pc = "count"]
    OBVIOUS
  <2>2. /\ q.pc = "count" /\ q.buf = <<>> /\ q.diffFiles = client[c].diffFiles
        /\ q.user = client[c].user
    BY <1>3, <2>1
  <2>3. client'[c] = q
    BY <1>2, <1>4, <2>1 DEF ReadList
  <2>4. q.pc # "get" /\ \A j \in 1..Len(q.diffFiles) : Listable(q.user, q.diffFiles[j])
    BY <1>3, <2>2
  <2>5. QED
    BY <1>1, <2>2, <2>3, <2>4, OwnFetch
<1>5. CASE ReadCount(c)
  <2>1. PICK r : r = [client[c] EXCEPT !.tCount = Head(CmdDown(c)).n]
    OBVIOUS
  <2>2. /\ r.buf = <<>> /\ r.diffFiles = client[c].diffFiles /\ r.user = client[c].user
        /\ DOMAIN r = DOMAIN client[c]
    BY <1>3, <2>1
  <2>3. client'[c] = Resume(r)
    BY <1>2, <1>5, <2>1 DEF ReadCount
  <2>4. QED
    BY <1>1, <1>3, <2>2, <2>3, ResumeFetch
<1>6. CASE ReadMeta(c)
  <2>1. PICK m : m = Head(CmdDown(c)).meta
    OBVIOUS
  <2>2. PICK more : more = IF IsNew(c, m) THEN Append(client[c].diffFiles, m) ELSE client[c].diffFiles
    OBVIOUS
  <2>3. PICK r : r = [client[c] EXCEPT !.tCount = client[c].tCount - 1, !.diffFiles = more]
    OBVIOUS
  <2>4. /\ r.buf = <<>> /\ r.diffFiles = more /\ r.user = client[c].user
        /\ DOMAIN r = DOMAIN client[c]
    BY <1>3, <2>3
  <2>5. client'[c] = Resume(r)
    BY <1>2, <1>6, <2>1, <2>2, <2>3 DEF ReadMeta
  <2>6. Listable(client[c].user, m)
    BY <1>1, <1>6, <2>1, NextListed DEF ReadMeta
  <2>7. \A j \in 1..Len(more) : Listable(client[c].user, more[j])
    <3>1. CASE more = client[c].diffFiles
      BY <1>3, <3>1
    <3>2. CASE more = Append(client[c].diffFiles, m)
      <4>1. ASSUME NEW j \in 1..Len(more)
            PROVE  more[j] = m \/ (j \in 1..Len(client[c].diffFiles) /\ more[j] = client[c].diffFiles[j])
        BY <1>3, <3>2
      <4>2. QED
        BY <1>3, <2>6, <4>1
    <3>3. QED
      BY <2>2, <3>1, <3>2
  <2>8. \A j \in 1..Len(r.diffFiles) : Listable(r.user, r.diffFiles[j])
    BY <2>4, <2>7
  <2>9. QED
    BY <1>1, <1>3, <2>4, <2>5, <2>8, ResumeFetch
<1>7. QED
  BY <1>4, <1>5, <1>6

\* A request for the next file that is missing.
LEMMA FetchFetch ==
  ASSUME BoxInv, IInv', UNCHANGED serverVars, NEW c \in Clients, Fetch(c)
  PROVE  FetchOK(c)'
<1>1. /\ SystemTypes /\ IInv /\ stored' = stored /\ ~At(c, "off") /\ At(c, "sync")
  BY DEF BoxInv, FilesInv, ProtoInv, serverVars, Fetch, At
<1>2. FetchOK(c) /\ client[c] \in Online /\ DOMAIN client = Clients
  BY <1>1, ClientTypes DEF BoxInv, GetInv, SystemTypes
<1>3. PICK u, s : u = client[c].user /\ s = client[c].diffFiles
  OBVIOUS
<1>4. PICK m, h : m = Head(s) /\ h = GetHeader(u, m)
  OBVIOUS
<1>5. PICK k \in Conns : /\ Connect(k, h)
                         /\ client' = [client EXCEPT ![c] = [client[c] EXCEPT !.pc = "get", !.data = k]]
  BY <1>3, <1>4 DEF Fetch
<1>6. client[c].buf = <<>> /\ \A j \in 1..Len(s) : Listable(u, s[j])
  BY <1>1, <1>2, <1>3 DEF FetchOK, At
<1>7. /\ client'[c].pc = "get" /\ client'[c].data = k /\ client'[c].user = u
      /\ client'[c].diffFiles = s /\ client'[c].buf = <<>>
  BY <1>2, <1>3, <1>5, <1>6 DEF Online
<1>8. Kind(k)' = "NONE" /\ Stream(k)' = Request(h)
  BY <1>1, <1>5, OpenView
<1>9. Request(h)[2] = h
  BY RequestIs
<1>10. GetOK(c)'
  <2>1. client[c].diffFiles # <<>> /\ s \in Seq(Meta)
    <3>1. RoleOK(c)
      BY DEF BoxInv, FilesInv, ProtoInv, RoleInv
    <3>2. QED
      BY <1>1, <1>2, <1>3, <3>1 DEF RoleOK, Online
  <2>2. m = s[1] /\ 1 \in 1..Len(s)
    BY <1>3, <1>4, <2>1
  <2>3. m.size > 0 /\ m.size \in Nat
    BY <1>6, <2>2 DEF Listable, Meta
  <2>4. Len(<<>>) <= m.size
    BY <2>3
  <2>5. QED
    BY <1>3, <1>4, <1>7, <1>8, <1>9, <2>4 DEF GetOK
<1>11. \A j \in 1..Len(s) : Listable(u, s[j])'
  BY <1>1, <1>6 DEF Listable
<1>12. QED
  BY <1>7, <1>10, <1>11 DEF FetchOK, At

\* What is read of a file moves to the client's buffer.
LEMMA ReadDataFetch ==
  ASSUME BoxInv, IInv', UNCHANGED serverVars, NEW c \in Clients, ReadData(c)
  PROVE  FetchOK(c)'
<1>1. /\ ProtoInv /\ SystemTypes /\ IInv /\ StreamInv /\ stored' = stored /\ At(c, "get") /\ Client(c)
      /\ DOMAIN client = Clients /\ DOMAIN conn = Conns
  BY DEF BoxInv, FilesInv, ProtoInv, IInv, NetInv, serverVars, ReadData, Client, Program, SystemTypes
<1>2. FetchOK(c) /\ GetOK(c) /\ client[c] \in Online /\ ~At(c, "off")
  BY <1>1, GetIs DEF BoxInv, GetInv, FetchOK
<1>3. PICK x, u, s, b : /\ x = client[c].data /\ u = client[c].user /\ s = client[c].diffFiles
                        /\ b = client[c].buf
  OBVIOUS
<1>4. PICK m, n, d, w : m = Head(s) /\ n = Received(c) /\ d = conn[x].down /\ w = Ent(x).wbuf
  OBVIOUS
<1>5. /\ x \in Conns /\ b \in Seq(Cell) /\ d \in Seq(Cell) /\ w \in Seq(Cell)
      /\ m \in Meta /\ DOMAIN conn[x] = ConnFields
  BY <1>1, <1>3, <1>4, GetIs, Types DEF IInv, NetInv
<1>6. n \in 0..Len(d) /\ n > 0 /\ Len(b) + n <= m.size
  <2>1. n > 0 /\ n = Smaller(m.size - Len(b), Len(d))
    BY <1>3, <1>4 DEF ReadData, Received, DataDown
  <2>2. m.size \in Nat /\ Len(b) \in Nat /\ Len(d) \in Nat
    BY <1>5 DEF Meta
  <2>3. QED
    BY <2>1, <2>2 DEF Smaller
<1>7. MovedOK(b, d, n)
  BY <1>5, <1>6, Moved
<1>8. PICK f, r : f = First(d, n) /\ r = Without(d, n)
  OBVIOUS
<1>9. /\ f \in Seq(Cell) /\ r \in Seq(Cell) /\ b \o f \in Seq(Cell) /\ (b \o f) \o r = b \o d
  BY <1>7, <1>8 DEF MovedOK
<1>10. conn'[x].down = r /\ conn'[x].server = conn[x].server /\ conn'[x].up = conn[x].up
  BY <1>1, <1>3, <1>4, <1>5, <1>8 DEF ReadData, ConnFields
<1>11. client' = [client EXCEPT ![c] = [client[c] EXCEPT !.buf = b \o f]]
  BY <1>3, <1>4, <1>8 DEF ReadData, Data, DataDown
<1>12. /\ client'[c].pc = "get" /\ client'[c].data = x /\ client'[c].user = u
       /\ client'[c].diffFiles = s /\ client'[c].buf = b \o f
  BY <1>1, <1>2, <1>3, <1>11 DEF Online, At
<1>13. Ent(x)' = Ent(x)
  BY <1>1, <1>5, ClientView
<1>14. Kind(x)' = Kind(x) /\ Pending(x)' = r \o w
  BY <1>4, <1>10, <1>13 DEF Kind, Pending
<1>15. Kind(x) # "NONE"
  <2>1. Kind(x) = "NONE" => d = <<>>
    BY <1>1, <1>4, <1>5 DEF StreamInv, StreamOK
  <2>2. d # <<>>
    BY <1>5, <1>6
  <2>3. QED
    BY <2>1, <2>2
<1>16. Kind(x) \in {"GET", "gone"} /\ IsContent(b \o (d \o w), u, m.name)
  BY <1>2, <1>3, <1>4, <1>15 DEF GetOK, Pending
<1>17. b \o (d \o w) = (b \o f) \o (r \o w)
  <2>1. \A p, q, t \in Seq(Cell) : (p \o q) \o t = p \o (q \o t)
    BY ConcatAssociative
  <2>2. b \o (d \o w) = (b \o d) \o w
    BY <1>5, <2>1
  <2>3. (b \o f) \o (r \o w) = ((b \o f) \o r) \o w
    BY <1>5, <1>9, <2>1, ZenonT(60)
  <2>4. QED
    BY <1>9, <2>2, <2>3
<1>18. PICK y : y = (b \o f) \o (r \o w)
  OBVIOUS
<1>19. IsContent(y, u, m.name)'
  BY <1>1, <1>16, <1>17, <1>18 DEF IsContent
<1>20. GetOK(c)'
  <2>1. IsContent(client[c].buf \o Pending(x), u, m.name)'
    BY <1>12, <1>14, <1>18, <1>19 DEF IsContent
  <2>2. Len(b \o f) <= m.size
    BY <1>6, <1>7, <1>8 DEF MovedOK
  <2>3. QED
    BY <1>3, <1>4, <1>12, <1>14, <1>16, <2>1, <2>2 DEF GetOK
<1>21. \A j \in 1..Len(s) : Listable(u, s[j])'
  BY <1>1, <1>2, <1>3 DEF FetchOK, Listable
<1>22. QED
  BY <1>12, <1>20, <1>21 DEF FetchOK, At

\* A file is fetched.
LEMMA FinishFetch ==
  ASSUME BoxInv, UNCHANGED serverVars, NEW c \in Clients, FinishGet(c)
  PROVE  FetchOK(c)'
<1>1. ProtoInv /\ stored' = stored /\ At(c, "get") /\ DOMAIN client = Clients
  BY DEF BoxInv, FilesInv, ProtoInv, SystemTypes, serverVars, FinishGet
<1>2. FetchOK(c) /\ client[c] \in Online
  BY <1>1, GetIs DEF BoxInv, GetInv
<1>3. PICK s, u, more : /\ s = client[c].diffFiles /\ u = client[c].user
                        /\ more = client[c].localFiles \cup {Head(client[c].diffFiles).name}
  OBVIOUS
<1>4. s \in Seq(Meta) /\ s # <<>> /\ \A j \in 1..Len(s) : Listable(u, s[j])
  BY <1>1, <1>2, <1>3, GetIs DEF FetchOK
<1>5. PICK t : t = Tail(s)
  OBVIOUS
<1>6. \A j \in 1..Len(t) : Listable(u, t[j])
  <2>1. ASSUME NEW j \in 1..Len(t) PROVE j + 1 \in 1..Len(s) /\ t[j] = s[j + 1]
    BY <1>4, <1>5
  <2>2. QED
    BY <1>4, <2>1
<1>7. PICK r : r = [client[c] EXCEPT !.localFiles = more, !.diffFiles = t, !.buf = <<>>, !.data = 0]
  OBVIOUS
<1>8. /\ {"pc", "user", "diffFiles", "buf"} \subseteq DOMAIN r
      /\ r.buf = <<>> /\ r.diffFiles = t /\ r.user = u
  BY <1>2, <1>3, <1>7 DEF Online
<1>9. client'[c] = Resume(r)
  BY <1>1, <1>3, <1>5, <1>7 DEF FinishGet
<1>10. \A j \in 1..Len(r.diffFiles) : Listable(r.user, r.diffFiles[j])
  BY <1>6, <1>8
<1>11. QED
  BY <1>1, <1>8, <1>9, <1>10, ResumeFetch

\* Starting, and what a client does to upload a file.
LEMMA UploadsFetch ==
  ASSUME BoxInv, UNCHANGED serverVars, NEW c \in Clients,
         \/ \E u \in Users : Start(c, u)
         \/ \E n \in Names, len \in Sizes : Upload(c, n, len)
         \/ WriteData(c) \/ FinishPut(c)
  PROVE  FetchOK(c)'
<1>1. SystemTypes /\ stored' = stored /\ DOMAIN client = Clients
  BY DEF BoxInv, FilesInv, ProtoInv, SystemTypes, serverVars
<1>2. SUFFICES \E r : /\ client'[c] = r /\ r.pc # "get" /\ (r.pc # "put" => r.buf = <<>>)
                      /\ \A j \in 1..Len(r.diffFiles) : Listable(r.user, r.diffFiles[j])
  BY <1>1, OwnFetch
<1>3. CASE \E u \in Users : Start(c, u)
  <2>1. PICK u \in Users : Start(c, u)
    BY <1>3
  <2>2. PICK k \in Conns :
          client' = [client EXCEPT ![c] =
                       [pc |-> "login", user |-> u, cmd |-> k, data |-> 0,
                        localFiles |-> {}, diffFiles |-> <<>>, tCount |-> 0,
                        buf |-> <<>>, upload |-> 0]]
    BY <2>1 DEF Start
  <2>3. client'[c].pc = "login" /\ client'[c].buf = <<>> /\ client'[c].diffFiles = <<>>
    BY <1>1, <2>2
  <2>4. \A j \in 1..Len(<<>>) : FALSE
    OBVIOUS
  <2>5. QED
    BY <2>3, <2>4
<1>4. CASE ~(\E u \in Users : Start(c, u))
  <2>1. ~At(c, "off") /\ ~At(c, "get")
    BY <1>4 DEF Upload, TakesCommands, WriteData, FinishPut, At
  <2>2. client[c] \in Online /\ \A j \in 1..Len(client[c].diffFiles) : Listable(client[c].user, client[c].diffFiles[j])
    BY <1>1, <2>1, ClientTypes DEF BoxInv, GetInv, FetchOK
  <2>3. CASE \E n \in Names, len \in Sizes : Upload(c, n, len)
    <3>1. PICK n \in Names, len \in Sizes : Upload(c, n, len)
      BY <2>3
    <3>2. PICK k, b, v : client' = [client EXCEPT ![c].pc = "put", ![c].data = k,
                                                  ![c].buf = b, ![c].upload = v]
      BY <3>1 DEF Upload
    <3>3. /\ client'[c].pc = "put" /\ client'[c].diffFiles = client[c].diffFiles
          /\ client'[c].user = client[c].user
      BY <1>1, <2>2, <3>2 DEF Online
    <3>4. QED
      BY <2>2, <3>3
  <2>4. CASE WriteData(c)
    <3>1. PICK b : client' = [client EXCEPT ![c].buf = b]
      BY <2>4 DEF WriteData
    <3>2. At(c, "put")
      BY <2>4 DEF WriteData
    <3>3. /\ client'[c].pc = "put" /\ client'[c].diffFiles = client[c].diffFiles
          /\ client'[c].user = client[c].user
      BY <1>1, <2>2, <3>1, <3>2 DEF Online, At
    <3>4. QED
      BY <2>2, <3>3
  <2>5. CASE FinishPut(c)
    <3>1. PICK more : client' = [client EXCEPT ![c].pc = "idle", ![c].data = 0, ![c].upload = 0,
                                               ![c].localFiles = more]
      BY <2>5 DEF FinishPut
    <3>2. client[c].buf = <<>>
      BY <2>5 DEF FinishPut
    <3>3. /\ client'[c].pc = "idle" /\ client'[c].diffFiles = client[c].diffFiles
          /\ client'[c].user = client[c].user /\ client'[c].buf = <<>>
      BY <1>1, <2>2, <3>1, <3>2 DEF Online
    <3>4. QED
      BY <2>2, <3>3
  <2>6. QED
    BY <1>4, <2>3, <2>4, <2>5
<1>5. QED
  BY <1>3, <1>4

\* What is stored and what is fetched stay right whatever a client does.
LEMMA ClientBox ==
  ASSUME BoxInv, ProtoInv', UNCHANGED serverVars, NEW c \in Clients, Client(c)
  PROVE  StoreInv' /\ GetInv'
<1>0. ProtoInv /\ SystemTypes /\ IInv' /\ StoreInv /\ UNCHANGED <<files, stored>>
  BY DEF BoxInv, FilesInv, ProtoInv, serverVars
<1>1. \A v \in 1..Len(uploads') : uploads'[v].size \in Sizes
  <2>1. CASE \E n \in Names, len \in Sizes : Upload(c, n, len)
    <3>1. PICK n \in Names, len \in Sizes : Upload(c, n, len)
      BY <2>1
    <3>2. PICK x : x = [user |-> client[c].user, name |-> n, size |-> len]
      OBVIOUS
    <3>3. uploads' = Append(uploads, x) /\ x.size \in Sizes
      BY <3>1, <3>2 DEF Upload
    <3>4. PICK s : s = uploads
      OBVIOUS
    <3>5. uploads' = Append(s, x) /\ \A v \in 1..Len(s) : s[v].size \in Sizes
      BY <1>0, <3>3, <3>4 DEF StoreInv
    <3> DEFINE Up == [user : Users, name : Names, size : Nat]
    <3>6. s \in Seq(Up)
      BY <1>0, <3>4 DEF SystemTypes
    <3> HIDE DEF Up
    <3>7. ASSUME NEW v \in 1..Len(Append(s, x))
          PROVE  Append(s, x)[v] = x \/ (v \in 1..Len(s) /\ Append(s, x)[v] = s[v])
      BY <3>6
    <3>8. QED
      BY <3>3, <3>5, <3>7
  <2>2. CASE ~(\E n \in Names, len \in Sizes : Upload(c, n, len))
    <3>1. uploads' = uploads
      BY <2>2 DEF Client, Program, User, ReadList, ReadCount, ReadMeta, Fetch, ReadData,
                  FinishGet, WriteData, FinishPut, Start, Stop
    <3>2. QED
      BY <1>0, <3>1 DEF StoreInv
  <2>3. QED
    BY <2>1, <2>2
<1>2. StoreInv'
  <2>1. ASSUME NEW u \in Users, NEW j \in 1..Len(files'[u]) PROVE Listable(u, files[u][j])'
    BY <1>0, <2>1 DEF StoreInv, Listable
  <2>2. \A u \in Users, n \in Names : \A j \in 1..Len(stored'[u][n]) : Len(stored'[u][n][j]) \in Sizes
    BY <1>0 DEF StoreInv
  <2>3. QED
    BY <1>1, <2>1, <2>2 DEF StoreInv
<1>3. ASSUME NEW d \in Clients \ {c}, ~At(d, "off")' PROVE FetchOK(d)'
  <2>1. ~At(d, "off")
    BY <1>0, <1>3, ClientView DEF At
  <2>2. QED
    BY <1>0, <2>1, OthersFetch
<1>4. ASSUME ~At(c, "off")' PROVE FetchOK(c)'
  <2>1. ~Stop(c)
    <3>1. SUFFICES ASSUME Stop(c) PROVE FALSE
      OBVIOUS
    <3>2. client'[c] = Off
      BY <1>0, <3>1 DEF Stop, SystemTypes
    <3>3. QED
      BY <1>4, <3>2 DEF At, Off
  <2>2. QED
    BY <1>0, <2>1, ReadsFetch, FetchFetch, ReadDataFetch, FinishFetch, UploadsFetch
       DEF Client, Program, User
<1>5. GetInv'
  BY <1>3, <1>4 DEF GetInv
<1>6. QED
  BY <1>2, <1>5

-----------------------------------------------------------------------------
(* Always                                                                  *)

\* Nothing is on its way and nothing stored in the beginning.
LEMMA InitBox == Init => BoxInv
<1>1. SUFFICES ASSUME Init PROVE BoxInv
  OBVIOUS
<1>2. FilesInv
  BY <1>1, InitFiles
<1>3. \A k \in Conns : Kind(k) = "gone"
  BY <1>1 DEF Init, NetInit, NoConn, Kind
<1>4. /\ \A c \in Clients : At(c, "off") /\ ~At(c, "put")
      /\ \A u \in Users, n \in Names : stored[u][n] = <<>>
      /\ \A u \in Users : files[u] = <<>>
      /\ uploads = <<>>
  BY <1>1 DEF Init, ClientInit, ServerInit, Off, At
<1>5. \A j \in 1..Len(<<>>) : FALSE
  OBVIOUS
<1>6. \A v : ~IsStored(v)
  BY <1>4, <1>5 DEF IsStored
<1>7. OnceInv
  BY <1>3, <1>4, <1>6 DEF OnceInv, OnItsWay
<1>8. StoreInv
  BY <1>4, <1>5 DEF StoreInv
<1>9. GetInv
  BY <1>4 DEF GetInv
<1>10. QED
  BY <1>2, <1>7, <1>8, <1>9 DEF BoxInv

\* Every step keeps every upload in one place and every download of a stored file.
LEMMA NextBox == ASSUME BoxInv, [Next]_vars PROVE BoxInv'
<1>1. FilesInv' /\ ProtoInv' /\ FilesInv /\ OnceInv
  BY NextFiles DEF BoxInv, FilesInv
<1>2. OnceInv'
  BY <1>1, NextOnce
<1>3. StoreInv' /\ GetInv'
  <2>1. CASE Server /\ UNCHANGED clientVars
    BY <1>1, <2>1, ServerBox
  <2>2. CASE \E c \in Clients : Client(c) /\ UNCHANGED serverVars
    BY <1>1, <2>2, ClientBox
  <2>3. CASE UNCHANGED <<netVars, serverVars, clientVars>>
    <3>1. /\ UNCHANGED clientVars /\ UNCHANGED serverVars
          /\ UNCHANGED <<conn, files, stored, client, uploads>>
      BY <2>3 DEF netVars, serverVars, clientVars
    <3>2. ProtoInv /\ SystemTypes /\ IInv /\ IInv' /\ StoredStays
      BY <1>1, <3>1 DEF FilesInv, ProtoInv, StoredStays
    <3>3. \A m \in Conns : Ent(m)' = Ent(m)
      BY <3>1, <3>2, ClientsView
    <3>4. StoreInv'
      BY <3>1 DEF BoxInv, StoreInv, Listable
    <3>5. ASSUME NEW c \in Clients, ~At(c, "off") PROVE FetchOK(c)'
      <4>1. FetchOK(c) /\ client'[c] = client[c]
        BY <3>1, <3>5 DEF BoxInv, GetInv
      <4>2. ASSUME At(c, "get") PROVE GetOK(c)'
        <5>1. PICK k : k = client[c].data
          OBVIOUS
        <5>2. k \in Conns /\ GetOK(c)
          BY <3>2, <4>1, <4>2, <5>1, GetIs DEF FetchOK
        <5>3. Kind(k)' = Kind(k) /\ Stream(k)' = Stream(k) /\ Pending(k)' = Pending(k)
          BY <3>1, <3>3, <5>2 DEF Kind, Stream, Pending
        <5>4. Kind(k) # "NONE" => Kind(k)' \in {"GET", "gone"}
          BY <5>1, <5>2, <5>3 DEF GetOK
        <5>5. QED
          BY <3>2, <4>1, <4>2, <5>1, <5>2, <5>3, <5>4, GetIs, GetStays
      <4>3. QED
        BY <3>2, <3>5, <4>1, <4>2, FetchStays
    <3>6. GetInv'
      BY <3>1, <3>5 DEF GetInv, At
    <3>7. QED
      BY <3>4, <3>6
  <2>4. QED
    BY <2>1, <2>2, <2>3, StepKinds
<1>4. QED
  BY <1>1, <1>2, <1>3 DEF BoxInv

\* It is always so.
LEMMA BoxAlways == Spec => []BoxInv
<1>1. Init => BoxInv
  BY InitBox
<1>2. BoxInv /\ [Next]_vars => BoxInv'
  BY NextBox
<1>3. QED
  BY <1>1, <1>2, PTL DEF Spec

-----------------------------------------------------------------------------
(* What is fetched                                                         *)

\* The file client c writes is the beginning of something that is stored, as
\* long as the list said, and so as another file of that name.
BeginsStored(c, u, m) ==
  /\ u \in Users /\ m \in Meta /\ m.name \in Names /\ m.size \in Sizes /\ m.size \in Nat
  /\ \E j \in 1..Len(stored[u][m.name]) :
       /\ Data(c) = First(stored[u][m.name][j], m.size)
       /\ m.size <= Len(stored[u][m.name][j])
  /\ \E j \in 1..Len(stored[u][m.name]) : Len(stored[u][m.name][j]) = m.size

\* A client that has all it asked for has it from what was stored.
LEMMA DataIs ==
  ASSUME BoxInv, NEW c \in Clients, FinishGet(c), NEW u, NEW m,
         u = client[c].user, m = Head(client[c].diffFiles)
  PROVE  BeginsStored(c, u, m)
<1>1. /\ ProtoInv /\ SystemTypes /\ IInv /\ StreamInv /\ At(c, "get") /\ Complete(c)
  BY DEF BoxInv, FilesInv, ProtoInv, FinishGet
<1>2. FetchOK(c) /\ GetOK(c) /\ ~At(c, "off")
  BY <1>1, GetIs DEF BoxInv, GetInv, FetchOK
<1>3. PICK x, b, s : x = client[c].data /\ b = client[c].buf /\ s = client[c].diffFiles
  OBVIOUS
<1>4. PICK n, d, w : n = Received(c) /\ d = conn[x].down /\ w = Ent(x).wbuf
  OBVIOUS
<1>5. /\ x \in Conns /\ b \in Seq(Cell) /\ d \in Seq(Cell) /\ w \in Seq(Cell) /\ u \in Users
      /\ m \in Meta /\ m.name \in Names /\ m.size \in Nat
  BY <1>1, <1>3, <1>4, GetIs, Types DEF IInv, NetInv
<1>6. /\ m.size > 0 /\ m.size \in Sizes
      /\ \E j \in 1..Len(stored[u][m.name]) : Len(stored[u][m.name][j]) = m.size
  BY <1>1, <1>2, GetIs DEF FetchOK, Listable
<1>7. /\ n = Smaller(m.size - Len(b), Len(d)) /\ Len(b) + n = m.size
  BY <1>1, <1>3, <1>4 DEF Complete, Received, DataDown
<1>8. Len(b) <= m.size
  BY <1>2, <1>3 DEF GetOK
<1>9. Len(b) \in Nat /\ Len(d) \in Nat /\ n \in 0..Len(d)
  <2>1. Len(b) \in Nat /\ Len(d) \in Nat
    BY <1>5
  <2>2. QED
    BY <1>5, <1>7, <1>8, <2>1 DEF Smaller
<1>10. Kind(x) # "NONE"
  <2>1. SUFFICES ASSUME Kind(x) = "NONE" PROVE FALSE
    OBVIOUS
  <2>2. b = <<>> /\ d = <<>>
    BY <1>1, <1>2, <1>3, <1>4, <1>5, <2>1 DEF GetOK, StreamInv, StreamOK
  <2>3. Len(b) = 0 /\ Len(d) = 0
    BY <2>2
  <2>4. n = 0
    BY <1>9, <2>3
  <2>5. m.size = 0
    <3>1. PICK l : l = Len(b)
      OBVIOUS
    <3>2. l = 0 /\ l + n = m.size
      BY <1>7, <2>3, <3>1
    <3>3. QED
      BY <2>4, <3>2
  <2>6. QED
    BY <1>6, <2>5
<1>11. PICK j \in 1..Len(stored[u][m.name]) : b \o (d \o w) = stored[u][m.name][j]
  BY <1>2, <1>3, <1>4, <1>10 DEF GetOK, IsContent, Pending
<1>12. PICK f, r, z : f = First(d, n) /\ r = Without(d, n) /\ z = stored[u][m.name][j]
  OBVIOUS
<1>13. /\ f \in Seq(Cell) /\ r \in Seq(Cell) /\ b \o f \in Seq(Cell) /\ (b \o f) \o r = b \o d
       /\ Len(b \o f) = m.size
  BY <1>5, <1>7, <1>9, <1>12, Moved, ZenonT(60) DEF MovedOK
<1>14. z = (b \o f) \o (r \o w)
  <2>1. \A p, q, t \in Seq(Cell) : (p \o q) \o t = p \o (q \o t)
    BY ConcatAssociative
  <2>2. b \o (d \o w) = (b \o d) \o w
    BY <1>5, <2>1
  <2>3. (b \o f) \o (r \o w) = ((b \o f) \o r) \o w
    BY <1>5, <1>13, <2>1, ZenonT(60)
  <2>4. QED
    BY <1>11, <1>12, <1>13, <2>2, <2>3
<1>15. PICK g, h : g = b \o f /\ h = r \o w
  OBVIOUS
<1>16. g \in Seq(Cell) /\ h \in Seq(Cell) /\ z = g \o h /\ Len(g) = m.size
  BY <1>5, <1>13, <1>14, <1>15
<1>17. m.size <= Len(z) /\ First(z, m.size) = g
  <2>1. Len(g) \in Nat /\ Len(h) \in Nat /\ Len(z) = Len(g) + Len(h)
        /\ \A p \in 1..Len(g) : z[p] = g[p]
    BY <1>16, Joined
  <2>2. z \in Seq(Cell)
    BY <1>16, Joined
  <2>3. Len(g) <= Len(z)
    BY <2>1
  <2>4. /\ First(z, Len(g)) \in Seq(Cell) /\ Len(First(z, Len(g))) = Len(g)
        /\ \A p \in 1..Len(g) : First(z, Len(g))[p] = z[p]
    BY <2>1, <2>2, <2>3 DEF First
  <2>5. First(z, Len(g)) = g
    BY <1>16, <2>1, <2>4, SeqEqual, ZenonT(60)
  <2>6. QED
    BY <1>16, <2>3, <2>5
<1>18. Data(c) = g
  BY <1>3, <1>4, <1>12, <1>15 DEF Data, DataDown
<1>19. QED
  <2>1. /\ Data(c) = First(stored[u][m.name][j], m.size)
        /\ m.size <= Len(stored[u][m.name][j])
    BY <1>12, <1>17, <1>18
  <2>2. QED
    BY <1>5, <1>6, <1>11, <2>1 DEF BeginsStored

\* What a step that finishes a download writes.
FetchesStored(c) ==
  FinishGet(c) =>
    \E u \in Users, m \in Meta : \E j \in 1..Len(stored[u][m.name]) :
      /\ u = client[c].user /\ m = Head(client[c].diffFiles)
      /\ m.size <= Len(stored[u][m.name][j])
      /\ disk' = [disk EXCEPT ![c][m.name] = First(stored[u][m.name][j], m.size)]

\* Whatever a client reports downloaded is the beginning of a file that was
\* stored for its user under that name, and is as long as the list said, however
\* the reads and writes of the download come in parts, and although other clients
\* upload the same name meanwhile.
THEOREM DownloadsAreStored == Spec => [][\A c \in Clients : FetchesStored(c)]_vars
<1>1. ASSUME BoxInv, NEW c \in Clients PROVE FetchesStored(c)
  <2>1. SUFFICES ASSUME FinishGet(c)
                 PROVE  \E u \in Users, m \in Meta : \E j \in 1..Len(stored[u][m.name]) :
                          /\ u = client[c].user /\ m = Head(client[c].diffFiles)
                          /\ m.size <= Len(stored[u][m.name][j])
                          /\ disk' = [disk EXCEPT ![c][m.name] = First(stored[u][m.name][j], m.size)]
    BY DEF FetchesStored
  <2>2. PICK u, m : u = client[c].user /\ m = Head(client[c].diffFiles)
    OBVIOUS
  <2>3. BeginsStored(c, u, m)
    BY <1>1, <2>1, <2>2, DataIs
  <2>4. disk' = [disk EXCEPT ![c][m.name] = Data(c)]
    BY <2>1, <2>2 DEF FinishGet
  <2>5. QED
    BY <2>2, <2>3, <2>4 DEF BeginsStored
<1>2. BoxInv => \A c \in Clients : FetchesStored(c)
  BY <1>1
<1>3. QED
  BY <1>2, BoxAlways, PTL

-----------------------------------------------------------------------------
(* DropSync implements DropBox                                             *)

\* A client that changes nothing of what it works for leaves the accounts.
LEMMA SameAccount ==
  ASSUME NEW c \in Clients, \A d \in Clients \ {c} : client'[d] = client[d],
         ~At(c, "off"), ~At(c, "off")', client'[c].user = client[c].user
  PROVE  Account' = Account
BY DEF Account, At

\* Only storing changes what DropBox sees of the server.
LEMMA StoreStep ==
  ASSUME BoxInv, BoxInv', StoreFile, UNCHANGED clientVars
  PROVE  Box!Store
<1>0. /\ FilesInv /\ OnceInv /\ ProtoInv /\ SystemTypes /\ IInv' /\ UNCHANGED <<client, disk, uploads>>
  BY DEF BoxInv, FilesInv, ProtoInv, clientVars
<1>1. PICK k, w, m : k = link /\ w = Ent(k).name /\ m = Ent(k).meta
  OBVIOUS
<1>2. PICK v \in 1..Len(uploads) :
        /\ IsUpload(v, w, m) /\ OnItsWay(k, v) /\ v \in Nat /\ k \in Conns /\ m \in Meta /\ m.size > 0
        /\ stored' = [stored EXCEPT ![w][m.name] = Append(@, Content(v, m.size))]
  BY <1>0, <1>1, StoredBytes
<1>3. w \in Users /\ m.name \in Names /\ m.size \in Nat
  <2> DEFINE Up == [user : Users, name : Names, size : Nat]
  <2>1. uploads \in Seq(Up)
    BY <1>0 DEF SystemTypes
  <2> HIDE DEF Up
  <2>2. uploads[v] \in Up
    BY <1>2, <2>1
  <2>3. QED
    BY <1>2, <2>2 DEF Up, IsUpload, Meta
<1>4. PICK x, b : /\ x = Content(v, m.size)
                  /\ b = [user |-> w, name |-> m.name, content |-> x]
  OBVIOUS
<1>5. HasByteOf(x, v)
  <2>1. Len(x) = m.size /\ 1 \in 1..m.size
    BY <1>2, <1>3, <1>4 DEF Content
  <2>2. x[1].t = "byte" /\ x[1].ver = v
    BY <1>4, <2>1 DEF Content, Byte
  <2>3. QED
    BY <2>1, <2>2 DEF HasByteOf
<1>6. ~(\E j \in 1..Len(stored[w][m.name]) : stored[w][m.name][j] = x)
  <2>1. ~IsStored(v)
    BY <1>0, <1>2 DEF OnceInv
  <2>2. QED
    BY <1>3, <1>5, <2>1 DEF IsStored
<1>7. Begun[v] = b /\ v \in 1..Len(Begun)
  <2>1. uploads[v].user = w /\ uploads[v].name = m.name /\ uploads[v].size = m.size
    BY <1>2 DEF IsUpload
  <2>2. Len(Begun) = Len(uploads)
    BY <1>0 DEF Begun, SystemTypes
  <2>3. Begun[v] = [user |-> uploads[v].user, name |-> uploads[v].name,
                    content |-> Content(v, uploads[v].size)]
    BY DEF Begun
  <2>4. QED
    BY <1>4, <2>1, <2>2, <2>3
<1>8. b.user = w /\ b.name = m.name /\ b.content = x
  BY <1>4
<1>9. stored' = [stored EXCEPT ![b.user][b.name] = Append(@, b.content)]
  BY <1>2, <1>4, <1>8
<1>10. ~Box!Arrived(b)
  BY <1>6, <1>8 DEF Box!Arrived
<1>11. Account' = Account /\ Begun' = Begun
  BY <1>0 DEF Account, Begun, At
<1>12. \E j \in 1..Len(Begun) : LET y == Begun[j]
                                IN  /\ ~Box!Arrived(y)
                                    /\ stored' = [stored EXCEPT ![y.user][y.name] = Append(@, y.content)]
  BY <1>7, <1>9, <1>10
<1>13. QED
  BY <1>0, <1>11, <1>12 DEF Box!Store

\* A client begins an upload.
LEMMA BeginStep ==
  ASSUME BoxInv, "nobody" \notin Users, NEW c \in Clients, NEW n \in Names, NEW len \in Sizes,
         Upload(c, n, len), stored' = stored
  PROVE  Box!Begin(c)
<1>1. /\ SystemTypes /\ At(c, "idle") /\ ~At(c, "off") /\ Len(uploads) \in Nat /\ Len(uploads) < MaxUploads
      /\ DOMAIN client = Clients
  BY DEF BoxInv, FilesInv, ProtoInv, SystemTypes, Upload, TakesCommands, At
<1>2. client[c] \in Online /\ client[c].user \in Users
  BY <1>1, ClientTypes
<1>3. PICK s, u, v, x : s = uploads /\ u = client[c].user /\ v = Len(uploads) + 1 /\ x = Content(v, len)
  OBVIOUS
<1>4. PICK y : y = [user |-> u, name |-> n, size |-> len]
  OBVIOUS
<1>5. /\ uploads' = Append(s, y) /\ disk' = [disk EXCEPT ![c][n] = x]
      /\ y.user = u /\ y.name = n /\ y.size = len
  BY <1>3, <1>4 DEF Upload
<1>6. PICK k : client' = [client EXCEPT ![c].pc = "put", ![c].data = k, ![c].buf = x, ![c].upload = v]
  BY <1>3 DEF Upload
<1>7. /\ \A d \in Clients \ {c} : client'[d] = client[d]
      /\ client'[c].pc = "put" /\ client'[c].user = client[c].user
  BY <1>1, <1>2, <1>6 DEF Online
<1>8. Account' = Account
  BY <1>1, <1>7, SameAccount DEF At
<1>9. Account[c] # "nobody" /\ Account[c] = u
  BY <1>1, <1>2, <1>3 DEF Account
<1>10. v \in 1..MaxUploads
  BY <1>1, <1>3, ClientAssumption
<1>11. x \in Contents
  BY <1>3, <1>10 DEF Contents
<1>12. PICK z : z = [user |-> u, name |-> n, content |-> x]
  OBVIOUS
<1>13. Begun' = Append(Begun, z)
  <2> DEFINE Up == [user : Users, name : Names, size : Nat]
             F(t, g) == [user |-> t[g].user, name |-> t[g].name, content |-> Content(g, t[g].size)]
             t == Append(s, y)
  <2>1. s \in Seq(Up) /\ Len(s) \in Nat
    BY <1>1, <1>3 DEF SystemTypes
  <2> HIDE DEF Up
  <2>2. Len(t) = Len(s) + 1 /\ (\A g \in 1..Len(s) : t[g] = s[g]) /\ t[Len(s) + 1] = y
    BY <2>1
  <2>3. Begun = [g \in 1..Len(s) |-> F(s, g)]
    BY <1>3 DEF Begun
  <2>4. Begun' = [g \in 1..Len(t) |-> F(t, g)]
    BY <1>5 DEF Begun
  <2>5. \A g \in 1..Len(s) : F(t, g) = F(s, g)
    BY <2>2
  <2>6. F(t, Len(s) + 1) = z
    BY <1>3, <1>5, <1>12, <2>2
  <2> HIDE DEF F, t
  <2>7. PICK l : l = Len(s)
    OBVIOUS
  <2>8. l \in Nat /\ Len(t) = l + 1
    BY <2>1, <2>2, <2>7
  <2>9. PICK p : p = [g \in 1..l |-> F(s, g)]
    OBVIOUS
  <2>10. Len(p) = l /\ Begun = p
    BY <2>3, <2>7, <2>8, <2>9
  <2>11. Append(p, z) = [g \in 1..(l + 1) |-> IF g = l + 1 THEN z ELSE p[g]]
    BY <2>8, <2>9, <2>10
  <2>12. [g \in 1..(l + 1) |-> IF g = l + 1 THEN z ELSE p[g]] = [g \in 1..(l + 1) |-> F(t, g)]
    <3>1. ASSUME NEW g \in 1..(l + 1)
          PROVE  (IF g = l + 1 THEN z ELSE p[g]) = F(t, g)
      <4>1. CASE g = l + 1
        BY <2>6, <2>7, <4>1
      <4>2. CASE g # l + 1
        <5>1. g \in 1..l
          BY <2>8, <4>2
        <5>2. QED
          BY <2>5, <2>7, <2>9, <4>2, <5>1
      <4>3. QED
        BY <4>1, <4>2
    <3>2. QED
      BY <3>1
  <2>13. QED
    BY <2>4, <2>8, <2>10, <2>11, <2>12
<1>14. Begun' = Append(Begun, [user |-> Account[c], name |-> n, content |-> x])
  BY <1>9, <1>12, <1>13
<1>15. QED
  BY <1>5, <1>8, <1>9, <1>11, <1>14 DEF Box!Begin

\* A client fetches the beginning of a file that is stored.
LEMMA FetchStep ==
  ASSUME BoxInv, "nobody" \notin Users, NEW c \in Clients, FinishGet(c),
         \A d \in Clients \ {c} : client'[d] = client[d], stored' = stored
  PROVE  Box!FetchCut(c)
<1>1. /\ SystemTypes /\ ProtoInv /\ At(c, "get") /\ ~At(c, "off") /\ DOMAIN client = Clients
      /\ uploads' = uploads
  BY DEF BoxInv, FilesInv, ProtoInv, SystemTypes, FinishGet, At
<1>2. PICK u, m : u = client[c].user /\ m = Head(client[c].diffFiles)
  OBVIOUS
<1>3. BeginsStored(c, u, m)
  BY <1>2, DataIs
<1>4. PICK n, kept : n \in Names /\ n = m.name /\ kept = stored[u][m.name]
  BY <1>3 DEF BeginsStored
<1>5. PICK j, k \in 1..Len(kept) :
        /\ Data(c) = First(kept[k], m.size) /\ m.size <= Len(kept[k])
        /\ Len(kept[j]) = m.size
  BY <1>3, <1>4 DEF BeginsStored
<1>6. u \in Users
  BY <1>3 DEF BeginsStored
<1>7. Len(kept[j]) <= Len(kept[k]) /\ Data(c) = SubSeq(kept[k], 1, Len(kept[j]))
  BY <1>5 DEF First
<1>8. disk' = [disk EXCEPT ![c][n] = SubSeq(kept[k], 1, Len(kept[j]))]
  BY <1>2, <1>4, <1>7 DEF FinishGet
<1>9. client[c] \in Online
  BY <1>1, ClientTypes
<1>11. \E r : /\ client'[c] = Resume(r) /\ {"pc", "user"} \subseteq DOMAIN r
              /\ r.user = client[c].user
  <2> DEFINE more == client[c].localFiles \cup {Head(client[c].diffFiles).name}
  <2>1. PICK r : r = [client[c] EXCEPT !.localFiles = more, !.diffFiles = Tail(client[c].diffFiles),
                                       !.buf = <<>>, !.data = 0]
    OBVIOUS
  <2>2. client'[c] = Resume(r)
    BY <1>1, <2>1 DEF FinishGet
  <2> HIDE DEF more
  <2>3. {"pc", "user"} \subseteq DOMAIN r /\ r.user = client[c].user
    BY <1>9, <2>1 DEF Online
  <2>4. QED
    BY <2>2, <2>3
<1>12. client'[c].user = client[c].user /\ client'[c].pc # "off"
  BY <1>11 DEF Resume
<1>13. Account' = Account
  BY <1>1, <1>12, SameAccount DEF At
<1>14. Account[c] = u /\ Account[c] # "nobody"
  BY <1>1, <1>2, <1>6 DEF Account
<1>15. Begun' = Begun
  BY <1>1 DEF Begun
<1>16. kept = stored[Account[c]][n]
  BY <1>4, <1>14
<1>17. QED
  BY <1>4, <1>5, <1>7, <1>8, <1>13, <1>14, <1>15, <1>16 DEF Box!FetchCut

\* It is the whole file when all sizes agree.
LEMMA FetchWhole ==
  ASSUME BoxInv, \A a, b \in Sizes : a = b, "nobody" \notin Users, NEW c \in Clients, Box!FetchCut(c)
  PROVE  Box!Fetch(c)
<1>1. SystemTypes /\ StoreInv
  BY DEF BoxInv, FilesInv, ProtoInv
<1>2. PICK u : u = Account[c]
  OBVIOUS
<1>3. u # "nobody"
  BY <1>2 DEF Box!FetchCut
<1>4. u \in Users
  <2>1. ~At(c, "off") /\ u = client[c].user
    BY <1>2, <1>3 DEF Account
  <2>2. QED
    BY <1>1, <2>1, ClientTypes
<1>5. PICK n \in Names : \E j, k \in 1..Len(stored[u][n]) :
        disk' = [disk EXCEPT ![c][n] = SubSeq(stored[u][n][k], 1, Len(stored[u][n][j]))]
  BY <1>2 DEF Box!FetchCut
<1>6. PICK kept : kept = stored[u][n]
  OBVIOUS
<1>7. PICK j, k \in 1..Len(kept) : disk' = [disk EXCEPT ![c][n] = SubSeq(kept[k], 1, Len(kept[j]))]
  BY <1>5, <1>6
<1>8. kept \in Seq(Seq(Cell)) /\ Len(kept[j]) \in Sizes /\ Len(kept[k]) \in Sizes
  <2>1. n \in Names
    BY <1>5
  <2>2. kept \in Seq(Seq(Cell))
    BY <1>1, <1>4, <1>6, <2>1 DEF SystemTypes
  <2>3. \A i \in 1..Len(stored[u][n]) : Len(stored[u][n][i]) \in Sizes
    BY <1>1, <1>4, <2>1 DEF StoreInv
  <2>4. QED
    BY <1>6, <1>7, <2>2, <2>3
<1>9. PICK z : z = kept[k]
  OBVIOUS
<1>10. z \in Seq(Cell) /\ Len(kept[j]) = Len(z)
  BY <1>8, <1>9
<1>11. SubSeq(z, 1, Len(z)) = z
  BY <1>10
<1>12. disk' = [disk EXCEPT ![c][n] = kept[k]]
  BY <1>7, <1>9, <1>10, <1>11
<1>13. UNCHANGED <<Account, Begun, stored>>
  BY DEF Box!FetchCut
<1>14. QED
  BY <1>2, <1>3, <1>6, <1>12, <1>13 DEF Box!Fetch

\* A client that starts logs in.
LEMMA LogInStep ==
  ASSUME SystemTypes, "nobody" \notin Users, NEW c \in Clients, NEW u \in Users, Start(c, u),
         stored' = stored
  PROVE  Box!LogIn(c)
<1>1. At(c, "off") /\ DOMAIN client = Clients /\ UNCHANGED <<disk, uploads>>
  BY DEF SystemTypes, Start
<1>2. PICK k : client' = [client EXCEPT ![c] =
                  [pc |-> "login", user |-> u, cmd |-> k, data |-> 0,
                   localFiles |-> {}, diffFiles |-> <<>>, tCount |-> 0,
                   buf |-> <<>>, upload |-> 0]]
  BY DEF Start
<1>3. /\ \A d \in Clients \ {c} : client'[d] = client[d]
      /\ client'[c].pc = "login" /\ client'[c].user = u
  BY <1>1, <1>2
<1>4. Account[c] = "nobody"
  BY <1>1 DEF Account
<1>5. Account' = [Account EXCEPT ![c] = u]
  BY <1>3 DEF Account, At
<1>6. Begun' = Begun
  BY <1>1 DEF Begun
<1>7. QED
  BY <1>1, <1>4, <1>5, <1>6 DEF Box!LogIn

\* A client that stops logs out.
LEMMA LogOutStep ==
  ASSUME SystemTypes, NEW c \in Clients, Stop(c), stored' = stored
  PROVE  Box!LogOut(c)
<1>1. /\ DOMAIN client = Clients /\ UNCHANGED <<disk, uploads>>
      /\ client' = [client EXCEPT ![c] = Off]
  BY DEF SystemTypes, Stop
<1>2. (\A d \in Clients \ {c} : client'[d] = client[d]) /\ client'[c].pc = "off"
  BY <1>1 DEF Off
<1>3. Account' = [Account EXCEPT ![c] = "nobody"]
  BY <1>2 DEF Account, At
<1>4. Begun' = Begun
  BY <1>1 DEF Begun
<1>5. QED
  BY <1>1, <1>3, <1>4 DEF Box!LogOut

\* The other steps of a client change nothing DropBox sees.
LEMMA UnseenStep ==
  ASSUME SystemTypes, NEW c \in Clients, \A d \in Clients \ {c} : client'[d] = client[d], stored' = stored,
         \/ ReadList(c) \/ ReadCount(c) \/ ReadMeta(c) \/ Fetch(c) \/ ReadData(c)
         \/ WriteData(c) \/ FinishPut(c)
  PROVE  UNCHANGED Box!vars
<1>1. DOMAIN client = Clients /\ ~At(c, "off") /\ UNCHANGED <<disk, uploads>>
  BY DEF SystemTypes, At, ReadList, ReadCount, ReadMeta, Fetch, ReadData, WriteData, FinishPut
<1>2. client[c] \in Online
  BY <1>1, ClientTypes
<1>3. client'[c].user = client[c].user /\ client'[c].pc # "off"
  <2>1. CASE ReadList(c)
    BY <1>1, <1>2, <2>1 DEF ReadList, Online
  <2>2. ASSUME NEW r, client'[c] = Resume(r), {"pc", "user"} \subseteq DOMAIN r,
               r.user = client[c].user
        PROVE  client'[c].user = client[c].user /\ client'[c].pc # "off"
    BY <2>2 DEF Resume
  <2>3. CASE ReadCount(c)
    <3>1. PICK n : client' = [client EXCEPT ![c] = Resume([@ EXCEPT !.tCount = n])]
      BY <2>3 DEF ReadCount
    <3>2. PICK r : r = [client[c] EXCEPT !.tCount = n]
      OBVIOUS
    <3>3. {"pc", "user"} \subseteq DOMAIN r /\ r.user = client[c].user
      BY <1>2, <3>2 DEF Online
    <3>4. client'[c] = Resume(r)
      BY <1>1, <3>1, <3>2
    <3>5. QED
      BY <2>2, <3>3, <3>4
  <2>4. CASE ReadMeta(c)
    <3>1. PICK n, s, r : /\ r = [client[c] EXCEPT !.tCount = n, !.diffFiles = s]
                         /\ client' = [client EXCEPT ![c] = Resume(r)]
      BY <2>4 DEF ReadMeta
    <3>2. {"pc", "user"} \subseteq DOMAIN r /\ r.user = client[c].user
      BY <1>2, <3>1 DEF Online
    <3>3. client'[c] = Resume(r)
      BY <1>1, <3>1
    <3>4. QED
      BY <2>2, <3>2, <3>3
  <2>5. CASE Fetch(c)
    <3>1. PICK k : client' = [client EXCEPT ![c].pc = "get", ![c].data = k]
      BY <2>5 DEF Fetch
    <3>2. QED
      BY <1>1, <1>2, <3>1 DEF Online
  <2>6. CASE ReadData(c) \/ WriteData(c)
    <3>1. PICK s : client' = [client EXCEPT ![c].buf = s]
      BY <2>6 DEF ReadData, WriteData
    <3>2. client'[c] = [client[c] EXCEPT !.buf = s]
      BY <1>1, <3>1
    <3>3. QED
      BY <1>1, <1>2, <3>2 DEF Online, At
  <2>7. CASE FinishPut(c)
    <3>1. PICK s : client' = [client EXCEPT ![c].pc = "idle", ![c].data = 0, ![c].upload = 0,
                                            ![c].localFiles = s]
      BY <2>7 DEF FinishPut
    <3>2. QED
      BY <1>1, <1>2, <3>1 DEF Online
  <2>8. QED
    BY <2>1, <2>3, <2>4, <2>5, <2>6, <2>7
<1>4. Account' = Account
  BY <1>1, <1>3, SameAccount DEF At
<1>5. Begun' = Begun
  BY <1>1 DEF Begun
<1>6. QED
  BY <1>1, <1>4, <1>5 DEF Box!vars

\* DropSync begins where DropBox does.
LEMMA InitStep == Init => Box!Init
<1>1. SUFFICES ASSUME Init PROVE Box!Init
  OBVIOUS
<1>2. /\ \A c \in Clients : At(c, "off")
      /\ uploads = <<>>
      /\ stored = [u \in Users |-> [n \in Names |-> <<>>]]
      /\ disk = [c \in Clients |-> [n \in Names |-> <<>>]]
  BY <1>1 DEF Init, ClientInit, ServerInit, Off, At
<1>3. Account = [c \in Clients |-> "nobody"]
  BY <1>2 DEF Account
<1>4. Begun = <<>>
  <2>1. Len(uploads) = 0
    BY <1>2
  <2>2. QED
    BY <2>1 DEF Begun
<1>5. QED
  BY <1>2, <1>3, <1>4 DEF Box!Init

\* Every step of DropSync is one of DropBox, but for the cut downloads, or changes
\* nothing it sees.
LEMMA NextStep ==
  ASSUME BoxInv, BoxInv', "nobody" \notin Users, [Next]_vars
  PROVE  [Box!CutNext]_(Box!vars)
<1>1. ProtoInv /\ SystemTypes /\ IInv'
  BY DEF BoxInv, FilesInv, ProtoInv
<1>2. CASE Server /\ UNCHANGED clientVars
  <2>1. CASE StoreFile
    BY <1>2, <2>1, StoreStep DEF Box!CutNext
  <2>2. CASE ~StoreFile
    <3>1. UNCHANGED <<client, disk, uploads, stored>>
      BY <1>2, <2>2, OthersStore DEF clientVars
    <3>2. Account' = Account /\ Begun' = Begun
      BY <3>1 DEF Account, Begun, At
    <3>3. QED
      BY <3>1, <3>2 DEF Box!vars
  <2>3. QED
    BY <2>1, <2>2
<1>3. ASSUME NEW c \in Clients, Client(c), UNCHANGED serverVars
      PROVE  [Box!CutNext]_(Box!vars)
  <2>1. stored' = stored /\ \A d \in Clients \ {c} : client'[d] = client[d]
    BY <1>1, <1>3, ClientView DEF serverVars
  <2>2. CASE \E u \in Users : Start(c, u)
    BY <1>1, <2>1, <2>2, LogInStep DEF Box!CutNext
  <2>3. CASE \E n \in Names, len \in Sizes : Upload(c, n, len)
    BY <2>1, <2>3, BeginStep DEF Box!CutNext
  <2>4. CASE Stop(c)
    BY <1>1, <2>1, <2>4, LogOutStep DEF Box!CutNext
  <2>5. CASE FinishGet(c)
    BY <2>1, <2>5, FetchStep DEF Box!CutNext
  <2>6. CASE \/ ReadList(c) \/ ReadCount(c) \/ ReadMeta(c) \/ Fetch(c) \/ ReadData(c)
             \/ WriteData(c) \/ FinishPut(c)
    BY <1>1, <2>1, <2>6, UnseenStep
  <2>7. QED
    BY <1>3, <2>2, <2>3, <2>4, <2>5, <2>6 DEF Client, Program, User
<1>4. CASE UNCHANGED <<netVars, serverVars, clientVars>>
  <2>1. UNCHANGED <<client, disk, uploads, stored>>
    BY <1>4 DEF clientVars, serverVars
  <2>2. Account' = Account /\ Begun' = Begun
    BY <2>1 DEF Account, Begun, At
  <2>3. QED
    BY <2>1, <2>2 DEF Box!vars
<1>5. QED
  BY <1>2, <1>3, <1>4, StepKinds

\* The server, its clients and the connections between them keep the promise of
\* DropBox but for the cut downloads: an upload is stored once and whole, and what
\* a client fetches is a file stored for its user, or its beginning as long as
\* another file of that name.  Whatever the number of clients, users, names and
\* connections and the sizes of the files, with all partial reads and writes,
\* stops and restarts.  That "nobody" is no user's name is of the mapping only,
\* which gives a client that is off this name.
THEOREM SyncImplementsCutBox ==
  ASSUME "nobody" \notin Users
  PROVE  Spec => CutBoxSpec
<1>1. Init => Box!Init
  BY InitStep
<1>2. BoxInv /\ BoxInv' /\ [Next]_vars => [Box!CutNext]_(Box!vars)
  BY NextStep
<1>3. QED
  BY <1>1, <1>2, BoxAlways, PTL DEF Spec, CutBoxSpec, Box!CutSpec

\* When all files have one size it keeps the promise as it is: every download is
\* the whole of a stored file.
THEOREM SyncImplementsBox ==
  ASSUME \A a, b \in Sizes : a = b, "nobody" \notin Users
  PROVE  Spec => BoxSpec
<1>1. Init => Box!Init
  BY InitStep
<1>2. BoxInv /\ BoxInv' /\ [Next]_vars => [Box!Next]_(Box!vars)
  <2>1. BoxInv => (Box!CutNext => Box!Next)
    BY FetchWhole DEF Box!CutNext, Box!Next
  <2>2. QED
    BY <2>1, NextStep
<1>3. QED
  BY <1>1, <1>2, BoxAlways, PTL DEF Spec, BoxSpec, Box!Spec
=============================================================================
