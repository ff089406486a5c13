------------------------------ MODULE Programs -------------------------------
(***************************************************************************)
(* The small programs side by side: a behaviour is one of hw1's chat, of   *)
(* the chat, calculator and accumulator servers of the midterms, of the    *)
(* single-threaded counting servers, of the sum server, of pingsubnet or   *)
(* of the line servers.  A program that does not run keeps its variables   *)
(* at Off; variables of the same name are shared by the programs.          *)
(***************************************************************************)
EXTENDS SumServer

CONSTANTS Machines,                     \* with a client program
          ExamMachines,                 \* the same for the calculators and accumulators
          ChatNames, BadName, ChatTexts, ChatLines,  \* ChatServer
          NameOf, Messages,                          \* OfflineChat
          MAX_FORK_NUM,                              \* ExamServers
          Limit, MaxTyped, MaxWarns,                 \* CountServers
          MAX_PING_IP, Word, Datas,                  \* PingSubnet
          MAX_BUF_SIZE, MaxChars,                    \* LineServer
          MAX_FD_NUM,                   \* of the select tables
          MaxLines, MaxDials, MaxKills  \* bounds of the clients with connections

ASSUME ProgramsAssumption ==
  /\ MAX_PING_IP \in Nat \ {0}
  \* no packet has more words than a word has values
  /\ Word \in Nat /\ Word > 1
  /\ \A d \in Datas : d \in Seq(0..(Word - 1)) /\ Len(d) + 2 <= Word
  /\ MAX_BUF_SIZE \in Nat /\ MAX_BUF_SIZE > 2
  /\ MAX_FD_NUM \in Nat \ {0}
  /\ {"-1", "listen"} \cap (Machines \cup ExamMachines) = {}

VARIABLES
  program,
  heard,                                                         \* ChatServer
  named, asking, buf, Queue, told, processed,                    \* OfflineChat
  server, cur, children, zombies, accu_array, accu,              \* ExamServers
  conn_num, useSelect, own, asked,
  part, data, given, got, warns,                                 \* CountServers
  i, allFinish, nextIP, pingData, sendbuf, verdict,              \* PingSubnet
  way, buffered, serving, wline, wl, rl, line, out, waiting, overrun,  \* LineServer
  conn, typed, dials, killed, alive, fd_array, rset, at, sent    \* of several programs

Off == "off"

-----------------------------------------------------------------------------
(* The instances                                                           *)

Chat == INSTANCE ChatServer
          WITH Clients <- Machines, Names <- ChatNames, Texts <- ChatTexts, Lines <- ChatLines
Offline  == INSTANCE OfflineChat WITH Clients <- Machines
Exam     == INSTANCE ExamServers WITH Clients <- ExamMachines
Counting == INSTANCE CountServers WITH Clients <- Machines
Ping     == INSTANCE PingSubnet
Lined    == INSTANCE LineServer WITH Clients <- Machines, MaxTyped <- MaxChars

-----------------------------------------------------------------------------
(* The variables of each program, and what they are when it does not run   *)

socketVars  == <<conn, typed, dials, alive, killed>>
tableVars   == <<fd_array, rset>>
offlineVars == <<named, asking, buf, Queue, told, processed>>
examVars    == <<server, cur, children, zombies, accu_array, accu, conn_num, useSelect, own,
                 asked>>
countVars   == <<part, data, given, got, warns>>
sumVars     == <<sum, init, count, n, reg, addr_remote, pair, torn, reply>>
pingVars    == <<i, allFinish, nextIP, pingData, sendbuf, verdict>>
lineVars    == <<way, buffered, serving, wline, wl, rl, line, out, waiting,
                 overrun>>
timerVars   == <<alarm, net>>
allVars     == <<program, vars, socketVars, tableVars, heard, offlineVars, examVars, countVars,
                 pingVars, lineVars, at, sent>>

NoSockets == conn = Off /\ typed = Off /\ dials = Off /\ alive = Off /\ killed = Off
NoTable   == fd_array = Off /\ rset = Off
NoOffline == /\ named = Off /\ asking = Off /\ buf = Off
             /\ Queue = Off /\ told = Off /\ processed = Off
NoExam    == /\ server = Off /\ cur = Off /\ children = Off /\ zombies = Off /\ accu_array = Off
             /\ accu = Off /\ conn_num = Off /\ useSelect = Off /\ own = Off /\ asked = Off
NoCounting == part = Off /\ data = Off /\ given = Off /\ got = Off /\ warns = Off
NoSum     == /\ sum = Off /\ init = Off /\ count = Off /\ n = Off /\ reg = Off
             /\ addr_remote = Off /\ pair = Off /\ torn = Off /\ reply = NoReply
NoPing    == /\ i = Off /\ allFinish = Off /\ nextIP = Off /\ pingData = Off
             /\ sendbuf = Off /\ verdict = Off
NoLine    == /\ way = Off /\ buffered = Off /\ serving = Off /\ wline = Off /\ wl = Off
             /\ rl = Off /\ line = Off /\ out = Off /\ waiting = Off /\ overrun = Off
NoTimer   == alarm = Off /\ net = Off

-----------------------------------------------------------------------------
ChatInit ==
  /\ program = "hw1" /\ Chat!Init
  /\ NoOffline /\ NoExam /\ NoCounting /\ NoSum /\ NoPing /\ NoLine /\ NoTimer
  /\ pc = Off /\ at = Off /\ sent = Off
OfflineInit ==
  /\ program = "mid_2014F/P4" /\ Offline!Init
  /\ heard = Off /\ NoExam /\ NoCounting /\ NoSum /\ NoPing /\ NoLine /\ NoTimer
  /\ pc = Off /\ at = Off /\ sent = Off
ExamInit ==
  /\ program = "midterms" /\ Exam!Init
  /\ heard = Off /\ alive = Off /\ NoOffline /\ NoCounting /\ NoSum /\ NoPing /\ NoLine /\ NoTimer
  /\ at = Off /\ sent = Off
CountInit ==
  /\ program = "old_final_2012F" /\ Counting!Init
  /\ heard = Off /\ killed = Off /\ NoTable /\ NoOffline /\ NoExam /\ NoSum /\ NoPing /\ NoLine
  /\ NoTimer /\ pc = Off /\ sent = Off
SumInit ==
  /\ program = "final_2014F/P1" /\ Init
  /\ NoSockets /\ heard = Off
  /\ NoTable /\ NoOffline /\ NoExam /\ NoCounting /\ NoPing /\ NoLine /\ at = Off /\ sent = Off
PingInit ==
  /\ program = "final_2014F/P2" /\ Ping!Init
  /\ NoSockets /\ heard = Off
  /\ NoTable /\ NoOffline /\ NoExam /\ NoCounting /\ NoSum /\ NoLine /\ net = Off
  /\ pc = Off /\ sent = Off
LineInit ==
  /\ program = "lines" /\ Lined!Init
  /\ heard = Off /\ NoTable /\ NoOffline /\ NoExam /\ NoCounting /\ NoSum /\ NoPing /\ NoTimer
  /\ pc = Off /\ at = Off

MCInit == ChatInit \/ OfflineInit \/ ExamInit \/ CountInit \/ SumInit \/ PingInit \/ LineInit

ChatNext ==
  /\ program = "hw1" /\ Chat!Next
  /\ UNCHANGED <<offlineVars, examVars, countVars, sumVars, pingVars, lineVars, timerVars,
                 pc, at, sent>>
OfflineNext ==
  /\ program = "mid_2014F/P4" /\ Offline!Next
  /\ UNCHANGED <<heard, examVars, countVars, sumVars, pingVars, lineVars, timerVars, pc, at, sent>>
ExamNext ==
  /\ program = "midterms" /\ Exam!Next
  /\ UNCHANGED <<heard, alive, offlineVars, countVars, sumVars, pingVars, lineVars, timerVars,
                 at, sent>>
CountNext ==
  /\ program = "old_final_2012F" /\ Counting!Next
  /\ UNCHANGED <<heard, killed, tableVars, offlineVars, examVars, sumVars, pingVars, lineVars,
                 timerVars, pc, sent>>
SumNext ==
  /\ program = "final_2014F/P1" /\ Next
  /\ UNCHANGED <<socketVars, heard, tableVars, offlineVars, examVars, countVars,
                 pingVars, lineVars, at, sent>>
PingNext ==
  /\ program = "final_2014F/P2" /\ Ping!Next
  /\ UNCHANGED <<socketVars, heard, tableVars, offlineVars, examVars, countVars,
                 sumVars, lineVars, net, pc, sent>>
LineNext ==
  /\ program = "lines" /\ Lined!Next
  /\ UNCHANGED <<heard, tableVars, offlineVars, examVars, countVars, sumVars, pingVars, timerVars,
                 pc, at>>

MCNext ==
  /\ \/ ChatNext \/ OfflineNext \/ ExamNext \/ CountNext \/ SumNext \/ PingNext \/ LineNext
  /\ UNCHANGED program

MCSpec == MCInit /\ [][MCNext]_allVars

-----------------------------------------------------------------------------
(* Properties: those of the programs, where they are explained             *)

Runs(p) == program = p

\* The type invariant of the program that runs.
ProgramTypeOK ==
  /\ Runs("hw1") => Chat!TypeOK
  /\ Runs("mid_2014F/P4") => Offline!TypeOK
  /\ Runs("midterms") => Exam!TypeOK
  /\ Runs("old_final_2012F") => Counting!TypeOK
  /\ Runs("final_2014F/P1") => TypeOK
  /\ Runs("final_2014F/P2") => Ping!TypeOK
  /\ Runs("lines") => Lined!TypeOK

\* hw1: no two connections have the same name (ChatServer).
UniqueNames == Runs("hw1") => Chat!NamesUnique
\* hw1: clients can tell from what they read who is there (ChatServer).
RosterIsKnown == Runs("hw1") => Chat!RosterKnown
\* hw1: only a killed client can end the server (ChatServer).
ExitIsHarmless == Runs("hw1") => Chat!ServerDiesOnlyByKill
\* hw1: when select sleeps nothing is unread and who left was hung up on (ChatServer).
NobodyIsForgotten == Runs("hw1") => Chat!NobodyForgotten

\* mid_2014F P4: a message is told once or kept once (OfflineChat).
ToldOrKeptOnce == Runs("mid_2014F/P4") => Offline!KeptOnce
\* mid_2014F P4: messages are kept for the absent only (OfflineChat).
KeptForTheAbsent == Runs("mid_2014F/P4") => Offline!KeptForAbsent

\* Midterms: every answer is the one to the client's own commands (ExamServers).
OwnAnswers == Runs("midterms") => Exam!AnswersAreOwn
\* old_mid_2013F P4: the counter that decides the mode is right (ExamServers).
ConnNumIsRight == Runs("midterms") => Exam!CountIsRight
\* Midterms: clients that end by themselves end no server (ExamServers).
EndsAreHarmless == Runs("midterms") => Exam!OrdinaryEndsAreHarmless
\* old_final_2012F P1 and P3: no number is lost or counted twice (CountServers).
NumbersAreAccounted == Runs("old_final_2012F") => Counting!NumbersAccounted

\* final_2014F P2: no host is skipped, none is given up after it answered (PingSubnet).
EveryHostReported == Runs("final_2014F/P2") => Ping!HostsReported
\* final_2014F P2: hosts accept the checksum (PingSubnet).
ChecksumsVerify == Runs("final_2014F/P2") => Ping!PacketsVerify

\* Line servers: every client's lines are its own, whole and in order (LineServer).
OwnLines == Runs("lines") => Lined!LinesAreOwn
\* Line servers: no client ends the server (LineServer).
LineServerSurvives == Runs("lines") => Lined!ServerSurvives
=============================================================================
