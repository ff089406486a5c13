SPECIFICATION MCSpec
CONSTANTS
  Clients = {"c1"}
  Nums = {1, 5}
  Machines <- TwoMachines
  ExamMachines <- ThreeMachines
  ChatNames = {"ann", "bob"}
  BadName = "x"
  ChatTexts <- Greetings
  ChatLines <- LinesOfAll
  NameOf <- AnnAndBob
  Messages = {"m1", "m2"}
  MAX_FORK_NUM = 2
  Limit = 3
  MaxTyped = 2
  MaxWarns = 1
  MAX_PING_IP = 3
  Word = 4
  Datas <- PacketDatas
  MAX_BUF_SIZE = 3
  MaxChars = 4
  MAX_FD_NUM = 2
  MaxLines = 2
  MaxDials = 3
  MaxKills = 1
INVARIANTS
  ProgramTypeOK
  UniqueNames
  RosterIsKnown
  ExitIsHarmless
  NobodyIsForgotten
  ToldOrKeptOnce
  KeptForTheAbsent
  OwnAnswers
  ConnNumIsRight
  EndsAreHarmless
  NumbersAreAccounted
  AnswerIsPairSum
  AlarmIffOpen
  EveryHostReported
  ChecksumsVerify
  OwnLines
  LineServerSurvives
CHECK_DEADLOCK FALSE
