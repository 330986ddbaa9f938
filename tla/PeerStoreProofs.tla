--------------------------- MODULE PeerStoreProofs ---------------------------
(***************************************************************************)
(* Proofs about PeerStore, for any peers, command lines and number of runs *)
(* that read and write one file as they please, and lists of any length.   *)
(***************************************************************************)
EXTENDS PeerStore, PeerConfigProofs

(***************************************************************************)
(* Typing.                                                                 *)
(***************************************************************************)

(* Only peerconfgen.py asks questions.                                     *)
AtPrompt == \A r \in Run : pc[r] = "prompt" => Generating(r)

Typed == TypeOK /\ AtPrompt

LEMMA EmptyList == <<>> \in Seq(Block) /\ UniqueNamesIn(<<>>) /\ Range(<<>>) = {}
BY DEF UniqueNamesIn, Range

LEMMA FileFacts ==
  ASSUME NEW f \in File
  PROVE  /\ f.peers \in Seq(Block)
         /\ f.state \in {"missing", "empty", "torn", "peers"}
         /\ f.state \in {"missing", "empty", "torn"} => f.peers = <<>>
<1>1. CASE f = Missing \/ f = Empty
  <2>1. f.peers = <<>> /\ f.state \in {"missing", "empty"}
    <3>1. CASE f = Missing BY <3>1 DEF Missing
    <3>2. CASE f = Empty BY <3>2 DEF Empty
    <3> QED BY <1>1, <3>1, <3>2
  <2> QED BY <2>1, EmptyList
<1>2. CASE \E r \in Run : f = Torn(r)
  BY <1>2, EmptyList DEF Torn
<1>3. CASE f \in [state : {"peers"}, peers : Seq(Block)]
  BY <1>3
<1> QED BY <1>1, <1>2, <1>3 DEF File

LEMMA NewFiles ==
  /\ Missing \in File /\ Empty \in File
  /\ \A r \in Run : Torn(r) \in File
  /\ \A s \in Seq(Block) : Complete(s) \in File
BY DEF File, Complete

LEMMA CommandFacts ==
  /\ NoCommand \in Command
  /\ \A c \in Command : c.prog = "peerconfgen" => c.peer \in Peer
<1>1. NoCommand \in Command
  BY CommandAssumption DEF NoCommand
<1>2. ASSUME NEW c \in Command, c.prog = "peerconfgen"
      PROVE  c.peer \in Peer
  BY <1>2, CommandAssumption DEF GenerateArgs, RemoveArgs
<1> QED BY <1>1, <1>2

LEMMA TypedInit == Init => Typed
<1> SUFFICES ASSUME Init PROVE Typed
  OBVIOUS
<1>1. TypeOK
  BY NewFiles, EmptyList, CommandFacts DEF Init, TypeOK, Steps
<1>2. AtPrompt
  BY DEF Init, AtPrompt
<1> QED BY <1>1, <1>2 DEF Typed

LEMMA EndTyped ==
  ASSUME Typed, NEW r \in Run, End(r)
  PROVE  /\ pc' \in [Run -> Steps] /\ cmd' \in [Run -> Command] /\ mem' \in [Run -> Seq(Block)]
         /\ committed' = committed /\ pc'[r] = "idle" /\ mem'[r] = <<>>
         /\ \A q \in Run \ {r} : pc'[q] = pc[q] /\ cmd'[q] = cmd[q] /\ mem'[q] = mem[q]
         /\ AtPrompt'
<1>1. /\ pc' = [pc EXCEPT ![r] = "idle"] /\ cmd' = [cmd EXCEPT ![r] = NoCommand]
      /\ mem' = [mem EXCEPT ![r] = <<>>] /\ committed' = committed
  BY DEF End, Goto
<1>2. /\ pc \in [Run -> Steps] /\ cmd \in [Run -> Command] /\ mem \in [Run -> Seq(Block)]
  BY DEF Typed, TypeOK
<1>3. /\ pc' \in [Run -> Steps] /\ cmd' \in [Run -> Command] /\ mem' \in [Run -> Seq(Block)]
  BY <1>1, <1>2, EmptyList, CommandFacts DEF Steps
<1>4. /\ pc'[r] = "idle" /\ mem'[r] = <<>>
      /\ \A q \in Run \ {r} : pc'[q] = pc[q] /\ cmd'[q] = cmd[q] /\ mem'[q] = mem[q]
  BY <1>1, <1>2
<1>5. AtPrompt'
  BY <1>4 DEF Typed, AtPrompt, Generating
<1> QED BY <1>1, <1>3, <1>4, <1>5

(* A run goes on to another step, with the same command.                   *)
LEMMA GotoTyped ==
  ASSUME Typed, NEW r \in Run, NEW step \in Steps, Goto(r, step), cmd' = cmd,
         step = "prompt" => Generating(r)
  PROVE  /\ pc' \in [Run -> Steps] /\ pc'[r] = step
         /\ \A q \in Run \ {r} : pc'[q] = pc[q]
         /\ AtPrompt'
BY DEF Typed, TypeOK, Goto, AtPrompt, Generating

(* What a run that does not go on leaves in memory, and what it loads.     *)
LEMMA LoadFacts ==
  ASSUME Typed, NEW r \in Run, LoadConfig(r), ~Refused(r)
  PROVE  LET list == IF Generating(r) THEN file.peers ELSE Removed(cmd[r], file.peers)
             step == IF Generating(r) THEN "prompt" ELSE "write"
         IN  /\ mem' = [mem EXCEPT ![r] = list] /\ list \in Seq(Block)
             /\ mem' \in [Run -> Seq(Block)] /\ mem'[r] = list
             /\ \A q \in Run \ {r} : mem'[q] = mem[q]
             /\ clean' = clean \cup {r} /\ Goto(r, step) /\ step \in Steps
             /\ UNCHANGED <<committed, cmd, file, book>>
<1> DEFINE list == IF Generating(r) THEN file.peers ELSE Removed(cmd[r], file.peers)
<1>1. file.peers \in Seq(Block) /\ mem \in [Run -> Seq(Block)]
  BY FileFacts DEF Typed, TypeOK
<1>2. list \in Seq(Block)
  BY <1>1, RemovedFacts
<1>3. /\ mem' = [mem EXCEPT ![r] = list] /\ clean' = clean \cup {r}
      /\ Goto(r, IF Generating(r) THEN "prompt" ELSE "write")
      /\ UNCHANGED <<committed, cmd, file, book>>
  BY DEF LoadConfig
<1> HIDE DEF list
<1>4. /\ mem' \in [Run -> Seq(Block)] /\ mem'[r] = list
      /\ \A q \in Run \ {r} : mem'[q] = mem[q]
  BY <1>1, <1>2, <1>3
<1> QED BY <1>2, <1>3, <1>4 DEF list, Steps

LEMMA PromptFacts ==
  ASSUME Typed, NEW r \in Run, Prompt(r), ~Mode(r).dry_run
  PROVE  \E asn \in Asn :
             /\ Updated(cmd[r], asn, mem[r]) \in Seq(Block)
             /\ mem' \in [Run -> Seq(Block)] /\ mem'[r] = Updated(cmd[r], asn, mem[r])
             /\ \A q \in Run \ {r} : mem'[q] = mem[q]
             /\ Goto(r, "write") /\ Generating(r) /\ cmd[r].peer \in Peer
             /\ mem[r] \in Seq(Block) /\ UNCHANGED <<committed, cmd, file, book, clean>>
<1>1. /\ mem \in [Run -> Seq(Block)] /\ mem[r] \in Seq(Block)
      /\ Generating(r) /\ cmd[r] \in Command
  BY DEF Typed, TypeOK, AtPrompt, Prompt
<1>2. cmd[r].peer \in Peer
  BY <1>1, CommandFacts DEF Generating
<1>3. PICK asn \in Asn : mem' = [mem EXCEPT ![r] = Updated(cmd[r], asn, mem[r])]
  BY DEF Prompt
<1>4. Updated(cmd[r], asn, mem[r]) \in Seq(Block)
  BY <1>1, <1>2, UpdatedFacts
<1>5. /\ mem' \in [Run -> Seq(Block)] /\ mem'[r] = Updated(cmd[r], asn, mem[r])
      /\ \A q \in Run \ {r} : mem'[q] = mem[q]
  BY <1>1, <1>3, <1>4
<1> QED BY <1>1, <1>2, <1>4, <1>5 DEF Prompt

LEMMA TypedNext == Typed /\ [Next]_vars => Typed'
<1> SUFFICES ASSUME Typed, [Next]_vars PROVE Typed'
  OBVIOUS
<1>1. /\ file \in File /\ committed \in File /\ pc \in [Run -> Steps] /\ cmd \in [Run -> Command]
      /\ mem \in [Run -> Seq(Block)] /\ book \in Seq(Block) /\ clean \subseteq Run /\ AtPrompt
  BY DEF Typed, TypeOK
<1>2. CASE Commit
  BY <1>1, <1>2 DEF Commit, Typed, TypeOK, AtPrompt, Generating
<1>3. CASE Checkout
  BY <1>1, <1>3, FileFacts DEF Checkout, Publish, Typed, TypeOK, AtPrompt, Generating
<1>4. ASSUME NEW r \in Run, Invoke(r)
      PROVE  Typed'
  <2>1. PICK c \in Command : cmd' = [cmd EXCEPT ![r] = c]
    BY <1>4 DEF Invoke
  <2>2. pc' = [pc EXCEPT ![r] = "open"] /\ UNCHANGED <<file, committed, mem, book, clean>>
    BY <1>4 DEF Invoke, Goto
  <2>3. AtPrompt'
    BY <1>1, <2>1, <2>2 DEF AtPrompt, Generating
  <2> QED BY <1>1, <2>1, <2>2, <2>3 DEF Typed, TypeOK, Steps
<1>5. ASSUME NEW r \in Run, OpenConfig(r)
      PROVE  Typed'
  <2>1. CASE End(r)
    BY <1>1, <1>5, <2>1, EndTyped DEF OpenConfig, Typed, TypeOK
  <2>2. CASE ~End(r)
    <3>1. PICK step \in {"load", "create"} : Goto(r, step) /\ UNCHANGED <<committed, cmd, mem>>
      BY <1>5, <2>2 DEF OpenConfig
    <3>2. pc' \in [Run -> Steps] /\ AtPrompt'
      BY <3>1, GotoTyped DEF Steps
    <3> QED BY <1>1, <1>5, <3>1, <3>2 DEF OpenConfig, Typed, TypeOK
  <2> QED BY <2>1, <2>2
<1>6. ASSUME NEW r \in Run, CreateConfig(r)
      PROVE  Typed'
  <2>1. pc' \in [Run -> Steps] /\ AtPrompt'
    BY <1>6, GotoTyped DEF CreateConfig, Steps
  <2> QED BY <1>1, <1>6, <2>1, NewFiles, EmptyList DEF CreateConfig, Publish, Typed, TypeOK
<1>7. ASSUME NEW r \in Run, LoadConfig(r)
      PROVE  Typed'
  <2>1. CASE Refused(r)
    BY <1>1, <1>7, <2>1, EndTyped DEF LoadConfig, Typed, TypeOK
  <2>2. CASE ~Refused(r)
    <3>1. pc' \in [Run -> Steps] /\ AtPrompt'
      BY <1>7, <2>2, LoadFacts, GotoTyped
    <3> QED BY <1>1, <1>7, <2>2, <3>1, LoadFacts DEF Typed, TypeOK
  <2> QED BY <2>1, <2>2
<1>8. ASSUME NEW r \in Run, Prompt(r)
      PROVE  Typed'
  <2>1. CASE Mode(r).dry_run
    BY <1>1, <1>8, <2>1, EndTyped DEF Prompt, Typed, TypeOK
  <2>2. CASE ~Mode(r).dry_run
    <3>1. /\ mem' \in [Run -> Seq(Block)] /\ Goto(r, "write")
          /\ UNCHANGED <<committed, cmd, file, book, clean>>
      BY <1>8, <2>2, PromptFacts
    <3>2. pc' \in [Run -> Steps] /\ AtPrompt'
      BY <3>1, GotoTyped DEF Steps
    <3> QED BY <1>1, <3>1, <3>2 DEF Typed, TypeOK
  <2> QED BY <2>1, <2>2
<1>9. ASSUME NEW r \in Run, Flush(r)
      PROVE  Typed'
  <2>1. pc' \in [Run -> Steps] /\ AtPrompt'
    BY <1>9, GotoTyped DEF Flush, Steps
  <2> QED BY <1>1, <1>9, <2>1, NewFiles DEF Flush, Typed, TypeOK
<1>10. ASSUME NEW r \in Run, Truncate(r)
       PROVE  Typed'
  <2>1. End(r) /\ mem[r] \in Seq(Block)
    BY <1>1, <1>10 DEF Truncate
  <2>2. file' \in File /\ book' \in Seq(Block) /\ clean' \subseteq Run
    BY <1>1, <1>10, <2>1, NewFiles DEF Truncate, Publish
  <2> QED BY <1>1, <2>1, <2>2, EndTyped DEF Typed, TypeOK
<1>11. ASSUME NEW r \in Run, Kill(r)
       PROVE  Typed'
  BY <1>1, <1>11, EndTyped DEF Kill, Typed, TypeOK
<1>12. CASE UNCHANGED vars
  BY <1>1, <1>12 DEF vars, Typed, TypeOK, AtPrompt, Generating
<1> QED
  BY <1>2, <1>3, <1>4, <1>5, <1>6, <1>7, <1>8, <1>9, <1>10, <1>11, <1>12 DEF Next, RunStep

(* The variables keep their types: a file that parses is a list of blocks, *)
(* whatever runs wrote to it at once.                                      *)
THEOREM Typing == Spec => []Typed
BY TypedInit, TypedNext, PTL DEF Spec

THEOREM TypeCorrect == Spec => []TypeOK
<1>1. Typed => TypeOK
  BY DEF Typed
<1> QED BY <1>1, Typing, PTL

-----------------------------------------------------------------------------
(***************************************************************************)
(* Names are unique in every list there is: in the file, in the history    *)
(* and in the memory of every run.                                         *)
(***************************************************************************)

Unique ==
    /\ UniqueNamesIn(file.peers) /\ UniqueNamesIn(committed.peers)
    /\ \A r \in Run : UniqueNamesIn(mem[r])

LEMMA UniqueInit == Init => Unique
BY EmptyList DEF Init, Unique, Missing

LEMMA UniqueEnd ==
  ASSUME Typed, Unique, NEW r \in Run, End(r)
  PROVE  /\ UniqueNamesIn(committed.peers)'
         /\ \A q \in Run : UniqueNamesIn(mem'[q])
BY EndTyped, EmptyList DEF Unique

LEMMA UniqueNext == Typed /\ Unique /\ [Next]_vars => Unique'
<1> SUFFICES ASSUME Typed, Unique, [Next]_vars PROVE Unique'
  OBVIOUS
<1>1. CASE Commit \/ Checkout
  BY <1>1 DEF Commit, Checkout, Unique
<1>2. ASSUME NEW r \in Run, Invoke(r) \/ Flush(r)
      PROVE  Unique'
  BY <1>2, EmptyList DEF Invoke, Flush, Torn, Unique
<1>3. ASSUME NEW r \in Run, OpenConfig(r)
      PROVE  Unique'
  BY <1>3, UniqueEnd DEF OpenConfig, Unique
<1>4. ASSUME NEW r \in Run, CreateConfig(r)
      PROVE  Unique'
  BY <1>4, EmptyList DEF CreateConfig, Empty, Unique
<1>5. ASSUME NEW r \in Run, LoadConfig(r)
      PROVE  Unique'
  <2>1. CASE Refused(r)
    BY <1>5, <2>1, UniqueEnd DEF LoadConfig, Unique
  <2>2. CASE ~Refused(r)
    <3>1. file.peers \in Seq(Block)
      BY FileFacts DEF Typed, TypeOK
    <3>2. UniqueNamesIn(mem'[r])
      BY <1>5, <2>2, <3>1, LoadFacts, RemovedFacts DEF Unique
    <3> QED BY <1>5, <2>2, <3>2, LoadFacts DEF Unique
  <2> QED BY <2>1, <2>2
<1>6. ASSUME NEW r \in Run, Prompt(r)
      PROVE  Unique'
  <2>1. CASE Mode(r).dry_run
    BY <1>6, <2>1, UniqueEnd DEF Prompt, Unique
  <2>2. CASE ~Mode(r).dry_run
    <3>1. UniqueNamesIn(mem'[r])
      BY <1>6, <2>2, PromptFacts, UpdatedFacts DEF Unique
    <3> QED BY <1>6, <2>2, <3>1, PromptFacts DEF Unique
  <2> QED BY <2>1, <2>2
<1>7. ASSUME NEW r \in Run, Truncate(r)
      PROVE  Unique'
  <2>1. End(r)
    BY <1>7 DEF Truncate
  <2>2. UniqueNamesIn(file'.peers)
    BY <1>7, EmptyList DEF Truncate, Complete, Torn, Unique
  <2> QED BY <2>1, <2>2, UniqueEnd DEF Unique
<1>8. ASSUME NEW r \in Run, Kill(r)
      PROVE  Unique'
  BY <1>8, UniqueEnd DEF Kill, Unique
<1>9. CASE UNCHANGED vars
  BY <1>9 DEF vars, Unique
<1> QED
  BY <1>1, <1>2, <1>3, <1>4, <1>5, <1>6, <1>7, <1>8, <1>9 DEF Next, RunStep

(* No two blocks of the file have one interface name, whatever runs        *)
(* overlap and wherever they end.                                          *)
THEOREM NamesStayUnique == Spec => []UniqueNames
<1>1. Unique => UniqueNames
  BY DEF Unique, UniqueNames
<1> QED BY <1>1, Typing, UniqueInit, UniqueNext, PTL DEF Spec

-----------------------------------------------------------------------------
(***************************************************************************)
(* What the runs that loaded the list of the file hold in memory: that     *)
(* list, or what they were told to make of it.  A run that loaded an older *)
(* one holds anything.                                                     *)
(***************************************************************************)

(* A file that is not torn has the list that was last in it in full.       *)
InBook ==
    /\ file.state # "torn" => file.peers = book
    /\ UniqueNamesIn(book)
    /\ committed.state # "torn"

Works(c, list, m, step) ==
    /\ step \in {"prompt", "write", "truncate"} /\ c.prog = "peerconfgen" =>
          c.replace \/ Positions(c, list) = {}
    /\ step = "prompt" => m = list
    /\ step \in {"write", "truncate"} =>
          IF c.prog = "peerconfgen" THEN \E asn \in Asn : m = Updated(c, asn, list)
                                    ELSE m = Removed(c, list)

Held == InBook /\ \A r \in clean : Works(cmd[r], book, mem[r], pc[r])

LEMMA HeldInit == Init => Held
BY EmptyList DEF Init, Held, InBook, Missing

LEMMA HeldEnd ==
  ASSUME Typed, Held, NEW r \in Run, End(r), UNCHANGED <<file, book, clean>>
  PROVE  Held'
<1>1. pc'[r] = "idle" /\ committed' = committed
      /\ \A q \in Run \ {r} : pc'[q] = pc[q] /\ cmd'[q] = cmd[q] /\ mem'[q] = mem[q]
  BY EndTyped
<1>2. Works(cmd'[r], book, mem'[r], pc'[r])
  BY <1>1 DEF Works
<1>3. \A q \in clean : Works(cmd'[q], book, mem'[q], pc'[q])
  BY <1>1, <1>2 DEF Held, Typed, TypeOK
<1> QED BY <1>1, <1>3 DEF Held, InBook

LEMMA HeldNext == Typed /\ Unique /\ Held /\ [Next]_vars => Held'
<1> SUFFICES ASSUME Typed, Unique, Held, [Next]_vars PROVE Held'
  OBVIOUS
<1>1. /\ pc \in [Run -> Steps] /\ cmd \in [Run -> Command] /\ mem \in [Run -> Seq(Block)]
      /\ clean \subseteq Run /\ InBook
  BY DEF Typed, TypeOK, Held
<1>2. CASE Commit
  BY <1>1, <1>2 DEF Commit, Held, InBook
<1>3. CASE Checkout
  BY <1>1, <1>3 DEF Checkout, Publish, Held, InBook, Unique
<1>4. ASSUME NEW r \in Run, Invoke(r) \/ (OpenConfig(r) /\ ~End(r)) \/ Flush(r)
      PROVE  Held'
  <2>1. /\ \A q \in Run \ {r} : pc'[q] = pc[q] /\ cmd'[q] = cmd[q] /\ mem'[q] = mem[q]
        /\ UNCHANGED <<book, clean, committed>> /\ mem'[r] = mem[r]
    BY <1>1, <1>4 DEF Invoke, OpenConfig, Flush, Goto
  <2>2. InBook'
    BY <1>1, <1>4, <2>1 DEF Invoke, OpenConfig, Flush, Torn, InBook
  <2>3. r \in clean => Works(cmd'[r], book, mem'[r], pc'[r])
    <3>1. CASE Flush(r)
      BY <1>1, <2>1, <3>1 DEF Flush, Goto, Held, Works
    <3>2. CASE ~Flush(r)
      <4>1. pc'[r] \in {"open", "load", "create"}
        BY <1>1, <1>4, <3>2 DEF Invoke, OpenConfig, Goto
      <4> QED BY <4>1 DEF Works
    <3> QED BY <3>1, <3>2
  <2>4. \A q \in clean : Works(cmd'[q], book, mem'[q], pc'[q])
    BY <1>1, <2>1, <2>3 DEF Held
  <2> QED BY <2>1, <2>2, <2>4 DEF Held
<1>5. ASSUME NEW r \in Run, CreateConfig(r)
      PROVE  Held'
  BY <1>1, <1>5, EmptyList DEF CreateConfig, Publish, Empty, Held, InBook
<1>6. ASSUME NEW r \in Run, LoadConfig(r), ~Refused(r)
      PROVE  Held'
  <2>1. file.peers = book
    BY <1>1, <1>6 DEF Refused, InBook
  <2>2. /\ mem'[r] = IF Generating(r) THEN book ELSE Removed(cmd[r], book)
        /\ \A q \in Run \ {r} : mem'[q] = mem[q]
        /\ clean' = clean \cup {r} /\ UNCHANGED <<committed, cmd, file, book>>
        /\ pc' = [pc EXCEPT ![r] = IF Generating(r) THEN "prompt" ELSE "write"]
    BY <1>6, <2>1, LoadFacts DEF Goto
  <2>3. Works(cmd[r], book, mem'[r], pc'[r])
    <3>1. CASE Generating(r)
      <4>1. cmd[r].replace \/ Positions(cmd[r], book) = {}
        BY <1>6, <2>1, <3>1 DEF Refused, Mode
      <4>2. pc'[r] = "prompt" /\ mem'[r] = book
        BY <1>1, <2>2, <3>1
      <4> QED BY <4>1, <4>2 DEF Works
    <3>2. CASE ~Generating(r)
      <4>1. pc'[r] = "write" /\ mem'[r] = Removed(cmd[r], book)
        BY <1>1, <2>2, <3>2
      <4> QED BY <3>2, <4>1 DEF Works, Generating
    <3> QED BY <3>1, <3>2
  <2>4. \A q \in clean \ {r} : pc'[q] = pc[q] /\ mem'[q] = mem[q]
    BY <1>1, <2>2
  <2>5. \A q \in clean' : Works(cmd'[q], book', mem'[q], pc'[q])
    BY <2>2, <2>3, <2>4 DEF Held
  <2> QED BY <1>1, <2>2, <2>5 DEF Held, InBook
<1>7. ASSUME NEW r \in Run, Prompt(r), ~Mode(r).dry_run
      PROVE  Held'
  <2>1. PICK asn \in Asn :
           /\ mem'[r] = Updated(cmd[r], asn, mem[r])
           /\ \A q \in Run \ {r} : mem'[q] = mem[q]
           /\ Goto(r, "write") /\ Generating(r)
           /\ UNCHANGED <<committed, cmd, file, book, clean>>
    BY <1>7, PromptFacts
  <2>2. pc'[r] = "write" /\ pc[r] = "prompt" /\ \A q \in Run \ {r} : pc'[q] = pc[q]
    BY <1>1, <1>7, <2>1 DEF Goto, Prompt
  <2>3. r \in clean => Works(cmd[r], book, mem'[r], pc'[r])
    <3> HAVE r \in clean
    <3>1. Works(cmd[r], book, mem[r], "prompt")
      BY <2>2 DEF Held
    <3> QED BY <2>1, <2>2, <3>1 DEF Works, Generating
  <2>4. \A q \in clean : Works(cmd'[q], book', mem'[q], pc'[q])
    BY <1>1, <2>1, <2>2, <2>3 DEF Held
  <2> QED BY <1>1, <2>1, <2>4 DEF Held, InBook
<1>8. ASSUME NEW r \in Run, Truncate(r)
      PROVE  Held'
  <2>1. End(r)
    BY <1>8 DEF Truncate
  <2>2. CASE file' = Complete(mem[r]) /\ Publish(mem[r])
    BY <1>1, <2>1, <2>2, EndTyped DEF Publish, Complete, Held, InBook, Unique
  <2>3. CASE file' \in {file, Torn(r)} /\ UNCHANGED <<book, clean>>
    <3>1. CASE file' = file
      BY <2>1, <2>3, <3>1, HeldEnd
    <3>2. CASE file' = Torn(r)
      <4>1. file'.state = "torn"
        BY <3>2 DEF Torn
      <4>2. pc'[r] = "idle" /\ committed' = committed
            /\ \A q \in Run \ {r} : pc'[q] = pc[q] /\ cmd'[q] = cmd[q] /\ mem'[q] = mem[q]
        BY <2>1, EndTyped
      <4>3. Works(cmd'[r], book, mem'[r], pc'[r])
        BY <4>2 DEF Works
      <4>4. \A q \in clean : Works(cmd'[q], book, mem'[q], pc'[q])
        BY <1>1, <4>2, <4>3 DEF Held
      <4> QED BY <1>1, <2>3, <4>1, <4>2, <4>4 DEF Held, InBook
    <3> QED BY <2>3, <3>1, <3>2
  <2> QED BY <1>8, <2>2, <2>3 DEF Truncate
<1>9. ASSUME NEW r \in Run, End(r), UNCHANGED <<file, book, clean>>
      PROVE  Held'
  BY <1>9, HeldEnd
<1>10. CASE UNCHANGED vars
  BY <1>10 DEF vars, Held, InBook
<1>11. ASSUME NEW r \in Run, RunStep(r) \/ Kill(r)
       PROVE  Held'
  <2>1. CASE OpenConfig(r)
    BY <1>4, <1>9, <2>1 DEF OpenConfig
  <2>2. CASE LoadConfig(r)
    BY <1>6, <1>9, <2>2 DEF LoadConfig
  <2>3. CASE Prompt(r)
    BY <1>7, <1>9, <2>3 DEF Prompt
  <2>4. CASE Kill(r)
    BY <1>9, <2>4 DEF Kill
  <2> QED BY <1>4, <1>5, <1>8, <1>11, <2>1, <2>2, <2>3, <2>4 DEF RunStep
<1>12. \A r \in Run : Invoke(r) \/ RunStep(r) \/ Kill(r) => Held'
  BY <1>4, <1>11
<1> QED BY <1>2, <1>3, <1>10, <1>12 DEF Next

Inv == Typed /\ Unique /\ Held

THEOREM Invariance == Spec => []Inv
<1>1. Init => Inv
  BY TypedInit, UniqueInit, HeldInit DEF Inv
<1>2. Inv /\ [Next]_vars => Inv'
  BY TypedNext, UniqueNext, HeldNext DEF Inv
<1> QED BY <1>1, <1>2, PTL DEF Spec

-----------------------------------------------------------------------------
(***************************************************************************)
(* What leaves the file.                                                   *)
(***************************************************************************)

(* The list that a run which works from the list of the file writes.       *)
LEMMA Written ==
  ASSUME Inv, NEW r \in clean, Truncate(r), book' # book
  PROVE  /\ book' = mem[r] /\ book \in Seq(Block) /\ UniqueNamesIn(book)
         /\ Generating(r) =>
               /\ cmd[r].peer \in Peer
               /\ cmd[r].replace \/ Positions(cmd[r], book) = {}
               /\ \E asn \in Asn : mem[r] = Updated(cmd[r], asn, book)
         /\ ~Generating(r) => mem[r] = Removed(cmd[r], book)
<1>1. book' = mem[r] /\ pc[r] \in {"write", "truncate"}
  BY DEF Truncate, Publish
<1>2. book \in Seq(Block) /\ UniqueNamesIn(book) /\ Works(cmd[r], book, mem[r], pc[r])
  BY DEF Inv, Typed, TypeOK, Held, InBook
<1>3. cmd[r] \in Command
  BY DEF Inv, Typed, TypeOK
<1> QED BY <1>1, <1>2, <1>3, CommandFacts DEF Works, Generating

(* A run that works from the list of the file makes no block leave it that *)
(* it was not told to replace or to remove.                                *)
THEOREM AlwaysLeavesOnlyIfTold == Spec => LeavesOnlyIfTold
<1>1. Inv => \A r \in clean : Truncate(r) => \A b \in Gone : Told(r, b)
  <2> SUFFICES ASSUME Inv, NEW r \in clean, Truncate(r), NEW b \in Gone
               PROVE  Told(r, b)
    OBVIOUS
  <2>1. b \in Range(book) /\ b \notin Range(book') /\ book' # book
    BY DEF Gone
  <2>2. CASE Generating(r)
    <3>1. PICK asn \in Asn : book' = Updated(cmd[r], asn, book)
      BY <2>1, <2>2, Written
    <3>2. /\ cmd[r].peer \in Peer /\ book \in Seq(Block)
          /\ cmd[r].replace \/ Positions(cmd[r], book) = {}
      BY <2>1, <2>2, Written
    <3>3. b.name = Iface[cmd[r].peer] /\ Positions(cmd[r], book) # {}
      BY <2>1, <3>1, <3>2, UpdatedFacts
    <3> QED BY <2>2, <3>2, <3>3 DEF Told, Mode
  <2>3. CASE ~Generating(r)
    <3>1. book' = Removed(cmd[r], book) /\ book \in Seq(Block)
      BY <2>1, <2>3, Written
    <3> QED BY <2>1, <2>3, <3>1, RemovedFacts DEF Told
  <2> QED BY <2>2, <2>3
<1> QED BY <1>1, Invariance, PTL DEF LeavesOnlyIfTold

(* A block that matches is gone after remove_peer unless the block before  *)
(* it matches too.                                                         *)
THEOREM AlwaysRemovesLoneMatches == Spec => RemovesLoneMatches
<1>1. Inv => \A r \in clean : Stored(r) =>
          \A i \in DOMAIN book :
             (Matches(cmd[r], book[i]) /\ (i > 1 => ~Matches(cmd[r], book[i - 1])))
                => book[i] \in Gone
  <2> SUFFICES ASSUME Inv, NEW r \in clean, Stored(r), NEW i \in DOMAIN book,
                      Matches(cmd[r], book[i]), i > 1 => ~Matches(cmd[r], book[i - 1])
               PROVE  book[i] \in Gone
    OBVIOUS
  <2>1. ~Generating(r) /\ Truncate(r) /\ book' = mem[r]
    BY DEF Stored
  <2>2. book \in Seq(Block) /\ UniqueNamesIn(book) /\ Works(cmd[r], book, mem[r], pc[r])
    BY DEF Inv, Typed, TypeOK, Held, InBook
  <2>3. book' = Removed(cmd[r], book)
    BY <2>1, <2>2 DEF Truncate, Works, Generating
  <2>4. i \in Lone(cmd[r], book)
    BY DEF Lone
  <2>5. book[i] \notin Range(book')
    BY <2>2, <2>3, <2>4, RemovedFacts
  <2> QED BY <2>5 DEF Gone, Range
<1> QED BY <1>1, Invariance, PTL DEF RemovesLoneMatches

-----------------------------------------------------------------------------
(***************************************************************************)
(* When no script is started while another one is under way, what the      *)
(* README says of --replace is true: every run works from the list that is *)
(* in the file.                                                            *)
(***************************************************************************)

Alone ==
    /\ \A q, r \in Run : pc[q] # "idle" /\ pc[r] # "idle" => q = r
    /\ \A r \in Run : pc[r] \in {"prompt", "write", "truncate"} => r \in clean

LEMMA AloneInit == Init => Alone
BY DEF Init, Alone

LEMMA AloneEnd ==
  ASSUME Typed, Alone, NEW r \in Run, End(r), pc[r] # "idle"
  PROVE  Alone'
<1>1. pc'[r] = "idle" /\ \A q \in Run \ {r} : pc'[q] = pc[q]
  BY EndTyped
<1>2. \A q \in Run \ {r} : pc[q] = "idle"
  BY DEF Alone
<1>3. \A q \in Run : pc'[q] = "idle"
  BY <1>1, <1>2
<1> QED BY <1>3 DEF Alone

LEMMA AloneGoto ==
  ASSUME Typed, Alone, NEW r \in Run, pc[r] # "idle", NEW step, pc' = [pc EXCEPT ![r] = step],
         step \in {"prompt", "write", "truncate"} => r \in clean'
  PROVE  Alone'
<1>1. pc'[r] = step /\ \A q \in Run \ {r} : pc'[q] = pc[q]
  BY DEF Typed, TypeOK
<1>2. \A q \in Run \ {r} : pc[q] = "idle"
  BY DEF Alone
<1> QED BY <1>1, <1>2 DEF Alone

LEMMA AloneNext == ~Overlap /\ Typed /\ Alone /\ [Next]_vars => Alone'
<1> SUFFICES ASSUME ~Overlap, Typed, Alone, [Next]_vars PROVE Alone'
  OBVIOUS
<1>1. CASE Commit
  BY <1>1 DEF Commit, Alone
<1>2. CASE Checkout
  BY <1>2 DEF Checkout, Alone
<1>3. ASSUME NEW r \in Run, Invoke(r)
      PROVE  Alone'
  <2>1. \A q \in Run \ {r} : pc[q] = "idle"
    BY <1>3 DEF Invoke
  <2>2. pc'[r] = "open" /\ \A q \in Run \ {r} : pc'[q] = pc[q]
    BY <1>3 DEF Invoke, Goto, Typed, TypeOK
  <2> QED BY <2>1, <2>2 DEF Alone
<1>4. ASSUME NEW r \in Run, RunStep(r) \/ Kill(r)
      PROVE  Alone'
  <2>1. pc[r] # "idle"
    BY <1>4 DEF RunStep, OpenConfig, CreateConfig, LoadConfig, Prompt, Flush, Truncate, Kill
  <2>2. CASE End(r)
    BY <2>1, <2>2, AloneEnd
  <2>3. CASE ~End(r)
    <3>1. CASE OpenConfig(r) \/ CreateConfig(r)
      BY <2>1, <2>3, <3>1, AloneGoto DEF OpenConfig, CreateConfig, Goto
    <3>2. CASE LoadConfig(r)
      BY <2>1, <2>3, <3>2, AloneGoto DEF LoadConfig, Goto
    <3>3. CASE Prompt(r)
      <4>1. pc[r] = "prompt" /\ clean' = clean /\ pc' = [pc EXCEPT ![r] = "write"]
        BY <2>3, <3>3 DEF Prompt, Goto
      <4>2. r \in clean'
        BY <4>1 DEF Alone
      <4> QED BY <2>1, <4>1, <4>2, AloneGoto
    <3>4. CASE Flush(r)
      <4>1. pc[r] = "write" /\ clean' = clean /\ pc' = [pc EXCEPT ![r] = "truncate"]
        BY <3>4 DEF Flush, Goto
      <4>2. r \in clean'
        BY <4>1 DEF Alone
      <4> QED BY <2>1, <4>1, <4>2, AloneGoto
    <3> QED BY <1>4, <2>3, <3>1, <3>2, <3>3, <3>4 DEF RunStep, Truncate, Kill
  <2> QED BY <2>2, <2>3
<1>5. CASE UNCHANGED vars
  BY <1>5 DEF vars, Alone
<1> QED BY <1>1, <1>2, <1>3, <1>4, <1>5 DEF Next

(* Without overlapping runs, one without --replace writes a list that has  *)
(* every block the file had.                                               *)
THEOREM OnlyReplaceOverwritesAlone ==
  ASSUME ~Overlap
  PROVE  Spec => OnlyReplaceOverwrites
<1>1. Inv /\ Alone => \A r \in Run : Truncate(r) /\ Generating(r) /\ ~Mode(r).replace => Gone = {}
  <2> SUFFICES ASSUME Inv, Alone, NEW r \in Run, Truncate(r), Generating(r), ~Mode(r).replace
               PROVE  Gone = {}
    OBVIOUS
  <2>1. CASE book' = book
    BY <2>1 DEF Gone
  <2>2. CASE book' # book
    <3>1. r \in clean
      BY DEF Truncate, Alone
    <3>2. /\ cmd[r].peer \in Peer /\ book \in Seq(Block)
          /\ Positions(cmd[r], book) = {}
      BY <2>2, <3>1, Written DEF Mode
    <3>3. PICK asn \in Asn : book' = Updated(cmd[r], asn, book)
      BY <2>2, <3>1, Written
    <3> QED BY <3>2, <3>3, UpdatedFacts DEF Gone
  <2> QED BY <2>1, <2>2
<1>2. Inv => Typed
  BY DEF Inv
<1>3. Spec => []Alone
  BY <1>2, Invariance, AloneInit, AloneNext, PTL DEF Spec
<1> QED BY <1>1, <1>3, Invariance, PTL DEF OnlyReplaceOverwrites

-----------------------------------------------------------------------------
(***************************************************************************)
(* The file and its programs implement a book of blocks that each request  *)
(* changes at once or not at all: PeerBook.                                *)
(***************************************************************************)

(* The requests change with the steps of the runs that begin and end.      *)
LEMMA PendingEnds ==
  ASSUME Typed, NEW r \in Run, pc[r] # "idle", End(r)
  PROVE  Pending[r] = {Request(cmd[r])} /\ Pending' = [Pending EXCEPT ![r] = {}]
<1>1. /\ pc' = [pc EXCEPT ![r] = "idle"] /\ pc \in [Run -> Steps]
      /\ cmd' = [cmd EXCEPT ![r] = NoCommand] /\ cmd \in [Run -> Command]
  BY DEF End, Goto, Typed, TypeOK
<1>2. pc'[r] = "idle" /\ \A q \in Run \ {r} : pc'[q] = pc[q] /\ cmd'[q] = cmd[q]
  BY <1>1
<1>3. \A q \in Run : Pending'[q] = IF q = r THEN {} ELSE Pending[q]
  BY <1>2 DEF Pending
<1> QED BY <1>3 DEF Pending

LEMMA PendingBegins ==
  ASSUME Typed, NEW r \in Run, Invoke(r)
  PROVE  /\ Pending[r] = {}
         /\ \E c \in Command : Pending' = [Pending EXCEPT ![r] = {Request(c)}]
<1>1. PICK c \in Command : cmd' = [cmd EXCEPT ![r] = c]
  BY DEF Invoke
<1>2. /\ pc' = [pc EXCEPT ![r] = "open"] /\ pc \in [Run -> Steps] /\ pc[r] = "idle"
      /\ cmd \in [Run -> Command]
  BY DEF Invoke, Goto, Typed, TypeOK
<1>3. /\ pc'[r] = "open" /\ cmd'[r] = c
      /\ \A q \in Run \ {r} : pc'[q] = pc[q] /\ cmd'[q] = cmd[q]
  BY <1>1, <1>2
<1>4. \A q \in Run : Pending'[q] = IF q = r THEN {Request(c)} ELSE Pending[q]
  BY <1>3 DEF Pending
<1>5. Pending' = [Pending EXCEPT ![r] = {Request(c)}]
  BY <1>4 DEF Pending
<1> QED BY <1>2, <1>5 DEF Pending

LEMMA PendingStays ==
  ASSUME Typed, NEW r \in Run, pc[r] # "idle", NEW step, step # "idle",
         Goto(r, step), cmd' = cmd
  PROVE  Pending' = Pending
<1>1. pc'[r] # "idle" /\ \A q \in Run \ {r} : pc'[q] = pc[q]
  BY DEF Goto, Typed, TypeOK
<1>2. \A q \in Run : Pending'[q] = Pending[q]
  BY <1>1 DEF Pending
<1> QED BY <1>2 DEF Pending

LEMMA EndGivesUp ==
  ASSUME Typed, NEW r \in Run, pc[r] # "idle", End(r), book' = book
  PROVE  Book!GiveUp(r)
<1>1. Pending[r] # {} /\ Pending' = [Pending EXCEPT ![r] = {}]
  BY PendingEnds
<1>2. UNCHANGED committed
  BY DEF End
<1> QED BY <1>1, <1>2 DEF Book!GiveUp, Book!Done

LEMMA CommitSaves == Inv /\ Commit => Book!Save
<1> SUFFICES ASSUME Inv, Commit PROVE Book!Save
  OBVIOUS
<1>1. committed' = file /\ file.peers = book /\ book' = book /\ pc' = pc /\ cmd' = cmd
  BY DEF Inv, Held, InBook, Commit
<1>2. Pending' = Pending
  BY <1>1 DEF Pending
<1> QED BY <1>1, <1>2 DEF Book!Save

LEMMA CheckoutRestores == Checkout => Book!Restore
<1> SUFFICES ASSUME Checkout PROVE Book!Restore
  OBVIOUS
<1>1. /\ book' = committed.peers /\ committed' = committed /\ pc' = pc /\ cmd' = cmd
      /\ \A r \in Run : pc[r] = "idle"
  BY DEF Checkout, Publish
<1>2. Pending' = Pending /\ \A r \in Run : Pending[r] = {}
  BY <1>1 DEF Pending
<1> QED BY <1>1, <1>2 DEF Book!Restore

(* What a run writes that works from the list in the file.                 *)
LEMMA WritesBook ==
  ASSUME Inv, NEW r \in clean, Truncate(r), book' # book
  PROVE  Book!Put(r) \/ Book!Remove(r)
<1>1. /\ book' = mem[r] /\ book \in Seq(Block) /\ UniqueNamesIn(book)
      /\ r \in Run /\ cmd[r] \in Command
  BY Written DEF Inv, Typed, TypeOK
<1> DEFINE c == cmd[r]
           q == Request(c)
<1>2. Pending[r] = {q} /\ Book!Done(r)
  <2>1. pc[r] # "idle" /\ End(r) /\ UNCHANGED committed
    BY DEF Truncate, End
  <2> QED BY <1>1, <2>1, PendingEnds DEF Inv, Book!Done
<1> HIDE DEF q
<1>3. CASE Generating(r)
  <2> DEFINE own == {b \in Block : b.name = Iface[c.peer]}
             block(asn) == [name |-> Iface[c.peer], asn |-> asn]
  <2>1. c.peer \in Peer /\ (c.replace \/ Positions(c, book) = {})
    BY <1>3, Written
  <2>2. PICK asn \in Asn : book' = Updated(c, asn, book)
    BY <1>3, Written
  <2>3. block(asn) \in Block /\ block(asn).name = Iface[c.peer]
    BY <2>1 DEF Block, Ifaces
  <2>4. Range(book') = {b \in Range(book) : b.name # block(asn).name} \cup {block(asn)}
    BY <1>1, <2>1, <2>2, UpdatedFacts
  <2> DEFINE new == block(asn)
             named == {b \in Range(book) : b.name = new.name}
  <2> HIDE DEF block
  <2>5. q.adds = own /\ q.removes = IF c.replace THEN own ELSE {}
    BY <1>3 DEF q, Request, Generating
  <2>6. new \in q.adds
    BY <2>3, <2>5
  <2>7. named \subseteq q.removes
    <3> SUFFICES ASSUME NEW b \in Range(book), b.name = new.name
                 PROVE  b \in q.removes
      OBVIOUS
    <3>1. b \in own
      BY <1>1, <2>3 DEF Range
    <3>2. Positions(c, book) # {}
      BY <2>3 DEF Positions, Range
    <3> QED BY <2>1, <2>5, <3>1, <3>2
  <2>8. Range(book') = (Range(book) \ named) \cup {new}
    BY <2>4
  <2> HIDE DEF new, own
  <2>9. Book!Put(r)
    BY <1>2, <2>6, <2>7, <2>8 DEF Book!Put, Book!Named
  <2> QED BY <2>9
<1>4. CASE ~Generating(r)
  <2>1. book' = Removed(c, book)
    BY <1>1, <1>4, Written
  <2>2. Range(book) \subseteq Block
    BY <1>1 DEF Range
  <2>3. /\ Range(book') \subseteq Range(book)
        /\ \A b \in Range(book) \ Range(book') : Matches(c, b)
    BY <1>1, <2>1, RemovedFacts
  <2>4. q.adds = {} /\ q.removes = {b \in Block : Matches(c, b)}
    BY <1>4 DEF q, Request, Generating
  <2>5. Range(book) \ Range(book') \subseteq q.removes
    BY <2>2, <2>3, <2>4
  <2>6. Book!Remove(r)
    BY <1>2, <2>3, <2>4, <2>5 DEF Book!Remove
  <2> QED BY <2>6
<1> QED BY <1>3, <1>4

LEMMA StepOfBook ==
  ASSUME Inv, [Next]_vars, \A r \in Run : ~Stale(r)
  PROVE  [Book!BookNext]_(Book!bookVars)
<1>1. CASE UNCHANGED vars
  BY <1>1 DEF vars, Pending, Book!bookVars
<1>2. CASE Commit
  BY <1>2, CommitSaves DEF Book!BookNext
<1>3. CASE Checkout
  BY <1>3, CheckoutRestores DEF Book!BookNext
<1>4. Typed
  BY DEF Inv
<1>5. ASSUME NEW r \in Run, Invoke(r)
      PROVE  Book!BookNext
  <2>1. PICK c \in Command : Pending' = [Pending EXCEPT ![r] = {Request(c)}]
    BY <1>4, <1>5, PendingBegins
  <2>2. Pending[r] = {} /\ Request(c) \in {Request(d) : d \in Command}
    BY <1>4, <1>5, PendingBegins
  <2>3. UNCHANGED <<book, committed>>
    BY <1>5 DEF Invoke
  <2>4. Book!Ask(r)
    BY <2>1, <2>2, <2>3 DEF Book!Ask
  <2> QED BY <2>4 DEF Book!BookNext
<1>6. ASSUME NEW r \in Run, RunStep(r) \/ Kill(r)
      PROVE  [Book!BookNext]_(Book!bookVars)
  <2>1. pc[r] # "idle"
    BY <1>6 DEF RunStep, OpenConfig, CreateConfig, LoadConfig, Prompt, Flush, Truncate, Kill
  <2>2. book' = book \/ (Truncate(r) /\ book' # book)
    <3>1. CASE CreateConfig(r)
      <4>1. file.state = "missing" /\ book' = <<>>
        BY <3>1 DEF Stale, CreateConfig, Publish
      <4>2. file.peers = <<>> /\ file.peers = book
        BY <4>1, FileFacts DEF Inv, Typed, TypeOK, Held, InBook
      <4> QED BY <4>1, <4>2
    <3>2. CASE ~CreateConfig(r) /\ ~Truncate(r)
      BY <1>6, <3>2 DEF RunStep, OpenConfig, LoadConfig, Prompt, Flush, Kill
    <3> QED BY <3>1, <3>2
  <2>3. CASE Truncate(r) /\ book' # book
    BY <2>3, WritesBook DEF Stale, Book!BookNext
  <2>4. CASE End(r) /\ book' = book
    BY <1>4, <2>1, <2>4, EndGivesUp DEF Book!BookNext
  <2>5. CASE ~End(r) /\ book' = book
    <3>1. committed' = committed /\ cmd' = cmd
      BY <1>6, <2>5 DEF RunStep, OpenConfig, CreateConfig, LoadConfig, Prompt, Flush, Truncate, Kill
    <3>2. PICK step : Goto(r, step) /\ step # "idle"
      BY <1>6, <2>5 DEF RunStep, OpenConfig, CreateConfig, LoadConfig, Prompt, Flush, Truncate, Kill
    <3>3. Pending' = Pending
      BY <1>4, <2>1, <3>1, <3>2, PendingStays
    <3> QED BY <2>5, <3>1, <3>3 DEF Book!bookVars
  <2> QED BY <2>2, <2>3, <2>4, <2>5
<1> QED BY <1>1, <1>2, <1>3, <1>5, <1>6 DEF Next

(* However runs overlap: every change of the list but by a run that is late *)
(* is one step of the book.                                                *)
THEOREM AlwaysStepsOfBook == Spec => StepsOfBook
<1>1. Inv /\ [Next]_vars =>
         [\/ UNCHANGED <<book, committed>>
          \/ \E r \in Run : Stale(r)
          \/ [Book!BookNext]_(Book!bookVars)]_vars
  BY StepOfBook
<1> QED BY <1>1, Invariance, PTL DEF Spec, StepsOfBook

(* A run that is about to create the file does so where there is none.     *)
Fresh == \A r \in Run : pc[r] = "create" => file.state = "missing"

LEMMA FreshNext == Typed /\ Alone /\ Fresh /\ [Next]_vars => Fresh'
<1> SUFFICES ASSUME Typed, Alone, Fresh, [Next]_vars PROVE Fresh'
  OBVIOUS
<1>1. CASE Commit
  BY <1>1 DEF Commit, Fresh
<1>2. CASE Checkout
  BY <1>2 DEF Checkout, Fresh
<1>3. ASSUME NEW r \in Run, Invoke(r)
      PROVE  Fresh'
  BY <1>3 DEF Invoke, Goto, Fresh, Typed, TypeOK
<1>4. ASSUME NEW r \in Run, RunStep(r) \/ Kill(r)
      PROVE  Fresh'
  <2>1. pc[r] # "idle"
    BY <1>4 DEF RunStep, OpenConfig, CreateConfig, LoadConfig, Prompt, Flush, Truncate, Kill
  <2>2. \A q \in Run \ {r} : pc[q] = "idle"
    BY <2>1 DEF Alone
  <2>3. PICK step : pc' = [pc EXCEPT ![r] = step] /\ (step = "create" => OpenConfig(r) /\ file.state = "missing")
    BY <1>4 DEF RunStep, OpenConfig, CreateConfig, LoadConfig, Prompt, Flush, Truncate, Kill, Goto, End
  <2>4. pc'[r] = step /\ \A q \in Run \ {r} : pc'[q] = "idle"
    BY <2>2, <2>3 DEF Typed, TypeOK
  <2>5. OpenConfig(r) => file' = file
    BY DEF OpenConfig
  <2> QED BY <2>3, <2>4, <2>5 DEF Fresh
<1>5. CASE UNCHANGED vars
  BY <1>5 DEF vars, Fresh
<1> QED BY <1>1, <1>2, <1>3, <1>4, <1>5 DEF Next

(* Without overlapping runs, the file implements the book: what a run does *)
(* in many steps, in which it may be killed and its file torn and          *)
(* restored, is one change of the book that a command asks for, or none.   *)
THEOREM BookImplementedAlone ==
  ASSUME ~Overlap
  PROVE  Spec => ImplementsBook
<1>1. Init => Book!BookInit
  BY EmptyList DEF Init, Missing, Pending, Book!BookInit
<1>2. Alone /\ Fresh => \A r \in Run : ~Stale(r)
  BY DEF Alone, Fresh, Stale, Truncate, CreateConfig
<1>3. Inv /\ Alone /\ Fresh /\ [Next]_vars => [Book!BookNext]_(Book!bookVars)
  BY <1>2, StepOfBook
<1>4. Inv => Typed
  BY DEF Inv
<1>5. Spec => []Alone
  BY <1>4, Invariance, AloneInit, AloneNext, PTL DEF Spec
<1>6. Init => Fresh
  BY DEF Init, Fresh
<1>7. Spec => []Fresh
  BY <1>4, <1>5, <1>6, Invariance, FreshNext, PTL DEF Spec
<1> QED BY <1>1, <1>3, <1>5, <1>7, Invariance, PTL DEF Spec, ImplementsBook, Book!BookSpec
=============================================================================
