----------------------------- MODULE PeerStore ------------------------------
(***************************************************************************)
(* One router's peer file and the scripts that rewrite it: peerconfgen.py, *)
(* which reads the file, asks its questions for minutes, and then writes   *)
(* the whole list back, and remove_peer (peerconfrm.py, autoprune.py).     *)
(* Neither takes a lock; a run may end anywhere: a question is answered    *)
(* with an abort, an exception ends the script, or it is killed.           *)
(***************************************************************************)
EXTENDS PeerConfig

CONSTANTS
    Run,         \* the invocations that may be under way at once
    Command,     \* the command lines the operator uses
    Overlap      \* may a script be started while another one is under way?

ASSUME CommandAssumption == Command # {} /\ Command \subseteq GenerateArgs \cup RemoveArgs
ASSUME OverlapAssumption == Overlap \in BOOLEAN

VARIABLES
    file,        \* the file in the work tree
    committed,   \* the file in the git history
    pc,          \* pc[r]: the next step of run r, or "idle"
    cmd,         \* cmd[r]: its command line
    mem,         \* mem[r]: the list it holds in memory
    book,        \* history: the last list that was in the file in full
    clean        \* history: the runs that loaded it, and not an older one

vars == <<file, committed, pc, cmd, mem, book, clean>>

(* "torn" is a file that does not parse: the text of its last writer is    *)
(* there in part, or over another one's.                                   *)
Missing     == [state |-> "missing", peers |-> <<>>]
Empty       == [state |-> "empty", peers |-> <<>>]
Torn(r)     == [state |-> "torn", peers |-> <<>>, writer |-> r]
Complete(s) == [state |-> "peers", peers |-> s]

File == {Missing, Empty} \cup {Torn(r) : r \in Run}
            \cup [state : {"peers"}, peers : Seq(Block)]

Steps == {"idle", "open", "create", "load", "prompt", "write", "truncate"}

TypeOK ==
    /\ file \in File
    /\ committed \in File
    /\ pc \in [Run -> Steps]
    /\ cmd \in [Run -> Command]
    /\ mem \in [Run -> Seq(Block)]
    /\ book \in Seq(Block)
    /\ clean \subseteq Run

NoCommand == CHOOSE c \in Command : TRUE

Init ==
    /\ file = Missing
    /\ committed = Missing
    /\ pc = [r \in Run |-> "idle"]
    /\ cmd = [r \in Run |-> NoCommand]
    /\ mem = [r \in Run |-> <<>>]
    /\ book = <<>>
    /\ clean = {}

Goto(r, step) == pc' = [pc EXCEPT ![r] = step]

End(r) ==
    /\ Goto(r, "idle")
    /\ cmd' = [cmd EXCEPT ![r] = NoCommand]
    /\ mem' = [mem EXCEPT ![r] = <<>>]
    /\ UNCHANGED committed

(* The file holds another list than before.                                *)
Publish(list) ==
    /\ book' = list
    /\ clean' = {}

-----------------------------------------------------------------------------
(* The operator.                                                           *)

Commit ==
    /\ file.state \in {"empty", "peers"}
    /\ committed # file
    /\ committed' = file
    /\ UNCHANGED <<file, pc, cmd, mem, book, clean>>

(* A torn file is restored, or deleted if it never was committed, when no  *)
(* run is under way any more.                                              *)
Checkout ==
    /\ file.state = "torn"
    /\ \A r \in Run : pc[r] = "idle"
    /\ file' = committed
    /\ Publish(committed.peers)
    /\ UNCHANGED <<committed, pc, cmd, mem>>

Invoke(r) ==
    /\ pc[r] = "idle"
    /\ Overlap \/ \A q \in Run \ {r} : pc[q] = "idle"
    /\ \E c \in Command : cmd' = [cmd EXCEPT ![r] = c]
    /\ Goto(r, "open")
    /\ UNCHANGED <<file, committed, mem, book, clean>>

-----------------------------------------------------------------------------
(* The scripts.                                                            *)

Generating(r) == cmd[r].prog = "peerconfgen"
Mode(r) == IF Generating(r) THEN cmd[r] ELSE [create |-> FALSE, replace |-> FALSE, dry_run |-> FALSE]

(* get_config_paths looks whether the file is there ...                    *)
OpenConfig(r) ==
    /\ pc[r] = "open"
    /\ \/ file.state # "missing" /\ Goto(r, "load") /\ UNCHANGED <<committed, cmd, mem>>
       \/ file.state = "missing" /\ Mode(r).create /\ Goto(r, "create")
                                 /\ UNCHANGED <<committed, cmd, mem>>
       \/ file.state = "missing" /\ ~Mode(r).create /\ End(r)
    /\ UNCHANGED <<file, book, clean>>

(* ... and creates it, cutting off whatever another run wrote since.       *)
CreateConfig(r) ==
    /\ pc[r] = "create"
    /\ file' = Empty
    /\ Publish(<<>>)
    /\ Goto(r, "load")
    /\ UNCHANGED <<committed, cmd, mem>>

(* The list that a run works from.  A torn file ends it, an empty one ends *)
(* remove_peer, and so does a name that is taken unless it is to be        *)
(* replaced.                                                               *)
Refused(r) ==
    \/ file.state \in {"missing", "torn"}
    \/ ~Generating(r) /\ file.state = "empty"
    \/ Generating(r) /\ ~Mode(r).replace /\ Positions(cmd[r], file.peers) # {}

LoadConfig(r) ==
    /\ pc[r] = "load"
    /\ IF Refused(r)
       THEN End(r) /\ UNCHANGED clean
       ELSE /\ mem' = [mem EXCEPT ![r] = IF Generating(r) THEN file.peers
                                         ELSE Removed(cmd[r], file.peers)]
            /\ clean' = clean \cup {r}
            /\ Goto(r, IF Generating(r) THEN "prompt" ELSE "write")
            /\ UNCHANGED <<committed, cmd>>
    /\ UNCHANGED <<file, book>>

(* The questions are answered, and a dry run is over.                      *)
Prompt(r) ==
    /\ pc[r] = "prompt"
    /\ IF Mode(r).dry_run
       THEN End(r)
       ELSE /\ \E asn \in Asn : mem' = [mem EXCEPT ![r] = Updated(cmd[r], asn, @)]
            /\ Goto(r, "write")
            /\ UNCHANGED <<committed, cmd>>
    /\ UNCHANGED <<file, book, clean>>

(* yaml.dump writes over the file from its start: a long text goes out in  *)
(* pieces, a short one with the truncation that follows.                   *)
Flush(r) ==
    /\ pc[r] = "write"
    /\ file' = Torn(r)
    /\ Goto(r, "truncate")
    /\ UNCHANGED <<committed, cmd, mem, book, clean>>

(* f.truncate() at the end of the new text.  If another run has written    *)
(* to the file since the first piece, the texts are mixed, or this one     *)
(* was over and the lengths agree.                                         *)
Truncate(r) ==
    /\ \/ /\ pc[r] = "write" \/ file = Torn(r)
          /\ file' = Complete(mem[r])
          /\ Publish(mem[r])
       \/ /\ pc[r] = "truncate" /\ file # Torn(r)
          /\ file' \in {file, Torn(r)}
          /\ UNCHANGED <<book, clean>>
    /\ pc[r] \in {"write", "truncate"}
    /\ End(r)

(* A question is answered with an abort or too often with nonsense, or the *)
(* script is killed.                                                       *)
Kill(r) ==
    /\ pc[r] # "idle"
    /\ End(r)
    /\ UNCHANGED <<file, book, clean>>

RunStep(r) ==
    \/ OpenConfig(r)
    \/ CreateConfig(r)
    \/ LoadConfig(r)
    \/ Prompt(r)
    \/ Flush(r)
    \/ Truncate(r)

Next ==
    \/ Commit
    \/ Checkout
    \/ \E r \in Run : Invoke(r) \/ RunStep(r) \/ Kill(r)

Spec == Init /\ [][Next]_vars

-----------------------------------------------------------------------------
(* Properties.                                                             *)

(* No two blocks of a file have one interface name, whatever runs overlap  *)
(* and however names are shortened: the deployment roles write one file    *)
(* per name, the last block winning.                                       *)
UniqueNames == file.state = "peers" => UniqueNamesIn(file.peers)

Told(r, b) ==
    IF Generating(r) THEN Mode(r).replace /\ b.name = Iface[cmd[r].peer]
                     ELSE Matches(cmd[r], b)

Gone == Range(book) \ Range(book')

(* A run that works from the list that is in the file makes no block leave *)
(* it that it was not told to replace or to remove, and loses none in the  *)
(* writing, whatever other runs read, start to write or end in between.    *)
LeavesOnlyIfTold ==
    [][\A r \in clean : Truncate(r) => \A b \in Gone : Told(r, b)]_vars

(* "The --replace option allows you to overwrite existing configurations - *)
(* otherwise doing so is an error" (scripts/peerconfgen/README.md:34): a   *)
(* run without it writes a list that has every block the file had.         *)
OnlyReplaceOverwrites ==
    [][\A r \in Run : Truncate(r) /\ Generating(r) /\ ~Mode(r).replace => Gone = {}]_vars

Stored(r) == ~Generating(r) /\ Truncate(r) /\ book' = mem[r]

(* remove_peer deletes from the list it enumerates, and so passes over the *)
(* block after a deleted one.  What does hold for a run that works from    *)
(* the list that is in the file: a block that matches is gone unless the   *)
(* block before it matches too.                                            *)
RemovesLoneMatches ==
    [][\A r \in clean : Stored(r) =>
          \A i \in DOMAIN book :
             (Matches(cmd[r], book[i]) /\ (i > 1 => ~Matches(cmd[r], book[i - 1])))
                => book[i] \in Gone]_vars

-----------------------------------------------------------------------------
(* The file as a book of blocks, and the runs as requests to it.           *)

Request(c) ==
    IF c.prog = "peerconfgen"
    THEN LET own == {b \in Block : b.name = Iface[c.peer]}
         IN  [adds |-> own, removes |-> IF c.replace THEN own ELSE {}]
    ELSE [adds |-> {}, removes |-> {b \in Block : Matches(c, b)}]

Pending == [r \in Run |-> IF pc[r] = "idle" THEN {} ELSE {Request(cmd[r])}]

Book == INSTANCE PeerBook WITH
            Client <- Run,
            Requests <- {Request(c) : c \in Command},
            blocks <- Range(book),
            saved <- Range(committed.peers),
            pending <- Pending

(* A run that writes what it made of an older list than the file has, or   *)
(* that cuts off the list that another one has written since it looked.    *)
Stale(r) ==
    \/ r \notin clean /\ Truncate(r)
    \/ file.state # "missing" /\ CreateConfig(r)

(* Every change of the list in the file is one step of the book, by the    *)
(* request of the run that makes it, but for the runs that are late: what  *)
(* a run loads, asks, writes in pieces and truncates amounts to one change *)
(* at once, whatever other runs begin, tear or give up in between.         *)
StepsOfBook ==
    [][\/ UNCHANGED <<book, committed>>
       \/ \E r \in Run : Stale(r)
       \/ [Book!BookNext]_(Book!bookVars)]_vars

(* Runs that do not overlap implement the book.                            *)
ImplementsBook == Book!BookSpec

=============================================================================
