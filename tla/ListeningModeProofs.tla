------------------------ MODULE ListeningModeProofs -------------------------
(***************************************************************************)
(* Proofs about ListeningMode, for any number of commands, changes,         *)
(* restarts and failed publishes, and about AgentClient, the client of the  *)
(* same harness, for any number of attempts, links, rooms and failures.     *)
(* The two share no state; their proofs stand one after the other.          *)
(*                                                                         *)
(* ListeningMode: the changes run one after another, so that what was        *)
(* decided of the first one when its publish began holds until it is         *)
(* applied.  A command that was handed over is in the chain or behind the    *)
(* time in the file, and the agent listens no closer than asked, except      *)
(* after a rejoin that adopts what a command could not publish: that command *)
(* is then still to be handed over, or waits in the chain.  What history     *)
(* calls astray, loose or failed is excepted until it is mended.             *)
(*                                                                         *)
(* AgentClient: whatever works is registered under its link, whatever is on  *)
(* disk belongs to an attempt that is registered or being cleaned up, and a  *)
(* room's changes run one after another, so that close, which empties the    *)
(* register through the clean-ups, leaves neither a session nor a file.      *)
(***************************************************************************)
EXTENDS ListeningMode, AgentClient, SequenceTheorems, TLAPS

-----------------------------------------------------------------------------
(* The inductive invariant *)

Types ==
    /\ asyncOnly \in BOOLEAN /\ archived \in BOOLEAN /\ running \in BOOLEAN
    /\ commands \in Seq(Commands) /\ Len(commands) <= MaxCommands
    /\ emitted \subseteq 1..Len(commands)
    /\ chain \in Seq(Tasks)
    /\ stage \in {"queued", "publishing", "published", "unpublished"}
    /\ file \in Files /\ file.at <= Len(commands)
    /\ member \in Modes /\ flying \subseteq Modes
    /\ told \in Tellings

\* The file has the lock and the flag that the owner gave last.
Barred == (file.locked <=> told.lock) /\ (file.archived <=> told.archived)

\* A process that is gone has left nothing under way.
AtRest == ~running => chain = <<>> /\ stage = "queued" /\ emitted = {}

\* The chain is of commands that were sent, and its first change is still wanted.
ChainOK ==
    /\ \A k \in DOMAIN chain : chain[k].kind = "owner" => chain[k].at <= Len(commands)
    /\ stage # "queued" => chain # <<>> /\ First.kind # "archive" /\ ~Dropped(First)
    /\ stage = "unpublished" => First.kind = "owner"

\* The command waits in the chain.
Waits(at) == \E k \in DOMAIN chain : chain[k].kind = "owner" /\ chain[k].at = at

\* What was handed over waits, is behind the time of the file, or could not be written.
Handed == \A at \in emitted \ told.failed : at <= file.at \/ Waits(at)

\* The member state is that of the file, or of the change under way, where nothing has put it
\* out of step.
Follows ==
    /\ stage = "published" => told.astray # "failed"
    /\ told.astray = "no" =>
          /\ running /\ ~file.pending /\ stage # "published" => member = file.mode
          /\ stage = "published" => member = Target(First)

\* m is no closer than the owner has asked for.
Asked(m) == Attention[m] <= Attention[told.ceiling]

\* So is the mode of the file; that of the member state, which a rejoin adopts, unless a
\* publish given up on has landed there; and that of the first change, unless it lowers a
\* mode that was adopted so.
Obeys ==
    /\ ~told.loose /\ (~file.pending \/ asyncOnly) => Asked(file.mode)
    /\ ~told.loose /\ ~file.pending /\ ~asyncOnly /\ told.astray # "landed" => Asked(member)
    /\ file.pending => Asked(file.mode) \/ file.at \notin emitted \ told.failed \/ Waits(file.at)
    /\ stage # "queued" => \/ Asked(Target(First))
                           \/ First.kind = "agent" /\ First.self /\ (file.pending \/ told.loose)

Inv == Types /\ Barred /\ AtRest /\ ChainOK /\ Handed /\ Follows /\ Obeys

-----------------------------------------------------------------------------
(* Helpers *)

LEMMA Levels ==
    /\ \A m \in Modes : Attention[m] \in Nat
    /\ Attention["mute"] = 0 /\ Attention["async"] = 1
    /\ \A m \in Modes : m # "mute" => Attention[m] >= 1
    /\ {"mute", "async", "sync"} \subseteq Modes
  BY ValuesAssumption DEF Attention

LEMMA LouderFacts ==
    ASSUME NEW m \in Modes, NEW n \in Modes
    PROVE  /\ Louder(m, n) \in Modes
           /\ Attention[m] <= Attention[Louder(m, n)] /\ Attention[n] <= Attention[Louder(m, n)]
  BY Levels DEF Louder

LEMMA TaskKinds ==
    ASSUME NEW t \in Tasks
    PROVE  \/ t.kind = "owner" /\ t.at \in 1..MaxCommands
           \/ t.kind = "agent" /\ t.mode \in Modes /\ t.self \in BOOLEAN
           \/ t.kind = "archive" /\ t.on \in BOOLEAN
  BY DEF Tasks

LEMMA FirstTask ==
    ASSUME Inv, chain # <<>>
    PROVE  /\ First \in Tasks /\ chain[1] = First /\ 1 \in DOMAIN chain
           /\ First.kind = "owner" =>
                 First.at \in 1..Len(commands) /\ commands[First.at] \in Commands
           /\ First.kind # "archive" => Target(First) \in Modes
<1>1. chain \in Seq(Tasks) /\ commands \in Seq(Commands) /\ Len(commands) \in Nat
  BY LenProperties DEF Inv, Types
<1>2. First \in Tasks /\ chain[1] = First /\ 1 \in DOMAIN chain
  BY <1>1 DEF First
<1>3. First.kind = "owner" => First.at \in 1..Len(commands) /\ commands[First.at] \in Commands
  <2> SUFFICES ASSUME First.kind = "owner" PROVE First.at \in 1..Len(commands) /\ commands[First.at] \in Commands
    OBVIOUS
  <2>1. First.at \in Nat /\ First.at >= 1
    BY <1>2, TaskKinds
  <2>2. First.at <= Len(commands)
    BY <1>2 DEF Inv, ChainOK
  <2> QED
    BY <1>1, <2>1, <2>2
<1>4. First.kind # "archive" => Target(First) \in Modes
  BY <1>2, <1>3, TaskKinds, Levels DEF Target, Commands
<1> QED
  BY <1>2, <1>3, <1>4

\* A change is added at the end.
LEMMA Appended ==
    ASSUME Types, NEW t \in Tasks, chain' = Append(chain, t)
    PROVE  /\ chain' \in Seq(Tasks)
           /\ chain # <<>> => First' = First
           /\ \A k \in DOMAIN chain' : chain'[k] = t \/ \E j \in DOMAIN chain : chain'[k] = chain[j]
           /\ \A at : Waits(at) => Waits(at)'
           /\ t.kind = "owner" => Waits(t.at)'
<1>1. /\ chain \in Seq(Tasks) /\ Len(chain) \in Nat /\ DOMAIN chain = 1..Len(chain)
      /\ chain # <<>> => Len(chain) >= 1
  BY LenProperties DEF Types
<1>2. /\ chain' \in Seq(Tasks) /\ Len(chain') = Len(chain) + 1
      /\ \A k \in 1..Len(chain) : chain'[k] = chain[k]
      /\ chain'[Len(chain) + 1] = t
  BY <1>1, AppendProperties
<1>3. DOMAIN chain' = 1..(Len(chain) + 1)
  BY <1>1, <1>2, LenProperties
<1>4. chain # <<>> => First' = First
  BY <1>1, <1>2 DEF First
<1>5. \A k \in DOMAIN chain' : chain'[k] = t \/ \E j \in DOMAIN chain : chain'[k] = chain[j]
  <2> SUFFICES ASSUME NEW k \in DOMAIN chain' PROVE chain'[k] = t \/ \E j \in DOMAIN chain : chain'[k] = chain[j]
    OBVIOUS
  <2>1. k = Len(chain) + 1 \/ k \in 1..Len(chain)
    BY <1>1, <1>3
  <2> QED
    BY <1>1, <1>2, <2>1
<1>6. \A at : Waits(at) => Waits(at)'
  BY <1>1, <1>2, <1>3 DEF Waits
<1>7. t.kind = "owner" => Waits(t.at)'
  <2>1. Len(chain) + 1 \in DOMAIN chain'
    BY <1>1, <1>3
  <2> QED
    BY <1>2, <2>1 DEF Waits
<1> QED
  BY <1>2, <1>4, <1>5, <1>6, <1>7

\* The first change is over.
LEMMA EndedFacts ==
    ASSUME Inv, chain # <<>>, Ended
    PROVE  /\ chain' \in Seq(Tasks) /\ stage' = "queued"
           /\ \A k \in DOMAIN chain' : \E j \in DOMAIN chain : chain'[k] = chain[j]
           /\ \A at : Waits(at) /\ ~(First.kind = "owner" /\ First.at = at) => Waits(at)'
<1>1. /\ chain \in Seq(Tasks) /\ Len(chain) \in Nat /\ DOMAIN chain = 1..Len(chain)
      /\ Len(chain) >= 1
  BY LenProperties DEF Inv, Types
<1>2. /\ chain' \in Seq(Tasks) /\ Len(chain') = Len(chain) - 1
      /\ \A k \in 1..(Len(chain) - 1) : chain'[k] = chain[k + 1]
  BY <1>1 DEF Ended
<1>3. DOMAIN chain' = 1..(Len(chain) - 1)
  BY <1>1, <1>2, LenProperties
<1>4. \A k \in DOMAIN chain' : k + 1 \in DOMAIN chain /\ chain'[k] = chain[k + 1]
  BY <1>1, <1>2, <1>3
<1>5. ASSUME NEW at, Waits(at), ~(First.kind = "owner" /\ First.at = at)
      PROVE  Waits(at)'
  <2>1. PICK k \in DOMAIN chain : chain[k].kind = "owner" /\ chain[k].at = at
    BY <1>5 DEF Waits
  <2>2. k # 1
    BY <1>5, <2>1, FirstTask
  <2>3. k - 1 \in DOMAIN chain' /\ chain'[k - 1] = chain[k]
    BY <1>1, <1>2, <1>3, <2>1, <2>2
  <2> QED
    BY <2>1, <2>3 DEF Waits
<1> QED
  BY <1>2, <1>4, <1>5 DEF Ended

\* As long as the file stays, so does what was decided of a change.
LEMMA SameTask ==
    ASSUME UNCHANGED <<asyncOnly, file>>, First' = First,
           First.kind = "owner" => commands'[First.at] = commands[First.at]
    PROVE  Dropped(First)' = Dropped(First) /\ (First.kind \in {"owner", "agent"} => Target(First)' = Target(First))
<1>1. Dropped(First)' = Dropped(First)
  BY DEF Dropped, Stale, Refused
<1>2. First.kind \in {"owner", "agent"} => Target(First)' = Target(First)
  BY DEF Target
<1> QED
  BY <1>1, <1>2

-----------------------------------------------------------------------------
(* The owner, and what the session hands over *)

LEMMA SendCommandInv ==
    ASSUME Inv, NEW c \in Commands, SendCommand(c)
    PROVE  Inv'
<1>1. /\ commands' = Append(commands, c) /\ Len(commands) < MaxCommands
      /\ UNCHANGED <<asyncOnly, emitted, archived, running, chain, stage, file, member, flying, told>>
  BY DEF SendCommand
<1>2. commands \in Seq(Commands) /\ Len(commands) \in Nat /\ MaxCommands \in Nat
  BY LenProperties, ValuesAssumption DEF Inv, Types
<1>3. /\ commands' \in Seq(Commands) /\ Len(commands') = Len(commands) + 1
      /\ \A i \in 1..Len(commands) : commands'[i] = commands[i]
  BY <1>1, <1>2, AppendProperties
<1>4. Types'
  <2>1. commands' \in Seq(Commands) /\ Len(commands') <= MaxCommands
    BY <1>1, <1>2, <1>3
  <2>2. emitted' \subseteq 1..Len(commands')
    BY <1>1, <1>2, <1>3 DEF Inv, Types
  <2>3. file'.at <= Len(commands')
    BY <1>1, <1>2, <1>3 DEF Inv, Types, Files
  <2> QED
    BY <1>1, <2>1, <2>2, <2>3 DEF Inv, Types
<1>5. First' = First
  BY <1>1 DEF First
<1>6. chain # <<>> => /\ Dropped(First)' = Dropped(First)
                      /\ First.kind \in {"owner", "agent"} => Target(First)' = Target(First)
  BY <1>1, <1>3, <1>5, FirstTask, SameTask
<1>7. Barred' /\ AtRest'
  BY <1>1 DEF Inv, Barred, AtRest
<1>8. ChainOK'
  <2>1. \A k \in DOMAIN chain' : chain'[k].kind = "owner" => chain'[k].at <= Len(commands')
    <3> SUFFICES ASSUME NEW k \in DOMAIN chain, chain[k].kind = "owner"
                 PROVE  chain[k].at <= Len(commands')
      BY <1>1
    <3>1. chain[k] \in Tasks /\ chain[k].at <= Len(commands)
      BY DEF Inv, Types, ChainOK
    <3> QED
      BY <1>2, <1>3, <3>1, TaskKinds
  <2> QED
    BY <1>1, <1>5, <1>6, <2>1 DEF Inv, ChainOK
<1>9. Handed' /\ Follows' /\ Obeys'
  <2>1. Handed /\ Follows /\ Obeys
    BY DEF Inv
  <2>2. \A at : Waits(at)' <=> Waits(at)
    BY <1>1 DEF Waits
  <2>3. stage # "queued" => Target(First)' = Target(First)
    BY <1>6, FirstTask, TaskKinds DEF Inv, ChainOK
  <2>4. Handed'
    BY <1>1, <2>1, <2>2 DEF Handed
  <2>5. Follows'
    BY <1>1, <2>1, <2>3 DEF Follows
  <2>6. Obeys'
    BY <1>1, <1>5, <2>1, <2>2, <2>3 DEF Obeys, Asked
  <2> QED
    BY <2>4, <2>5, <2>6
<1> QED
  BY <1>4, <1>7, <1>8, <1>9 DEF Inv

\* A change joins the chain.
LEMMA ArrivesInv ==
    ASSUME Inv, running, NEW t \in Tasks, chain' = Append(chain, t),
           t.kind = "owner" => t.at <= Len(commands),
           emitted' = emitted \/ (t.kind = "owner" /\ emitted' = emitted \cup {t.at}),
           archived' \in BOOLEAN,
           UNCHANGED <<asyncOnly, commands, running, stage, file, member, flying, told>>
    PROVE  Inv'
<1>1. /\ chain' \in Seq(Tasks)
      /\ chain # <<>> => First' = First
      /\ \A k \in DOMAIN chain' : chain'[k] = t \/ \E j \in DOMAIN chain : chain'[k] = chain[j]
      /\ \A at : Waits(at) => Waits(at)'
      /\ t.kind = "owner" => Waits(t.at)'
  BY Appended DEF Inv
<1>2. Len(commands) \in Nat /\ (t.kind = "owner" => t.at \in 1..Len(commands))
  BY LenProperties, TaskKinds DEF Inv, Types
<1>3. Types'
  BY <1>1, <1>2 DEF Inv, Types
<1>4. Barred' /\ AtRest'
  BY DEF Inv, Barred, AtRest
<1>5. chain # <<>> => /\ Dropped(First)' = Dropped(First)
                      /\ First.kind \in {"owner", "agent"} => Target(First)' = Target(First)
  BY <1>1, SameTask
<1>6. stage # "queued" => chain # <<>> /\ First' = First /\ Target(First)' = Target(First)
  BY <1>1, <1>5, FirstTask, TaskKinds DEF Inv, ChainOK
<1>7. ChainOK'
  <2>1. \A k \in DOMAIN chain' : chain'[k].kind = "owner" => chain'[k].at <= Len(commands')
    BY <1>1 DEF Inv, ChainOK
  <2>2. stage' # "queued" => chain' # <<>> /\ First'.kind # "archive" /\ ~Dropped(First)'
    <3>1. chain' # <<>>
      BY AppendProperties DEF Inv, Types
    <3> QED
      BY <1>5, <1>6, <3>1 DEF Inv, ChainOK
  <2> QED
    BY <1>6, <2>1, <2>2 DEF Inv, ChainOK
<1>8. Handed' /\ Follows' /\ Obeys'
  <2>1. Handed /\ Follows /\ Obeys
    BY DEF Inv
  <2>2. Handed'
    BY <1>1, <2>1 DEF Handed
  <2>3. Follows'
    BY <1>6, <2>1 DEF Follows
  <2>4. Obeys'
    BY <1>1, <1>6, <2>1 DEF Obeys, Asked
  <2> QED
    BY <2>2, <2>3, <2>4
<1> QED
  BY <1>3, <1>4, <1>7, <1>8 DEF Inv

LEMMA IntakeModeInv ==
    ASSUME Inv, NEW at \in 1..MaxCommands, IntakeMode(at)
    PROVE  Inv'
<1>1. PICK t : t = [kind |-> "owner", at |-> at]
  OBVIOUS
<1>2. t \in Tasks /\ t.kind = "owner" /\ t.at = at
  BY <1>1 DEF Tasks
<1>3. at \in 1..Len(commands) /\ Len(commands) \in Nat
  BY LenProperties DEF IntakeMode, Inv, Types
<1>4. /\ running /\ chain' = Append(chain, t) /\ emitted' = emitted \cup {t.at} /\ archived' = archived
      /\ UNCHANGED <<asyncOnly, commands, running, stage, file, member, flying, told>>
  BY <1>1, <1>2 DEF IntakeMode
<1> QED
  BY <1>2, <1>3, <1>4, ArrivesInv DEF Inv, Types

LEMMA SetModeInv ==
    ASSUME Inv, NEW m \in Modes, NEW self \in BOOLEAN, SetMode(m, self)
    PROVE  Inv'
<1>1. PICK t : t = [kind |-> "agent", mode |-> m, self |-> self]
  OBVIOUS
<1>2. t \in Tasks /\ t.kind = "agent"
  BY <1>1 DEF Tasks
<1>3. /\ running /\ chain' = Append(chain, t) /\ emitted' = emitted /\ archived' = archived
      /\ UNCHANGED <<asyncOnly, commands, running, stage, file, member, flying, told>>
  BY <1>1 DEF SetMode
<1> QED
  BY <1>2, <1>3, ArrivesInv DEF Inv, Types

LEMMA ArchiveInv ==
    ASSUME Inv, Archive
    PROVE  Inv'
<1>1. /\ archived' \in BOOLEAN
      /\ UNCHANGED <<asyncOnly, commands, emitted, running, stage, file, member, flying, told>>
  BY DEF Archive, Inv, Types
<1>2. CASE running
  <2>1. PICK t : t = [kind |-> "archive", on |-> archived']
    OBVIOUS
  <2>2. t \in Tasks /\ t.kind = "archive"
    BY <1>1, <2>1 DEF Tasks
  <2>3. chain' = Append(chain, t)
    BY <1>2, <2>1 DEF Archive
  <2> QED
    BY <1>1, <1>2, <2>2, <2>3, ArrivesInv
<1>3. CASE ~running
  <2>1. UNCHANGED chain
    BY <1>3 DEF Archive
  <2>2. First' = First /\ \A at : Waits(at)' <=> Waits(at)
    BY <2>1 DEF First, Waits
  <2>3. chain = <<>> /\ stage = "queued"
    BY <1>3 DEF Inv, AtRest
  <2>4. Types' /\ Barred' /\ AtRest' /\ ChainOK'
    BY <1>1, <2>1, <2>3 DEF Inv, Types, Barred, AtRest, ChainOK
  <2>5. Handed' /\ Follows' /\ Obeys'
    <3>1. Handed /\ Follows /\ Obeys
      BY DEF Inv
    <3> QED
      BY <1>1, <2>1, <2>2, <2>3, <3>1 DEF Handed, Follows, Obeys, Asked
  <2> QED
    BY <2>4, <2>5 DEF Inv
<1> QED
  BY <1>2, <1>3

-----------------------------------------------------------------------------
(* The chain *)

\* The first change ends without being written: it was not wanted, the agent's own could not
\* be published, or what it brings could not be written.
LEMMA EndsInv ==
    ASSUME Inv, chain # <<>>, Ended, flying' \subseteq Modes,
           UNCHANGED <<asyncOnly, commands, emitted, archived, running, file, member>>,
           told' \in Tellings,
           /\ told'.ceiling = told.ceiling /\ told'.loose = told.loose
           /\ told'.lock = told.lock /\ told'.archived = told.archived,
           told.failed \subseteq told'.failed,
           First.kind = "owner" => Stale(First.at) \/ First.at \in told'.failed,
           \/ told'.astray = told.astray /\ (stage = "published" => told.astray = "landed")
           \/ told.astray = "no" /\ told'.astray = "failed" /\ stage = "published"
    PROVE  Inv'
<1>1. /\ chain' \in Seq(Tasks) /\ stage' = "queued"
      /\ \A k \in DOMAIN chain' : \E j \in DOMAIN chain : chain'[k] = chain[j]
      /\ \A at : Waits(at) /\ ~(First.kind = "owner" /\ First.at = at) => Waits(at)'
  BY EndedFacts
<1>2. Handed /\ Follows /\ Obeys
  BY DEF Inv
<1>3. Types'
  BY <1>1 DEF Inv, Types
<1>4. Barred' /\ AtRest'
  BY DEF Inv, Barred, AtRest
<1>5. ChainOK'
  BY <1>1 DEF Inv, ChainOK
<1>6. file.at \in Nat /\ \A at \in emitted : at \in Nat
  BY LenProperties DEF Inv, Types, Files
<1>7. Handed'
  BY <1>1, <1>2, <1>6, FirstTask, TaskKinds DEF Handed, Stale
<1>8. Follows'
  BY <1>1, <1>2 DEF Follows
<1>9. file.pending /\ Waits(file.at) => Waits(file.at)' \/ file.at \in told'.failed
  <2> SUFFICES ASSUME file.pending, Waits(file.at), First.kind = "owner", First.at = file.at
               PROVE  file.at \in told'.failed
    BY <1>1
  <2> QED
    BY <1>6 DEF Stale
<1>10. Asked(file.mode)' = Asked(file.mode) /\ Asked(member)' = Asked(member)
  BY DEF Asked
<1>11. told.astray = "no" /\ stage = "published" => member = Target(First)
  BY <1>2 DEF Follows
<1>12. ~told.loose /\ ~file.pending /\ ~asyncOnly /\ told'.astray # "landed" => Asked(member)
  BY <1>2, <1>11 DEF Obeys
<1>13. Obeys'
  BY <1>1, <1>2, <1>9, <1>10, <1>12 DEF Obeys
<1> QED
  BY <1>3, <1>4, <1>5, <1>7, <1>8, <1>13 DEF Inv

LEMMA DropInv ==
    ASSUME Inv, Drop
    PROVE  Inv'
<1>1. /\ chain # <<>> /\ Ended /\ stage = "queued" /\ (First.kind = "owner" => Stale(First.at))
      /\ UNCHANGED <<asyncOnly, commands, emitted, archived, running, file, member, flying, told>>
  BY DEF Drop, Dropped
<1> QED
  BY <1>1, EndsInv DEF Inv, Types

LEMMA ApplyFailsInv ==
    ASSUME Inv, ApplyFails
    PROVE  Inv'
<1>1. /\ stage \in {"published", "unpublished"} /\ Ended
      /\ told' = [told EXCEPT !.astray = IF @ = "no" /\ stage = "published" THEN "failed" ELSE @,
                              !.failed = IF First.kind = "owner" THEN @ \cup {First.at} ELSE @]
      /\ UNCHANGED <<asyncOnly, commands, emitted, archived, running, file, member, flying>>
  BY DEF ApplyFails
<1>2. chain # <<>>
  BY <1>1 DEF Inv, ChainOK
<1>3. told \in Tellings /\ (stage = "published" => told.astray # "failed")
  BY DEF Inv, Types, Follows
<1>4. First.kind = "owner" => First.at \in 1..MaxCommands
  BY <1>2, FirstTask, TaskKinds
<1>5. /\ told'.astray = IF told.astray = "no" /\ stage = "published" THEN "failed" ELSE told.astray
      /\ told'.failed = IF First.kind = "owner" THEN told.failed \cup {First.at} ELSE told.failed
      /\ told'.ceiling = told.ceiling /\ told'.loose = told.loose
      /\ told'.lock = told.lock /\ told'.archived = told.archived
      /\ told'.heard = told.heard /\ told'.older = told.older
  BY <1>1, <1>3 DEF Tellings
<1>6. told'.failed \subseteq 1..MaxCommands /\ told'.astray \in {"no", "landed", "failed"}
  BY <1>3, <1>4, <1>5 DEF Tellings
<1>7. told' \in Tellings
  BY <1>1, <1>3, <1>5, <1>6 DEF Tellings
<1>8. told.astray \in {"no", "landed", "failed"}
  BY <1>3 DEF Tellings
<1> QED
  BY <1>1, <1>2, <1>3, <1>5, <1>7, <1>8, EndsInv DEF Inv, Types

\* The first change is under way, at the next step of it.
LEMMA GoesOnInv ==
    ASSUME Inv, chain # <<>>, First.kind # "archive", ~Dropped(First),
           stage' \in {"publishing", "published", "unpublished"},
           stage' = "unpublished" => First.kind = "owner",
           flying' \subseteq Modes, member' \in Modes,
           told' \in Tellings, told'.failed = told.failed,
           told'.lock = told.lock, told'.archived = told.archived,
           UNCHANGED <<asyncOnly, commands, emitted, archived, running, chain, file>>,
           Follows', Obeys'
    PROVE  Inv'
<1>1. Types'
  BY DEF Inv, Types
<1>2. Barred'
  BY DEF Inv, Barred
<1>3. AtRest'
  BY DEF Inv, AtRest
<1>4. First' = First
  BY DEF First
<1>5. ChainOK'
  BY <1>4, SameTask DEF Inv, ChainOK
<1>6. \A at : Waits(at)' <=> Waits(at)
  BY DEF Waits
<1>7. Handed'
  BY <1>6 DEF Inv, Handed
<1> QED
  BY <1>1, <1>2, <1>3, <1>5, <1>7 DEF Inv

LEMMA PublishInv ==
    ASSUME Inv, Publish
    PROVE  Inv'
<1>1. /\ chain # <<>> /\ stage = "queued" /\ First.kind # "archive" /\ ~Dropped(First)
      /\ stage' = "publishing"
      /\ UNCHANGED <<asyncOnly, commands, emitted, archived, running, chain, file, member, flying>>
  BY DEF Publish
<1>2. First \in Tasks /\ Target(First) \in Modes /\ told.ceiling \in Modes /\ told \in Tellings
  BY <1>1, FirstTask DEF Inv, Types, Tellings
<1>3. /\ told' \in Tellings
      /\ told'.lock = told.lock /\ told'.archived = told.archived /\ told'.astray = told.astray
      /\ told'.loose = told.loose /\ told'.failed = told.failed
      /\ told'.ceiling = told.ceiling \/ told'.ceiling = Louder(told.ceiling, Target(First))
      /\ ~(First.kind = "agent" /\ First.self) => told'.ceiling = Louder(told.ceiling, Target(First))
  BY <1>2, LouderFacts DEF Publish, Tellings
<1>4. First' = First /\ (First.kind \in {"owner", "agent"} => Target(First)' = Target(First))
  BY <1>1, SameTask DEF First
<1>5. Target(First)' = Target(First)
  BY <1>1, <1>2, <1>4, TaskKinds
<1>6. \A m \in Modes : Asked(m) => Asked(m)'
  BY <1>2, <1>3, Levels, LouderFacts DEF Asked
<1>7. file.mode \in Modes /\ member \in Modes
  BY DEF Inv, Types, Files
<1>8. Follows /\ Obeys
  BY DEF Inv
<1>9. Follows'
  BY <1>1, <1>3, <1>8 DEF Follows
<1>10. \/ Attention[Target(First)] <= Attention[told'.ceiling]
       \/ First.kind = "agent" /\ First.self /\ (file.pending \/ told.loose)
  <2>1. CASE First.kind = "agent" /\ First.self /\ ~file.pending /\ ~told.loose
    <3>1. Target(First) = First.mode /\ ~Refused(First)
      BY <1>1, <2>1 DEF Target, Dropped
    <3>2. Attention[First.mode] <= Attention[file.mode]
      BY <1>2, <1>7, <2>1, <3>1, Levels DEF Refused
    <3>3. Attention[file.mode] <= Attention[told'.ceiling]
      BY <1>6, <1>7, <1>8, <2>1 DEF Obeys, Asked
    <3>4. Attention[Target(First)] \in Nat /\ Attention[file.mode] \in Nat
      BY <1>2, <1>7, Levels
    <3>5. told'.ceiling \in Modes
      BY <1>3 DEF Tellings
    <3>6. Attention[told'.ceiling] \in Nat
      BY <3>5, Levels
    <3> QED
      BY <3>1, <3>2, <3>3, <3>4, <3>6
  <2>2. CASE ~(First.kind = "agent" /\ First.self)
    BY <1>2, <1>3, <2>2, LouderFacts
  <2> QED
    BY <1>2, <2>1, <2>2, TaskKinds
<1>11. Waits(file.at)' <=> Waits(file.at)
  BY <1>1 DEF Waits
<1>12. (Asked(file.mode) => Asked(file.mode)') /\ (Asked(member) => Asked(member)')
  BY <1>1, <1>6, <1>7 DEF Asked
<1>13. Obeys'
  BY <1>1, <1>3, <1>4, <1>5, <1>8, <1>10, <1>11, <1>12 DEF Obeys, Asked
<1> QED
  BY <1>1, <1>3, <1>9, <1>13, GoesOnInv DEF Inv, Types

LEMMA PublishedInv ==
    ASSUME Inv, Published
    PROVE  Inv'
<1>1. /\ stage = "publishing" /\ stage' = "published" /\ member' = Target(First)
      /\ told' = [told EXCEPT !.astray = "no"]
      /\ UNCHANGED <<asyncOnly, commands, emitted, archived, running, chain, file, flying>>
  BY DEF Published
<1>2. chain # <<>> /\ First.kind # "archive" /\ ~Dropped(First)
  BY <1>1 DEF Inv, ChainOK
<1>3. First \in Tasks /\ Target(First) \in Modes
  BY <1>2, FirstTask
<1>4. First' = First /\ (First.kind \in {"owner", "agent"} => Target(First)' = Target(First))
  BY <1>1, SameTask DEF First
<1>5. Target(First)' = Target(First)
  BY <1>2, <1>3, <1>4, TaskKinds
<1>6. /\ told' \in Tellings /\ told'.astray = "no" /\ told'.ceiling = told.ceiling
      /\ told'.lock = told.lock /\ told'.archived = told.archived
      /\ told'.loose = told.loose /\ told'.failed = told.failed
  BY <1>1 DEF Inv, Types, Tellings
<1>7. Follows'
  BY <1>1, <1>5, <1>6 DEF Follows
<1>8. Waits(file.at)' <=> Waits(file.at)
  BY <1>1 DEF Waits
<1>9. Obeys
  BY DEF Inv
<1>10. Obeys'
  BY <1>1, <1>4, <1>5, <1>6, <1>8, <1>9 DEF Obeys, Asked
<1> QED
  BY <1>1, <1>2, <1>3, <1>6, <1>7, <1>10, GoesOnInv DEF Inv, Types

LEMMA PublishFailsInv ==
    ASSUME Inv, PublishFails
    PROVE  Inv'
<1>1. /\ stage = "publishing"
      /\ UNCHANGED <<asyncOnly, commands, emitted, archived, running, file, member, told>>
  BY DEF PublishFails
<1>2. chain # <<>> /\ First.kind # "archive" /\ ~Dropped(First)
  BY <1>1 DEF Inv, ChainOK
<1>3. First \in Tasks /\ Target(First) \in Modes /\ file.mode \in Modes
  BY <1>2, FirstTask DEF Inv, Types, Files
<1>4. flying' \subseteq Modes
  BY <1>3 DEF PublishFails, Inv, Types
<1>5. CASE First.kind = "agent"
  <2>1. Ended
    BY <1>5 DEF PublishFails
  <2> QED
    BY <1>1, <1>2, <1>4, <1>5, <2>1, EndsInv DEF Inv, Types
<1>6. CASE First.kind # "agent"
  <2>1. stage' = "unpublished" /\ UNCHANGED chain /\ First.kind = "owner"
    BY <1>2, <1>3, <1>6, TaskKinds DEF PublishFails
  <2>2. First' = First /\ (First.kind \in {"owner", "agent"} => Target(First)' = Target(First))
    BY <1>1, <2>1, SameTask DEF First
  <2>3. Follows /\ Obeys
    BY DEF Inv
  <2>4. Follows'
    BY <1>1, <2>1, <2>3 DEF Follows
  <2>5. Waits(file.at)' <=> Waits(file.at)
    BY <1>1, <2>1 DEF Waits
  <2>6. Obeys'
    BY <1>1, <2>1, <2>2, <2>3, <2>5 DEF Obeys, Asked
  <2> QED
    BY <1>1, <1>2, <1>4, <2>1, <2>4, <2>6, GoesOnInv DEF Inv, Types
<1> QED
  BY <1>5, <1>6

LEMMA ApplyOwnerInv ==
    ASSUME Inv, Apply, First.kind = "owner"
    PROVE  Inv'
<1> DEFINE lock == commands[First.at].lock
<1>1. /\ stage \in {"published", "unpublished"} /\ Ended
      /\ file' = [mode |-> Target(First), by |-> "owner", archived |-> file.archived, at |-> First.at,
                  pending |-> stage = "unpublished",
                  locked |-> IF lock = "keep" THEN file.locked ELSE lock = "on"]
      /\ told' = [told EXCEPT !.ceiling = Target(First), !.loose = FALSE,
                              !.lock = IF lock = "keep" THEN @ ELSE lock = "on"]
      /\ UNCHANGED <<asyncOnly, commands, emitted, archived, running, member, flying>>
  BY DEF Apply, ApplyListeningMode
<1>2. chain # <<>> /\ ~Dropped(First)
  BY <1>1 DEF Inv, ChainOK
<1>3. /\ Target(First) \in Modes /\ First.at \in 1..Len(commands) /\ Len(commands) \in Nat
      /\ MaxCommands \in Nat /\ Len(commands) <= MaxCommands
  BY <1>2, FirstTask, LenProperties, ValuesAssumption DEF Inv, Types
<1>4. /\ chain' \in Seq(Tasks) /\ stage' = "queued"
      /\ \A k \in DOMAIN chain' : \E j \in DOMAIN chain : chain'[k] = chain[j]
      /\ \A at : Waits(at) /\ ~(First.kind = "owner" /\ First.at = at) => Waits(at)'
  BY <1>1, <1>2, EndedFacts
<1>5. file.locked \in BOOLEAN /\ file.archived \in BOOLEAN /\ told.lock \in BOOLEAN /\ file.at \in Nat
  BY <1>3 DEF Inv, Types, Files, Tellings
<1>6. /\ file'.mode = Target(First) /\ file'.at = First.at /\ (file'.pending <=> stage = "unpublished")
      /\ file'.archived = file.archived
      /\ file'.locked = IF lock = "keep" THEN file.locked ELSE lock = "on"
  BY <1>1
<1>7. file' \in Files
  <2>1. (stage = "unpublished") \in BOOLEAN /\ (IF lock = "keep" THEN file.locked ELSE lock = "on") \in BOOLEAN
    BY <1>5
  <2>2. First.at \in 0..MaxCommands
    BY <1>3
  <2> QED
    BY <1>1, <1>3, <1>5, <2>1, <2>2 DEF Files
<1>8. /\ told' \in Tellings
      /\ told'.ceiling = Target(First) /\ ~told'.loose /\ told'.archived = told.archived
      /\ told'.astray = told.astray /\ told'.failed = told.failed
      /\ told'.lock = IF lock = "keep" THEN told.lock ELSE lock = "on"
  <2>1. (IF lock = "keep" THEN told.lock ELSE lock = "on") \in BOOLEAN
    BY <1>5
  <2>2. told \in Tellings
    BY DEF Inv, Types
  <2> HIDE DEF lock
  <2> QED
    BY <1>1, <1>3, <2>1, <2>2 DEF Tellings
<1> HIDE DEF lock
<1>9. Types'
  BY <1>1, <1>3, <1>4, <1>6, <1>7, <1>8 DEF Inv, Types
<1>10. Barred'
  BY <1>1, <1>6, <1>8 DEF Inv, Barred
<1>11. AtRest' /\ ChainOK'
  BY <1>1, <1>2, <1>4 DEF Inv, AtRest, ChainOK
<1>12. Handed' /\ Follows' /\ Obeys'
  <2>1. Handed /\ Follows /\ Obeys
    BY DEF Inv
  <2>2. file.at <= First.at
    BY <1>2, <1>3, <1>5 DEF Dropped, Stale
  <2>3. \A at \in emitted : at \in Nat
    BY <1>3 DEF Inv, Types
  <2>4. Handed'
    BY <1>1, <1>3, <1>4, <1>5, <1>6, <1>8, <2>1, <2>2, <2>3 DEF Handed
  <2>5. /\ ~file'.pending => told'.astray # "failed"
        /\ ~file'.pending /\ told'.astray = "no" => member' = file'.mode
    BY <1>1, <1>6, <1>8, <2>1 DEF Follows
  <2>6. Follows'
    BY <1>4, <2>5 DEF Follows
  <2>7. Attention[file'.mode] <= Attention[told'.ceiling]
    BY <1>3, <1>6, <1>8, Levels
  <2>8. told'.astray \in {"no", "landed", "failed"}
    BY <1>8 DEF Tellings
  <2>9. Obeys'
    BY <1>4, <2>5, <2>7, <2>8 DEF Obeys, Asked
  <2> QED
    BY <2>4, <2>6, <2>9
<1> QED
  BY <1>9, <1>10, <1>11, <1>12 DEF Inv

LEMMA ApplyAgentInv ==
    ASSUME Inv, Apply, First.kind = "agent"
    PROVE  Inv'
<1>1. /\ stage \in {"published", "unpublished"} /\ Ended
      /\ file' = [mode |-> Target(First), by |-> "agent", archived |-> file.archived, at |-> file.at,
                  pending |-> stage = "unpublished", locked |-> file.locked]
      /\ told' = [told EXCEPT !.loose = First.self /\ (@ \/ file.pending), !.older = told.heard]
      /\ UNCHANGED <<asyncOnly, commands, emitted, archived, running, member, flying>>
  BY DEF Apply, ApplyListeningMode
<1>2. chain # <<>> /\ stage = "published"
  BY <1>1 DEF Inv, ChainOK
<1>3. Target(First) \in Modes /\ First.self \in BOOLEAN
  BY <1>2, FirstTask, TaskKinds
<1>4. /\ chain' \in Seq(Tasks) /\ stage' = "queued"
      /\ \A k \in DOMAIN chain' : \E j \in DOMAIN chain : chain'[k] = chain[j]
      /\ \A at : Waits(at) => Waits(at)'
  BY <1>1, <1>2, EndedFacts
<1>5. /\ file.locked \in BOOLEAN /\ file.archived \in BOOLEAN /\ file.pending \in BOOLEAN
      /\ file.at \in 0..MaxCommands
  BY DEF Inv, Types, Files
<1>6. /\ file'.mode = Target(First) /\ file'.at = file.at /\ ~file'.pending
      /\ file'.archived = file.archived /\ file'.locked = file.locked
  BY <1>1, <1>2
<1>7. file' \in Files
  <2>1. (stage = "unpublished") \in BOOLEAN
    OBVIOUS
  <2> QED
    BY <1>1, <1>3, <1>5, <2>1 DEF Files
<1>8. /\ told' \in Tellings
      /\ told'.ceiling = told.ceiling /\ told'.archived = told.archived /\ told'.lock = told.lock
      /\ told'.astray = told.astray /\ told'.failed = told.failed
      /\ ~told'.loose => ~First.self \/ (~told.loose /\ ~file.pending)
  <2>1. (First.self /\ (told.loose \/ file.pending)) \in BOOLEAN
    OBVIOUS
  <2>2. told \in Tellings
    BY DEF Inv, Types
  <2> QED
    BY <1>1, <2>1, <2>2 DEF Tellings
<1>9. Types'
  BY <1>1, <1>4, <1>6, <1>7, <1>8 DEF Inv, Types
<1>10. Barred'
  BY <1>1, <1>6, <1>8 DEF Inv, Barred
<1>11. AtRest' /\ ChainOK'
  BY <1>1, <1>2, <1>4 DEF Inv, AtRest, ChainOK
<1>12. Handed' /\ Follows' /\ Obeys'
  <2>1. Handed /\ Follows /\ Obeys
    BY DEF Inv
  <2>2. Handed'
    BY <1>1, <1>4, <1>6, <1>8, <2>1 DEF Handed
  <2>3. told'.astray # "failed" /\ (told'.astray = "no" => member' = file'.mode)
    BY <1>1, <1>2, <1>6, <1>8, <2>1 DEF Follows
  <2>4. Follows'
    BY <1>4, <2>3 DEF Follows
  <2>5. ~told'.loose => Attention[file'.mode] <= Attention[told'.ceiling]
    BY <1>2, <1>6, <1>8, <2>1 DEF Obeys, Asked
  <2>6. told'.astray \in {"no", "landed", "failed"}
    BY <1>8 DEF Tellings
  <2>7. Obeys'
    BY <1>4, <1>6, <2>3, <2>5, <2>6 DEF Obeys, Asked
  <2> QED
    BY <2>2, <2>4, <2>7
<1> QED
  BY <1>9, <1>10, <1>11, <1>12 DEF Inv

LEMMA ApplyInv ==
    ASSUME Inv, Apply
    PROVE  Inv'
<1>1. stage # "queued"
  BY DEF Apply
<1>2. First.kind \in {"owner", "agent"}
  BY <1>1, FirstTask, TaskKinds DEF Inv, ChainOK
<1> QED
  BY <1>2, ApplyOwnerInv, ApplyAgentInv

LEMMA ApplyArchivedInv ==
    ASSUME Inv, ApplyArchived
    PROVE  Inv'
<1>1. /\ chain # <<>> /\ First.kind = "archive" /\ Ended
      /\ \/ file' = [file EXCEPT !.archived = First.on] /\ told' = [told EXCEPT !.archived = First.on]
         \/ UNCHANGED <<file, told>>
      /\ UNCHANGED <<asyncOnly, commands, emitted, archived, running, member, flying>>
  BY DEF ApplyArchived
<1>2. First.on \in BOOLEAN /\ stage = "queued"
  BY <1>1, FirstTask, TaskKinds DEF Inv, ChainOK, Types
<1>3. /\ chain' \in Seq(Tasks) /\ stage' = "queued"
      /\ \A k \in DOMAIN chain' : \E j \in DOMAIN chain : chain'[k] = chain[j]
      /\ \A at : Waits(at) => Waits(at)'
  BY <1>1, EndedFacts
<1>4. /\ file' \in Files /\ file'.mode = file.mode /\ file'.at = file.at /\ file'.pending = file.pending
      /\ file'.locked = file.locked
  BY <1>1, <1>2 DEF Inv, Types, Files
<1>5. /\ told' \in Tellings
      /\ told'.ceiling = told.ceiling /\ told'.lock = told.lock /\ told'.loose = told.loose
      /\ told'.astray = told.astray /\ told'.failed = told.failed
  BY <1>1, <1>2 DEF Inv, Types, Tellings
<1>6. file'.archived <=> told'.archived
  BY <1>1, <1>2 DEF Inv, Types, Tellings, Files, Barred
<1>7. Types'
  BY <1>1, <1>3, <1>4, <1>5 DEF Inv, Types
<1>8. Barred'
  BY <1>4, <1>5, <1>6 DEF Inv, Barred
<1>9. AtRest' /\ ChainOK'
  BY <1>1, <1>3 DEF Inv, AtRest, ChainOK
<1>10. Handed /\ Follows /\ Obeys
  BY DEF Inv
<1>11. Handed'
  BY <1>1, <1>3, <1>4, <1>5, <1>10 DEF Handed
<1>12. Follows'
  BY <1>1, <1>2, <1>3, <1>4, <1>5, <1>10 DEF Follows
<1>13. Obeys'
  BY <1>1, <1>3, <1>4, <1>5, <1>10 DEF Obeys, Asked
<1> QED
  BY <1>7, <1>8, <1>9, <1>11, <1>12, <1>13 DEF Inv

-----------------------------------------------------------------------------
(* Late publishes, and the process *)

LEMMA LandInv ==
    ASSUME Inv, NEW m \in Modes, Land(m)
    PROVE  Inv'
<1>1. /\ m \in flying /\ flying' = flying \ {m}
      /\ UNCHANGED <<asyncOnly, commands, emitted, archived, running, chain, stage, file>>
  BY DEF Land
<1>2. told \in Tellings /\ member \in Modes
  BY DEF Inv, Types
<1>3. /\ member' \in Modes /\ told' \in Tellings
      /\ told'.ceiling = told.ceiling /\ told'.lock = told.lock /\ told'.archived = told.archived
      /\ told'.loose = told.loose /\ told'.failed = told.failed
      /\ \/ member' = member /\ told'.astray = told.astray
         \/ member' = Expected /\ told'.astray = "no"
         \/ told'.astray = "landed"
  <2>1. CASE member' = m /\ told' = [told EXCEPT !.astray = IF m = Expected THEN "no" ELSE "landed"]
    <3>1. CASE m = Expected
      BY <1>2, <2>1, <3>1 DEF Tellings
    <3>2. CASE m # Expected
      BY <1>2, <2>1, <3>2 DEF Tellings
    <3> QED
      BY <3>1, <3>2
  <2>2. CASE UNCHANGED <<member, told>>
    BY <1>2, <2>2
  <2> QED
    BY <2>1, <2>2 DEF Land
<1>4. First' = First /\ \A at : Waits(at)' <=> Waits(at)
  BY <1>1 DEF First, Waits
<1>5. stage # "queued" => Target(First)' = Target(First)
  BY <1>1, <1>4, FirstTask, TaskKinds, SameTask DEF Inv, ChainOK
<1>6. Types'
  BY <1>1, <1>3 DEF Inv, Types
<1>7. Barred' /\ AtRest'
  BY <1>1, <1>3 DEF Inv, Barred, AtRest
<1>8. ChainOK'
  BY <1>1, <1>4, SameTask DEF Inv, ChainOK
<1>9. Handed /\ Follows /\ Obeys
  BY DEF Inv
<1>10. Handed'
  BY <1>1, <1>3, <1>4, <1>9 DEF Handed
<1>11. Follows'
  BY <1>1, <1>3, <1>5, <1>9 DEF Follows, Expected
<1>12. /\ stage = "published" => First.kind \in {"owner", "agent"}
       /\ First.kind \in {"owner", "agent"} /\ stage # "queued" => First \in Tasks
  BY FirstTask, TaskKinds DEF Inv, ChainOK
<1>13. ~told.loose /\ ~file.pending /\ ~asyncOnly => Attention[Expected] <= Attention[told.ceiling]
  BY <1>9 DEF Obeys, Asked, Expected
<1>14. Obeys'
  BY <1>1, <1>3, <1>4, <1>5, <1>9, <1>13 DEF Obeys, Asked
<1> QED
  BY <1>6, <1>7, <1>8, <1>10, <1>11, <1>14 DEF Inv

LEMMA DieInv ==
    ASSUME Inv, Die
    PROVE  Inv'
<1>1. /\ ~running' /\ chain' = <<>> /\ stage' = "queued" /\ emitted' = {}
      /\ told' = [told EXCEPT !.failed = {}, !.heard = @ \cup emitted]
      /\ UNCHANGED <<asyncOnly, commands, archived, file, member>>
  BY DEF Die
<1>2. flying' \subseteq Modes
  <2>1. stage = "publishing" => Target(First) \in Modes
    BY FirstTask DEF Inv, ChainOK
  <2> QED
    BY <2>1 DEF Die, Inv, Types
<1>3. emitted \subseteq 1..MaxCommands
  <2>1. Len(commands) \in Nat /\ MaxCommands \in Nat /\ Len(commands) <= MaxCommands
    BY LenProperties, ValuesAssumption DEF Inv, Types
  <2> QED
    BY <2>1 DEF Inv, Types
<1>4. /\ told' \in Tellings
      /\ told'.ceiling = told.ceiling /\ told'.lock = told.lock /\ told'.archived = told.archived
      /\ told'.loose = told.loose /\ told'.astray = told.astray
  BY <1>1, <1>3 DEF Inv, Types, Tellings
<1>5. Types'
  <2>1. chain' \in Seq(Tasks)
    BY <1>1
  <2>2. running' = FALSE
    BY DEF Die
  <2>3. running' \in BOOLEAN
    BY <2>2
  <2> QED
    BY <1>1, <1>2, <1>4, <2>1, <2>3 DEF Inv, Types
<1>6. Barred' /\ AtRest' /\ ChainOK'
  BY <1>1, <1>4 DEF Inv, Barred, AtRest, ChainOK
<1>7. Obeys
  BY DEF Inv
<1>8. Handed' /\ Follows'
  BY <1>1 DEF Handed, Follows
<1>9. Obeys'
  BY <1>1, <1>4, <1>7 DEF Obeys, Asked
<1> QED
  BY <1>5, <1>6, <1>8, <1>9 DEF Inv

LEMMA RejoinInv ==
    ASSUME Inv, Rejoin
    PROVE  Inv'
<1>1. /\ ~running /\ ~asyncOnly /\ running' = TRUE
      /\ UNCHANGED <<asyncOnly, commands, emitted, archived, chain, stage, member, flying>>
  BY DEF Rejoin
<1>2. chain = <<>> /\ stage = "queued" /\ emitted = {}
  BY <1>1 DEF Inv, AtRest
<1>3. PICK flag \in {file.archived, archived} :
          /\ file' = [file EXCEPT !.mode = member, !.archived = flag]
          /\ told' = [told EXCEPT !.archived = flag, !.astray = "no",
                                  !.loose = @ \/ told.astray = "landed"]
  BY DEF Rejoin
<1>4. flag \in BOOLEAN /\ (told.loose \/ told.astray = "landed") \in BOOLEAN
  BY DEF Inv, Types, Files
<1>5. /\ file' \in Files /\ file'.mode = member /\ file'.at = file.at /\ file'.pending = file.pending
      /\ file'.locked = file.locked /\ file'.archived = flag
  BY <1>3, <1>4 DEF Inv, Types, Files
<1>6. /\ told' \in Tellings
      /\ told'.ceiling = told.ceiling /\ told'.archived = flag /\ told'.lock = told.lock
      /\ told'.astray = "no" /\ told'.failed = told.failed
      /\ told'.loose <=> told.loose \/ told.astray = "landed"
  BY <1>3, <1>4 DEF Inv, Types, Tellings
<1>7. Types'
  <2>1. running' \in BOOLEAN
    BY <1>1
  <2> QED
    BY <1>1, <1>5, <1>6, <2>1 DEF Inv, Types
<1>8. Barred'
  BY <1>5, <1>6 DEF Inv, Barred
<1>9. AtRest' /\ ChainOK'
  BY <1>1, <1>2 DEF AtRest, ChainOK
<1>10. Obeys
  BY DEF Inv
<1>11. Handed' /\ Follows'
  BY <1>1, <1>2, <1>5, <1>6 DEF Handed, Follows
<1>12. Obeys'
  BY <1>1, <1>2, <1>5, <1>6, <1>10 DEF Obeys, Asked
<1> QED
  BY <1>7, <1>8, <1>9, <1>11, <1>12 DEF Inv

LEMMA RejoinAsyncOnlyInv ==
    ASSUME Inv, RejoinAsyncOnly
    PROVE  Inv'
<1>1. PICK mode : mode = IF file.mode = "mute" THEN "mute" ELSE "async"
  OBVIOUS
<1>2. /\ ~running /\ asyncOnly /\ running' = TRUE /\ file' = Fresh(mode)
      /\ UNCHANGED <<asyncOnly, commands, emitted, archived, chain, stage>>
  BY <1>1 DEF RejoinAsyncOnly
<1>3. PICK astray \in {"no", "failed"} :
          /\ told' = [told EXCEPT !.lock = FALSE, !.archived = FALSE, !.astray = astray]
          /\ \/ astray = "no" /\ member' = mode /\ UNCHANGED flying
             \/ astray = "failed" /\ flying' \in {flying, flying \cup {mode}} /\ UNCHANGED member
  BY <1>1 DEF RejoinAsyncOnly
<1>4. chain = <<>> /\ stage = "queued" /\ emitted = {}
  BY <1>2 DEF Inv, AtRest
<1>5. /\ mode \in Modes /\ file.mode \in Modes /\ told.ceiling \in Modes
      /\ Len(commands) \in Nat /\ MaxCommands \in Nat
  BY <1>1, Levels, LenProperties, ValuesAssumption DEF Inv, Types, Files, Tellings
<1>6. /\ file' \in Files /\ file'.mode = mode /\ file'.at = 0 /\ ~file'.pending
      /\ ~file'.locked /\ ~file'.archived
  BY <1>2, <1>5 DEF Fresh, Files
<1>7. /\ told' \in Tellings /\ ~told'.lock /\ ~told'.archived /\ told'.astray = astray
      /\ told'.ceiling = told.ceiling /\ told'.loose = told.loose /\ told'.failed = told.failed
  BY <1>3 DEF Inv, Types, Tellings
<1>8. member' \in Modes /\ flying' \subseteq Modes /\ (astray = "no" => member' = mode)
  BY <1>3, <1>5 DEF Inv, Types
<1>9. Types'
  <2>1. running' \in BOOLEAN
    BY <1>2
  <2> QED
    BY <1>2, <1>5, <1>6, <1>7, <1>8, <2>1 DEF Inv, Types
<1>10. Barred' /\ AtRest' /\ ChainOK'
  BY <1>2, <1>4, <1>6, <1>7 DEF Barred, AtRest, ChainOK
<1>11. Handed' /\ Follows'
  BY <1>2, <1>4, <1>6, <1>7, <1>8 DEF Handed, Follows
<1>12. ~told.loose => Attention[mode] <= Attention[told.ceiling]
  <2> SUFFICES ASSUME ~told.loose PROVE Attention[mode] <= Attention[told.ceiling]
    OBVIOUS
  <2>1. Attention[file.mode] <= Attention[told.ceiling]
    BY <1>2 DEF Inv, Obeys, Asked
  <2>2. Attention[told.ceiling] \in Nat /\ Attention[file.mode] \in Nat /\ Attention[mode] \in Nat
    BY <1>5, Levels
  <2>3. Attention[mode] <= Attention[file.mode]
    <3>1. CASE file.mode = "mute"
      <4>1. mode = file.mode
        BY <1>1, <3>1
      <4> QED
        BY <2>2, <4>1
    <3>2. CASE file.mode # "mute"
      <4>1. mode = "async"
        BY <1>1, <3>2
      <4>2. Attention[mode] = 1 /\ Attention[file.mode] >= 1
        BY <1>5, <3>2, <4>1, Levels
      <4> QED
        BY <2>2, <4>2
    <3> QED
      BY <3>1, <3>2
  <2> QED
    BY <2>1, <2>2, <2>3
<1>13. Obeys'
  BY <1>2, <1>4, <1>6, <1>7, <1>12 DEF Obeys, Asked
<1> QED
  BY <1>9, <1>10, <1>11, <1>13 DEF Inv

-----------------------------------------------------------------------------
(* The invariant holds in every behaviour *)

LEMMA InvInit == Init => Inv
<1> SUFFICES ASSUME Init PROVE Inv
  OBVIOUS
<1>1. /\ commands = <<>> /\ chain = <<>> /\ stage = "queued" /\ emitted = {} /\ flying = {}
      /\ file = Fresh("sync") /\ member = "sync" /\ running = FALSE /\ archived = FALSE
      /\ told = [ceiling |-> "sync", lock |-> FALSE, archived |-> FALSE, astray |-> "no",
                 loose |-> FALSE, failed |-> {}, heard |-> {}, older |-> {}]
      /\ asyncOnly \in BOOLEAN
  BY DEF Init
<1>2. "sync" \in Modes /\ MaxCommands \in Nat
  BY ValuesAssumption
<1>3. /\ file \in Files /\ file.mode = "sync" /\ file.at = 0 /\ ~file.pending /\ ~file.locked /\ ~file.archived
  BY <1>1, <1>2 DEF Fresh, Files
<1>4. told \in Tellings /\ told.ceiling = "sync" /\ ~told.lock /\ ~told.archived
  BY <1>1, <1>2 DEF Tellings
<1>5. Types
  <2>1. commands \in Seq(Commands) /\ Len(commands) = 0 /\ chain \in Seq(Tasks)
    BY <1>1
  <2>2. archived \in BOOLEAN /\ running \in BOOLEAN
    BY <1>1
  <2> QED
    BY <1>1, <1>2, <1>3, <1>4, <2>1, <2>2 DEF Types
<1>6. Barred /\ AtRest /\ ChainOK
  BY <1>1, <1>3, <1>4 DEF Barred, AtRest, ChainOK
<1>7. Handed /\ Follows
  BY <1>1 DEF Handed, Follows
<1>8. Obeys
  BY <1>1, <1>2, <1>3, <1>4, Levels DEF Obeys, Asked
<1> QED
  BY <1>5, <1>6, <1>7, <1>8 DEF Inv

LEMMA Stutter ==
    ASSUME Inv, UNCHANGED vars
    PROVE  Inv'
<1>1. UNCHANGED <<asyncOnly, commands, emitted, archived, running, chain, stage, file, member, flying, told>>
  BY DEF vars
<1>2. Types' /\ Barred' /\ AtRest'
  BY <1>1 DEF Inv, Types, Barred, AtRest
<1>3. ChainOK' /\ Handed' = Handed /\ Follows' = Follows /\ Obeys' = Obeys
  BY <1>1 DEF Inv, ChainOK, First, Dropped, Stale, Refused, Handed, Waits, Follows, Target, Obeys, Asked
<1> QED
  BY <1>1, <1>2, <1>3 DEF Inv

LEMMA InvStep == Inv /\ [Next]_vars => Inv'
<1> SUFFICES ASSUME Inv, [Next]_vars PROVE Inv'
  OBVIOUS
<1>1. CASE IdleMute
  BY <1>1, SetModeInv, Levels DEF IdleMute
<1> QED
  BY <1>1, SendCommandInv, IntakeModeInv, ArchiveInv, SetModeInv, DropInv, PublishInv, PublishedInv,
     PublishFailsInv, ApplyInv, ApplyFailsInv, ApplyArchivedInv, LandInv, DieInv, RejoinInv,
     RejoinAsyncOnlyInv, Stutter DEF Next

LEMMA InvAlways == Spec => []Inv
<1> QED
  BY InvInit, InvStep, PTL DEF Spec

-----------------------------------------------------------------------------
(* The theorems *)

\* mode.json, the member state and the chain of changes in client-impl.ts stay well formed.
THEOREM TypeCorrect == Spec => []TypeOK
<1>1. Inv => TypeOK
  <2> SUFFICES ASSUME Inv PROVE TypeOK
    OBVIOUS
  <2>1. emitted \subseteq 1..MaxCommands
    <3>1. Len(commands) \in Nat /\ MaxCommands \in Nat /\ Len(commands) <= MaxCommands
      BY LenProperties, ValuesAssumption DEF Inv, Types
    <3>2. emitted \subseteq 1..Len(commands)
      BY DEF Inv, Types
    <3> QED
      BY <3>1, <3>2
  <2> QED
    BY <2>1 DEF Inv, Types, TypeOK
<1> QED
  BY <1>1, InvAlways, PTL

\* However late, often and in whatever order intakeMode gets the owner's commands, across
\* restarts: the newest one that was handed over, and whose application did not fail, is the
\* one that counts; and the agent listens no closer than the owner asked, as long as no rejoin
\* has adopted a publish given up on and no change of the agent's own has taken the place of a
\* command that waited to be published again.
THEOREM NewestCounts == Spec => []NewestCommandCounts
<1>1. Inv => NewestCommandCounts
  <2> SUFFICES ASSUME Inv, Idle, Len(commands) \in emitted \ told.failed
               PROVE  /\ file.at = Len(commands)
                      /\ ~told.loose => Attention[file.mode] <= Attention[told.ceiling]
    BY DEF NewestCommandCounts
  <2>1. chain = <<>> /\ \A at : ~Waits(at)
    BY DEF Idle, Waits
  <2>2. Len(commands) \in Nat /\ file.at \in Nat /\ file.at <= Len(commands)
    BY LenProperties DEF Inv, Types, Files
  <2>3. file.at = Len(commands)
    BY <2>1, <2>2 DEF Inv, Handed
  <2>4. ~told.loose => Attention[file.mode] <= Attention[told.ceiling]
    BY <2>1, <2>3 DEF Inv, Obeys, Asked
  <2> QED
    BY <2>3, <2>4
<1> QED
  BY <1>1, InvAlways, PTL

\* The owner sees the mode that the agent is in, once no change is under way, for any number of
\* failed publishes, deaths and rejoins, unless a command waits to be published again or the
\* member state was put out of step and not mended since: by a publish given up on (setMode,
\* intakeMode), by a file not written after the publish, or by an async-only rejoin.
THEOREM RosterCorrect == Spec => []RosterFollows
<1>1. Inv => RosterFollows
  BY DEF Inv, Follows, ChainOK, Idle, RosterFollows
<1> QED
  BY <1>1, InvAlways, PTL

\* Between the moment a change of the agent's own is let through (setMode) and the moment it is
\* written nothing else is, so that an agent its owner has locked or archived stays in its mode.
LEMMA BarredStep ==
    ASSUME Inv, [Next]_vars, running, running', told.lock \/ told.archived,
           file'.by = "agent"
    PROVE  file'.mode = file.mode
<1>1. file.locked \/ file.archived
  BY DEF Inv, Barred
<1>2. CASE Apply
  <2>1. CASE First.kind = "agent"
    <3>1. Dropped(First)
      BY <1>1, <2>1 DEF Dropped, Refused
    <3> QED
      BY <1>2, <3>1 DEF Apply, Inv, ChainOK
  <2>2. CASE First.kind # "agent"
    BY <1>2, <2>2 DEF Apply, ApplyListeningMode
  <2> QED
    BY <2>1, <2>2
<1>3. CASE ApplyArchived
  <2>1. file \in Files /\ (file' = [file EXCEPT !.archived = First.on] \/ UNCHANGED file)
    BY <1>3 DEF ApplyArchived, Inv, Types
  <2> QED
    BY <2>1 DEF Files
<1>4. CASE ~Apply /\ ~ApplyArchived
  BY <1>4 DEF Next, vars, SendCommand, IntakeMode, Archive, IdleMute, SetMode, Drop, Publish, Published,
     PublishFails, ApplyFails, Land, Die, Rejoin, RejoinAsyncOnly
<1> QED
  BY <1>2, <1>3, <1>4

\* No agent to which its owner's lock or archive flag has been applied changes its own mode
\* (setMode, idleMute), whatever commands and restarts come in between, until the owner takes
\* them back or, on an async-only harness, until it joins again.
THEOREM BarredStays == Spec => BarredAgentStays
<1> DEFINE Stays == running /\ running' /\ (told.lock \/ told.archived) =>
                        ~(file'.by = "agent" /\ file'.mode # file.mode)
<1>1. Inv /\ [Next]_vars => [Stays]_vars
  BY BarredStep
<1> HIDE DEF Stays
<1>2. Spec => [][Stays]_vars
  BY <1>1, InvAlways, PTL DEF Spec
<1> QED
  BY <1>2 DEF BarredAgentStays, Stays

-----------------------------------------------------------------------------
(* AgentClient: the inductive invariant *)

Outer == {"ended", "failed"}
InRoom(a, r) == att[a].link \in Links /\ Room(a) = r

\* What is true of an attempt x wherever it is.
ShapeOf(x) ==
    /\ x.pc = "unused" => x = Unused
    /\ x.pc # "unused" => x.link \in Links
    /\ x.pc \in {"request", "poll", "claim", "write", "start"} => x.session = "none"
    /\ x.opening => x.pc = "start" \/ (x.pc = "ended" /\ x.aborted)
    /\ x.pc # "claim" => x.claim = "none"
    /\ x.pc \in {"write", "start", "ready", "sync"} => x.files

ShapeInv == \A a \in Attempts : ShapeOf(att[a])

\* What works is registered, and what waits for its request has a join that does.
Registers(a) ==
    /\ att[a].pc \notin {"unused", "request", "ended"} \/ att[a].session = "live"
          => attempts[att[a].link] = a
    /\ att[a].pc = "request" =>
          joining[att[a].link].pc = "request" /\ joining[att[a].link].att = a

RegInv ==
    /\ \A l \in Links : attempts[l] # None =>
          att[attempts[l]].link = l /\ att[attempts[l]].pc # "unused"
    /\ \A a \in Attempts : Registers(a)

\* The join of a link and the attempt it is about.
JoinOK(l, j) ==
    /\ j.pc \in {"idle", "turn", "cancel"} <=> j.att = None
    /\ j.pc = "register" => /\ att[j.att].pc = "unused" /\ attempts[l] = None
                            /\ \A k \in Links \ {l} : joining[k].att # j.att
    /\ j.pc = "request" => /\ att[j.att].pc = "request" /\ att[j.att].link = l
                           /\ attempts[l] = j.att \/ (attempts[l] = None /\ att[j.att].aborted)
    /\ j.pc = "cancel" => attempts[l] = None \/
          \E c \in cleaning : c.by = <<"join", l>> /\ c.of = attempts[l]

JoinInv == \A l \in Links : JoinOK(l, joining[l])

\* Who cancels has aborted; what is cleaned up no longer runs and has no live session.
CleanOK(c) ==
    /\ att[c.of].pc # "unused"
    /\ c.by[1] \notin Outer =>
          /\ att[c.of].aborted
          /\ c.step # "task" =>
                att[c.of].pc \in {"request", "ended"} /\ att[c.of].session # "live"
    /\ c.by[1] = "close" => closing \notin {"open", "waiting"}

CleanInv == \A c \in cleaning : CleanOK(c)

\* A claim that waits or is under way: its attempt waits for it, unless it was aborted.
WaitsForClaim(a) ==
    \/ att[a].pc = "claim" /\ att[a].claim = "queued"
    \/ att[a].pc = "ended" /\ att[a].aborted

EntryOK(r, i, e) ==
    /\ i > 1 => ~e.begun
    /\ e.kind = "leave" => e.att = None
    /\ e.kind = "claim" =>
          /\ e.att # None /\ InRoom(e.att, r) /\ WaitsForClaim(e.att)
          /\ \A j \in 1..Len(queue[r]) : queue[r][j].att = e.att => i = j

QueueInv == \A r \in Rooms : \A i \in 1..Len(queue[r]) : EntryOK(r, i, queue[r][i])

ChanOK(r, a) ==
    /\ att[a].pc # "unused" /\ InRoom(a, r)
    /\ att[a].pc # "ended" => r \in stored

ChanInv == \A r \in Rooms : channels[r] # None => ChanOK(r, channels[r])

\* Credentials on disk are those of a registered attempt that has claimed the room.
DiskOK(r, a) ==
    /\ att[a].pc \notin {"unused", "request"} /\ InRoom(a, r) /\ att[a].files
    /\ attempts[att[a].link] = a

DiskInv == \A r \in Rooms : disk[r].session # None => DiskOK(r, disk[r].session)

CloseInv ==
    /\ closing \in {"attempts", "done", "failed"} => \A l \in Links : joining[l].pc = "idle"
    /\ closing = "attempts" => \A l \in Links : attempts[l] # None =>
          \E c \in cleaning : c.by = <<"close", attempts[l]>> /\ c.of = attempts[l]
    /\ closing = "done" => \A l \in Links : attempts[l] = None

Underway(r) == queue[r] # <<>> /\ FirstChange(r).begun

Claiming(r) == Underway(r) /\ FirstChange(r).kind = "claim" /\ Current(FirstChange(r).att)

\* A slot without a directory is that of the claim under way; a claim that is aborted has a
\* room with a directory, and its room waits for it.
SlotInv ==
    /\ stored \subseteq slots
    /\ ~Closed => \A r \in Rooms :
          /\ Claiming(r) => r \in slots
          /\ r \in slots => r \in stored \/ Claiming(r)
    /\ ~Closed => \A a \in Attempts : att[a].pc = "claim" /\ att[a].aborted =>
          /\ Room(a) \in stored
          /\ \E c \in cleaning : c.of = a /\ c.by = <<"room", Room(a)>>

Claimed(x) ==
    x.claim = "done" \/ x.pc \in {"write", "start", "ready", "sync"} \/ x.session = "live"

\* An attempt that has claimed its room has it, and no change of the room is under way that
\* would take it.
NameOK(a) ==
    Claimed(att[a]) /\ Current(a) =>
       /\ att[a].files
       /\ ~att[a].displaced =>
             /\ channels[Room(a)] = a
             /\ Underway(Room(a)) => FirstChange(Room(a)).att = a

NameInv == \A a \in Attempts : NameOK(a)

ClientInv ==
    /\ ClientTypeOK /\ ShapeInv /\ RegInv /\ JoinInv /\ CleanInv /\ QueueInv /\ ChanInv
    /\ DiskInv /\ CloseInv /\ SlotInv /\ NameInv

-----------------------------------------------------------------------------
(* What a step that changes attempts keeps                                  *)

\* y is x later on: nothing comes back.
Later(x, y) ==
    /\ y.link = x.link
    /\ x.files => y.files
    /\ x.aborted => y.aborted
    /\ x.displaced => y.displaced
    /\ x.pc = "unused" <=> y.pc = "unused"
    /\ x.pc = "request" <=> y.pc = "request"
    /\ x.pc = "ended" => y.pc = "ended"
    /\ y.session = "live" => x.session = "live" \/ x.pc = "start"

\* Its claim is not answered.
Awaits(x, y) ==
    x.pc = "claim" /\ x.claim = "queued" =>
       (y.pc = "claim" /\ y.claim = "queued") \/ (y.pc = "ended" /\ y.aborted)

\* Its claim is not aborted.
Calm(x, y) ==
    /\ y.pc = "claim" /\ y.aborted => x.pc = "claim" /\ x.aborted
    /\ x.pc = "claim" /\ x.claim = "queued" /\ ~x.aborted => ~y.aborted

\* It has claimed nothing that it had not.
Gains(x, y) == Claimed(y) /\ ~y.aborted => Claimed(x)

Quiet(x, y) == Awaits(x, y) /\ Calm(x, y) /\ Gains(x, y)

AllLater == \A a \in Attempts : Later(att[a], att'[a]) /\ ShapeOf(att'[a])
AllWait == \A a \in Attempts : Awaits(att[a], att'[a])
AllCalm == \A a \in Attempts : Calm(att[a], att'[a])
AllGain == \A a \in Attempts : Gains(att[a], att'[a])

\* The change of a room that is under way is the one that was.
StillFront == \A r \in Rooms : /\ Underway(r)' <=> Underway(r)
                               /\ Underway(r) => FirstChange(r)' = FirstChange(r)
SameFront == \A r \in Rooms : Underway(r)' => Underway(r) /\ FirstChange(r)' = FirstChange(r)

\* Whoever cleans up still does.
Kept == \A c \in cleaning : \E d \in cleaning' : d.by = c.by /\ d.of = c.of

LEMMA ClientTypes ==
    ASSUME ClientTypeOK
    PROVE  /\ att \in [Attempts -> AttemptStates]
           /\ attempts \in [Links -> Attempts \cup {None}]
           /\ channels \in [Rooms -> Attempts \cup {None}]
           /\ joining \in [Links -> JoinStates]
           /\ cleaning \subseteq Cleanups
           /\ \A c \in cleaning : c.of \in Attempts
           /\ \A l \in Links : joining[l].att \in Attempts \cup {None}
           /\ \A r \in Rooms : disk[r].session \in Attempts \cup {None}
           /\ \A r \in Rooms : queue[r] \in Seq(Changes)
           /\ \A r \in Rooms : \A i \in 1..Len(queue[r]) :
                 queue[r][i] \in Changes /\ queue[r][i].att \in Attempts \cup {None}
           /\ None \notin Attempts
           /\ RoomOf \in [Links -> Rooms]
<1>1. None \notin Attempts /\ RoomOf \in [Links -> Rooms]
  BY ClientAssumption DEF Attempts
<1>2. \A r \in Rooms : \A i \in 1..Len(queue[r]) :
         queue[r][i] \in Changes /\ queue[r][i].att \in Attempts \cup {None}
  <2> SUFFICES ASSUME NEW r \in Rooms, NEW i \in 1..Len(queue[r])
               PROVE  queue[r][i] \in Changes /\ queue[r][i].att \in Attempts \cup {None}
    OBVIOUS
  <2>1. queue[r] \in Seq(Changes)
    BY DEF ClientTypeOK
  <2>2. queue[r][i] \in Changes
    BY <2>1
  <2> QED BY <2>2 DEF Changes
<1>3. \A c \in cleaning : c.of \in Attempts
  BY DEF ClientTypeOK, Cleanups
<1>4. \A l \in Links : joining[l].att \in Attempts \cup {None}
  BY DEF ClientTypeOK, JoinStates
<1>5. \A r \in Rooms : disk[r].session \in Attempts \cup {None}
  BY DEF ClientTypeOK
<1> QED BY <1>1, <1>2, <1>3, <1>4, <1>5 DEF ClientTypeOK

LEMMA OneLater ==
    ASSUME ClientTypeOK, ShapeInv, NEW a \in Attempts, NEW y \in AttemptStates,
           att' = [att EXCEPT ![a] = y], Later(att[a], y), ShapeOf(y)
    PROVE  /\ att' \in [Attempts -> AttemptStates] /\ att'[a] = y
           /\ \A b \in Attempts \ {a} : att'[b] = att[b]
           /\ AllLater
           /\ Awaits(att[a], y) => AllWait
           /\ Calm(att[a], y) => AllCalm
           /\ Gains(att[a], y) => AllGain
<1>1. att' \in [Attempts -> AttemptStates] /\ att'[a] = y
      /\ \A b \in Attempts \ {a} : att'[b] = att[b]
  BY ClientTypes
<1>2. \A b \in Attempts \ {a} : /\ Later(att[b], att[b]) /\ ShapeOf(att[b]) /\ Awaits(att[b], att[b])
                               /\ Calm(att[b], att[b]) /\ Gains(att[b], att[b])
  BY DEF ShapeInv, Later, Awaits, Calm, Gains
<1> QED BY <1>1, <1>2 DEF AllLater, AllWait, AllCalm, AllGain

LEMMA RegKept ==
    ASSUME ClientTypeOK, ShapeInv, RegInv, AllLater, UNCHANGED <<attempts, joining>>
    PROVE  RegInv'
<1>1. ASSUME NEW l \in Links, attempts[l] # None
      PROVE  att'[attempts[l]].link = l /\ att'[attempts[l]].pc # "unused"
  BY <1>1, ClientTypes DEF RegInv, AllLater, Later
<1>2. ASSUME NEW a \in Attempts PROVE Registers(a)'
  <2>1. Later(att[a], att'[a]) /\ Registers(a)
    BY DEF AllLater, RegInv
  <2> QED BY <2>1 DEF Later, Registers
<1> QED BY <1>1, <1>2 DEF RegInv

LEMMA JoinKept ==
    ASSUME ClientTypeOK, JoinInv, AllLater, UNCHANGED <<attempts, joining>>, Kept
    PROVE  JoinInv'
<1> SUFFICES ASSUME NEW l \in Links PROVE JoinOK(l, joining[l])'
  BY DEF JoinInv
<1>1. JoinOK(l, joining[l]) /\ joining[l].att \in Attempts \cup {None}
  BY ClientTypes DEF JoinInv
<1>2. joining[l].att # None => Later(att[joining[l].att], att'[joining[l].att])
  BY <1>1 DEF AllLater
<1>3. joining[l].pc = "request" \/ joining[l].pc = "register" => joining[l].att # None
  BY <1>1 DEF JoinOK
<1> QED BY <1>1, <1>2, <1>3 DEF JoinOK, Later, Kept

LEMMA CleanKept ==
    ASSUME ClientTypeOK, CleanInv, AllLater, \A d \in cleaning' : d \in cleaning \/ CleanOK(d)',
           closing \notin {"open", "waiting"} => closing' \notin {"open", "waiting"}
    PROVE  CleanInv'
<1> SUFFICES ASSUME NEW c \in cleaning PROVE CleanOK(c)'
  BY DEF CleanInv
<1>1. CleanOK(c) /\ Later(att[c.of], att'[c.of])
  BY ClientTypes DEF CleanInv, AllLater
<1> QED BY <1>1 DEF CleanOK, Later

LEMMA QueueKept ==
    ASSUME ClientTypeOK, QueueInv, AllLater, AllWait, UNCHANGED queue
    PROVE  QueueInv'
<1> SUFFICES ASSUME NEW r \in Rooms, NEW i \in 1..Len(queue[r])
             PROVE  EntryOK(r, i, queue[r][i])'
  BY DEF QueueInv
<1>1. EntryOK(r, i, queue[r][i]) /\ queue[r][i].att \in Attempts \cup {None}
  BY ClientTypes DEF QueueInv
<1>2. queue[r][i].kind = "claim" =>
         Later(att[queue[r][i].att], att'[queue[r][i].att])
         /\ Awaits(att[queue[r][i].att], att'[queue[r][i].att]) /\ WaitsForClaim(queue[r][i].att)
         /\ InRoom(queue[r][i].att, r)
  BY <1>1 DEF AllLater, AllWait, EntryOK
<1>3. queue[r][i].kind = "claim" =>
         WaitsForClaim(queue[r][i].att)' /\ InRoom(queue[r][i].att, r)'
  BY <1>2 DEF Later, Awaits, WaitsForClaim, InRoom, Room
<1> QED BY <1>1, <1>3 DEF EntryOK

LEMMA ChanKept ==
    ASSUME ClientTypeOK, ChanInv, AllLater, UNCHANGED channels, stored \subseteq stored'
    PROVE  ChanInv'
<1> SUFFICES ASSUME NEW r \in Rooms, channels[r] # None PROVE ChanOK(r, channels[r])'
  BY DEF ChanInv
<1>1. ChanOK(r, channels[r]) /\ Later(att[channels[r]], att'[channels[r]])
  BY ClientTypes DEF ChanInv, AllLater
<1> QED BY <1>1 DEF ChanOK, Later, InRoom, Room

LEMMA DiskKept ==
    ASSUME ClientTypeOK, DiskInv, AllLater, UNCHANGED attempts,
           \A r \in Rooms : disk'[r].session \in {None, disk[r].session}
    PROVE  DiskInv'
<1> SUFFICES ASSUME NEW r \in Rooms, disk'[r].session # None
             PROVE  DiskOK(r, disk[r].session)'
  BY DEF DiskInv
<1>1. PICK a \in Attempts : disk'[r].session = a /\ disk[r].session = a
  BY ClientTypes
<1>2. DiskOK(r, a) /\ Later(att[a], att'[a])
  BY <1>1, ClientTypes DEF DiskInv, AllLater
<1>3. DiskOK(r, a)'
  BY <1>1, <1>2 DEF DiskOK, Later, InRoom, Room
<1> QED BY <1>1, <1>3 DEF DiskOK, InRoom, Room

LEMMA CloseKept ==
    ASSUME CloseInv, UNCHANGED <<attempts, joining, closing>>, Kept
    PROVE  CloseInv'
BY DEF CloseInv, Kept

LEMMA CurrentKept ==
    ASSUME ClientTypeOK, AllLater, AllCalm, UNCHANGED <<attempts, closing>>, NEW a \in Attempts
    PROVE  /\ Current(a)' => Current(a)
           /\ att[a].pc = "claim" /\ att[a].claim = "queued" /\ Current(a) => Current(a)'
<1>1. Later(att[a], att'[a]) /\ Calm(att[a], att'[a])
  BY DEF AllLater, AllCalm
<1> QED BY <1>1, ClientTypes DEF Later, Calm, Current, Closed, AttemptStates

\* What has claimed its room and is current had claimed it before, or is looked at by hand.
LEMMA NameKept ==
    ASSUME ClientTypeOK, ShapeInv, NameInv, AllLater, UNCHANGED channels, SameFront,
           NEW S \in SUBSET Attempts,
           \A a \in S : Current(a)' => Current(a),
           \A a \in S : Gains(att[a], att'[a]),
           \A a \in Attempts \ S : NameOK(a)'
    PROVE  NameInv'
<1> SUFFICES ASSUME NEW a \in S PROVE NameOK(a)'
  BY DEF NameInv
<1>1. NameOK(a) /\ Later(att[a], att'[a]) /\ Gains(att[a], att'[a]) /\ (Current(a)' => Current(a))
  BY DEF NameInv, AllLater
<1>2. ASSUME Claimed(att'[a]), Current(a)'
      PROVE  Claimed(att[a]) /\ Current(a)
  BY <1>1, <1>2 DEF Gains, Current
<1>3. Room(a)' = Room(a) /\ (att[a].files => att'[a].files)
      /\ (att[a].displaced => att'[a].displaced)
  BY <1>1 DEF Later, Room
<1>4. ASSUME Claimed(att'[a]), Current(a)', ~att'[a].displaced, Underway(Room(a))'
      PROVE  FirstChange(Room(a))'.att = a
  <2>1. PICK r : r = Room(a) /\ r = Room(a)'
    BY <1>3
  <2>2. CASE r \in Rooms
    <3>1. Underway(r)' /\ Underway(r) /\ FirstChange(r)' = FirstChange(r)
      BY <1>4, <2>1, <2>2 DEF SameFront, Underway, FirstChange
    <3>2. FirstChange(r).att = a
      BY <1>1, <1>2, <1>3, <1>4, <2>1, <3>1 DEF NameOK
    <3> QED BY <2>1, <3>1, <3>2 DEF FirstChange
  <2>3. Room(a) \in Rooms
    BY <1>2, <1>4, ClientTypes DEF ShapeInv, ShapeOf, Claimed, Unused, Room
  <2> QED BY <2>1, <2>2, <2>3
<1> QED BY <1>1, <1>2, <1>3, <1>4 DEF NameOK

LEMMA ClaimingKept ==
    ASSUME ClientTypeOK, QueueInv, AllLater, AllCalm, UNCHANGED <<attempts, closing>>,
           NEW r \in Rooms, Underway(r)' <=> Underway(r),
           Underway(r) => FirstChange(r)' = FirstChange(r)
    PROVE  Claiming(r)' <=> Claiming(r)
<1>1. CASE Underway(r) /\ FirstChange(r).kind = "claim"
  <2>1. queue[r] \in Seq(Changes) /\ 1 \in 1..Len(queue[r])
    BY <1>1, ClientTypes DEF Underway
  <2>2. PICK a \in Attempts : a = FirstChange(r).att
    BY <1>1, <2>1, ClientTypes DEF QueueInv, EntryOK, FirstChange
  <2>3. WaitsForClaim(a)
    BY <1>1, <2>1, <2>2 DEF QueueInv, EntryOK, FirstChange
  <2>4. Current(a)' <=> Current(a)
    BY <2>3, CurrentKept DEF WaitsForClaim, Current
  <2>5. Claiming(r) <=> Current(a)
    BY <1>1, <2>2 DEF Claiming
  <2>6. Claiming(r)' <=> Current(a)'
    BY <1>1, <2>2 DEF Claiming, Current
  <2> QED BY <2>4, <2>5, <2>6
<1>2. CASE ~(Underway(r) /\ FirstChange(r).kind = "claim")
  BY <1>2 DEF Claiming
<1> QED BY <1>1, <1>2

LEMMA SlotKept ==
    ASSUME ClientTypeOK, SlotInv, AllLater, Kept, UNCHANGED stored, stored \subseteq slots',
           Closed => Closed',
           ~Closed' => slots' = slots /\ \A r \in Rooms : Claiming(r)' <=> Claiming(r),
           \A a \in Attempts : att'[a].pc = "claim" /\ att'[a].aborted =>
              att[a].pc = "claim" /\ att[a].aborted
    PROVE  SlotInv'
<1>1. ASSUME ~Closed', NEW a \in Attempts, att'[a].pc = "claim", att'[a].aborted
      PROVE  /\ Room(a)' \in stored
             /\ \E c \in cleaning' : c.of = a /\ c.by = <<"room", Room(a)'>>
  <2>1. Room(a)' = Room(a) /\ att[a].pc = "claim" /\ att[a].aborted
    BY <1>1 DEF AllLater, Later, Room
  <2>2. Room(a) \in stored /\ \E c \in cleaning : c.of = a /\ c.by = <<"room", Room(a)>>
    BY <1>1, <2>1 DEF SlotInv
  <2> QED BY <2>1, <2>2 DEF Kept
<1>2. ASSUME ~Closed', NEW r \in Rooms
      PROVE  (Claiming(r)' => r \in slots') /\ (r \in slots' => r \in stored' \/ Claiming(r)')
  BY <1>2 DEF SlotInv
<1> QED BY <1>1, <1>2 DEF SlotInv

LEMMA DiskApart ==
    ASSUME ClientInv, ClientTypeOK', AllLater, AllWait, AllCalm, AllGain, Kept, CleanInv',
           UNCHANGED <<attempts, channels, stored, queue, joining, closing>>,
           UNCHANGED slots \/ (Closed /\ stored \subseteq slots'), DiskInv'
    PROVE  ClientInv'
<1>1. ShapeInv'
  BY DEF AllLater, ShapeInv
<1>2. StillFront /\ SameFront
  BY DEF StillFront, SameFront, Underway, FirstChange
<1>3. SlotInv'
  <2>1. \A r \in Rooms : Claiming(r)' <=> Claiming(r)
    BY <1>2, ClaimingKept DEF ClientInv, StillFront
  <2>2. \A a \in Attempts : att'[a].pc = "claim" /\ att'[a].aborted =>
            att[a].pc = "claim" /\ att[a].aborted
    BY DEF AllCalm, Calm
  <2>3. (Closed <=> Closed') /\ stored \subseteq slots' /\ (~Closed' => slots' = slots)
    BY DEF Closed, ClientInv, SlotInv
  <2> QED BY <2>1, <2>2, <2>3, SlotKept DEF ClientInv
<1>4. NameInv'
  <2>1. \A a \in Attempts : Current(a)' => Current(a)
    BY CurrentKept DEF ClientInv
  <2> QED BY <1>2, <2>1, NameKept DEF ClientInv, AllGain
<1> QED BY <1>1, <1>3, <1>4, RegKept, JoinKept, QueueKept, ChanKept, CloseKept
        DEF ClientInv

LEMMA Ordinary ==
    ASSUME ClientInv, ClientTypeOK', AllLater, AllWait, AllCalm, AllGain, Kept, CleanInv',
           UNCHANGED <<attempts, channels, stored, queue, joining, closing>>,
           UNCHANGED slots \/ (Closed /\ stored \subseteq slots'),
           \A r \in Rooms : disk'[r].session \in {None, disk[r].session}
    PROVE  ClientInv'
BY DiskApart, DiskKept DEF ClientInv

-----------------------------------------------------------------------------
(* The task of an attempt                                                   *)

LEMMA CleanupTyped ==
    ASSUME NEW a \in Attempts, NEW by \in Cleaners
    PROVE  /\ Cleanup(by, a) \in Cleanups /\ Cancel(by, a) \in Cleanups
           /\ Cleanup(by, a).by = by /\ Cleanup(by, a).of = a /\ Cleanup(by, a).step # "task"
           /\ Cancel(by, a).by = by /\ Cancel(by, a).of = a /\ Cancel(by, a).step = "task"
BY DEF Cleanup, Cancel, Cleanups

\* What the task of an attempt may do: its own state, its credentials' removal, and a
\* cleanup of its own.
LEMMA TaskStep ==
    ASSUME ClientInv, NEW a \in Attempts, NEW y \in AttemptStates,
           att' = [att EXCEPT ![a] = y],
           Later(att[a], y), ShapeOf(y), Quiet(att[a], y), att[a].pc # "unused",
           UNCHANGED <<attempts, channels, stored, slots, queue, joining, closing, leaves>>,
           mishaps' \in 0..MaxMishaps,
           \/ UNCHANGED cleaning
           \/ \E w \in Outer : cleaning' = cleaning \cup {Cleanup(<<w, a>>, a)},
           disk' \in [Rooms -> [session : Attempts \cup {None}, resume : Links \cup {None}]],
           \A r \in Rooms : disk'[r].session \in {None, disk[r].session}
    PROVE  ClientInv'
<1>1. /\ att' \in [Attempts -> AttemptStates] /\ att'[a] = y /\ AllLater
      /\ AllWait /\ AllCalm /\ AllGain
  BY OneLater DEF ClientInv, Quiet
<1>2. cleaning' \subseteq Cleanups /\ Kept /\ \A d \in cleaning' : d \in cleaning \/ CleanOK(d)'
  <2>1. CASE UNCHANGED cleaning
    BY <2>1 DEF ClientInv, ClientTypeOK, Kept
  <2>2. CASE \E w \in Outer : cleaning' = cleaning \cup {Cleanup(<<w, a>>, a)}
    <3>1. PICK w \in Outer : cleaning' = cleaning \cup {Cleanup(<<w, a>>, a)}
      BY <2>2
    <3>2. <<w, a>> \in Cleaners /\ <<w, a>>[1] = w
      BY DEF Cleaners, Outer
    <3>3. PICK d \in Cleanups : d = Cleanup(<<w, a>>, a)
      BY <3>2, CleanupTyped
    <3>4. d.of = a /\ d.by[1] \in Outer /\ cleaning' = cleaning \cup {d}
      BY <3>1, <3>2, <3>3, CleanupTyped
    <3>5. y.pc # "unused"
      BY DEF Later
    <3>6. CleanOK(d)'
      BY <1>1, <3>4, <3>5 DEF CleanOK, Outer
    <3>7. cleaning \subseteq Cleanups
      BY DEF ClientInv, ClientTypeOK
    <3> QED BY <3>4, <3>6, <3>7 DEF Kept
  <2> QED BY <2>1, <2>2
<1>3. ClientTypeOK'
  BY <1>1, <1>2 DEF ClientInv, ClientTypeOK
<1>4. CleanInv'
  BY <1>1, <1>2, CleanKept DEF ClientInv
<1> QED BY <1>1, <1>2, <1>3, <1>4, Ordinary

LEMMA AttemptFacts ==
    ASSUME ClientInv, NEW a \in Attempts
    PROVE  /\ att \in [Attempts -> AttemptStates] /\ att[a] \in AttemptStates
           /\ ShapeOf(att[a]) /\ Registers(a)
           /\ mishaps \in 0..MaxMishaps
           /\ disk \in [Rooms -> [session : Attempts \cup {None}, resume : Links \cup {None}]]
BY DEF ClientInv, ClientTypeOK, ShapeInv, RegInv

LEMMA MishapCounted == ASSUME mishaps \in 0..MaxMishaps, Mishap PROVE mishaps' \in 0..MaxMishaps
BY ClientAssumption DEF Mishap

LEMMA EndedState ==
    ASSUME NEW x \in AttemptStates, ShapeOf(x), x.pc # "unused"
    PROVE  /\ TaskEnds(x) \in AttemptStates
           /\ TaskEnds(x).pc = "ended" /\ TaskEnds(x).claim = "none"
           /\ TaskEnds(x).link = x.link /\ TaskEnds(x).files = x.files
           /\ TaskEnds(x).aborted = x.aborted /\ TaskEnds(x).displaced = x.displaced
           /\ TaskEnds(x).session = x.session /\ TaskEnds(x).opening = x.opening
           /\ TaskEnds(x).dead = x.dead
BY DEF TaskEnds, AttemptStates, Steps

\* A task that ends, and has not left a session that still opens behind.
LEMMA EndsLater ==
    ASSUME NEW x \in AttemptStates, ShapeOf(x), x.pc \notin {"unused", "request"},
           x.opening => x.aborted,
           x.pc = "claim" /\ x.claim = "queued" => x.aborted
    PROVE  TaskEnds(x) \in AttemptStates /\ Later(x, TaskEnds(x)) /\ ShapeOf(TaskEnds(x))
           /\ Quiet(x, TaskEnds(x))
BY EndedState DEF Later, ShapeOf, Quiet, Awaits, Calm, Gains, Claimed

LEMMA ClaimSeenSafe == ASSUME ClientInv, NEW a \in Attempts, ClaimSeen(a) PROVE ClientInv'
<1> DEFINE x == att[a]
<1>1. x \in AttemptStates /\ ShapeOf(x) /\ x.pc = "claim" /\ x.claim = "done"
  BY AttemptFacts DEF ClaimSeen
<1>2. ~x.opening
  BY <1>1 DEF ShapeOf, AttemptStates
<1>3. CASE ~Current(a)
  BY <1>1, <1>2, <1>3, EndsLater, AttemptFacts, TaskStep DEF ClaimSeen
<1>4. CASE Current(a)
  <2> DEFINE y == [x EXCEPT !.pc = "write", !.claim = "none"]
  <2>1. y \in AttemptStates
    BY <1>1 DEF AttemptStates, Steps
  <2>2. /\ y.pc = "write" /\ y.claim = "none" /\ y.link = x.link /\ y.files = x.files
        /\ y.aborted = x.aborted /\ y.displaced = x.displaced /\ y.session = x.session
        /\ y.opening = x.opening
    BY <1>1 DEF AttemptStates
  <2> HIDE DEF y
  <2>3. x.files
    BY <1>1, <1>4 DEF ClientInv, NameInv, NameOK, Claimed
  <2>4. Later(x, y) /\ ShapeOf(y) /\ Quiet(x, y)
    BY <1>1, <1>2, <2>2, <2>3 DEF Later, ShapeOf, Quiet, Awaits, Calm, Gains, Claimed
  <2> QED BY <1>1, <1>4, <2>1, <2>4, AttemptFacts, TaskStep DEF ClaimSeen, y
<1> QED BY <1>3, <1>4

LEMMA FailingStep ==
    ASSUME ClientInv, NEW a \in Attempts, Failing(a), att[a].pc \notin {"unused", "request", "ended"},
           ~(att[a].pc = "claim" /\ att[a].claim = "queued"),
           UNCHANGED <<attempts, channels, stored, slots, queue, joining, disk, closing, leaves>>,
           mishaps' \in 0..MaxMishaps
    PROVE  ClientInv'
<1> DEFINE x == att[a]
<1>1. x \in AttemptStates /\ ShapeOf(x)
  BY AttemptFacts
<1>2. PICK terminal \in BOOLEAN :
         att' = [att EXCEPT ![a] = [Taken(x) EXCEPT !.pc = "failing", !.opening = FALSE,
                                                    !.claim = "none",
                                                    !.dead = terminal /\ x.files]]
  BY DEF Failing
<1> DEFINE s == IF x.session = "live" THEN "stopping" ELSE x.session
<1> DEFINE e == terminal /\ x.files
<1>3. s \in {"none", "live", "stopping"} /\ s # "live" /\ e \in BOOLEAN
  BY <1>1 DEF AttemptStates
<1> DEFINE y == [[x EXCEPT !.session = s] EXCEPT !.pc = "failing", !.opening = FALSE,
                                                  !.claim = "none", !.dead = e]
<1>4. att' = [att EXCEPT ![a] = y]
  BY <1>2 DEF Taken
<1> HIDE DEF s, e
<1>5. y \in AttemptStates
  BY <1>1, <1>3 DEF AttemptStates, Steps
<1>6. /\ y.pc = "failing" /\ y.claim = "none" /\ y.link = x.link /\ y.files = x.files
      /\ y.aborted = x.aborted /\ y.displaced = x.displaced /\ y.session = s
      /\ y.opening = FALSE
  BY <1>1 DEF AttemptStates
<1> HIDE DEF y
<1>7. Later(x, y) /\ ShapeOf(y) /\ Quiet(x, y)
  BY <1>1, <1>3, <1>6 DEF Later, ShapeOf, Quiet, Awaits, Calm, Gains, Claimed
<1>8. \E w \in Outer : cleaning' = cleaning \cup {Cleanup(<<w, a>>, a)}
  BY DEF Failing, Outer
<1>9. /\ disk' \in [Rooms -> [session : Attempts \cup {None}, resume : Links \cup {None}]]
      /\ \A r \in Rooms : disk'[r].session \in {None, disk[r].session}
  BY AttemptFacts
<1> QED BY <1>4, <1>5, <1>7, <1>8, <1>9, TaskStep

LEMMA ClaimRefusedSafe == ASSUME ClientInv, NEW a \in Attempts, ClaimRefused(a) PROVE ClientInv'
<1>1. /\ att[a] \in AttemptStates /\ ShapeOf(att[a])
      /\ att[a].pc = "claim" /\ att[a].claim = "refused"
  BY AttemptFacts DEF ClaimRefused
<1>2. mishaps' \in 0..MaxMishaps /\ ~att[a].opening
  BY <1>1, AttemptFacts DEF ClaimRefused, ShapeOf
<1>3. CASE Failing(a)
  BY <1>1, <1>2, <1>3, FailingStep DEF ClaimRefused
<1>4. CASE att' = [att EXCEPT ![a] = TaskEnds(att[a])] /\ UNCHANGED cleaning
  BY <1>1, <1>2, <1>4, EndsLater, AttemptFacts, TaskStep DEF ClaimRefused
<1> QED BY <1>3, <1>4 DEF ClaimRefused

LEMMA SessionOpensSafe == ASSUME ClientInv, NEW a \in Attempts, SessionOpens(a) PROVE ClientInv'
<1> DEFINE x == att[a]
<1>1. x \in AttemptStates /\ ShapeOf(x) /\ x.opening /\ x.pc \in {"start", "ended"}
  BY AttemptFacts DEF SessionOpens, ShapeOf
<1>2. /\ disk' \in [Rooms -> [session : Attempts \cup {None}, resume : Links \cup {None}]]
      /\ \A r \in Rooms : disk'[r].session \in {None, disk[r].session}
      /\ mishaps' \in 0..MaxMishaps
  BY AttemptFacts DEF SessionOpens
<1>3. CASE Current(a)
  <2> DEFINE y == [x EXCEPT !.opening = FALSE, !.session = "live", !.pc = "ready"]
  <2>1. y \in AttemptStates
    BY <1>1 DEF AttemptStates, Steps
  <2>2. /\ y.pc = "ready" /\ y.claim = x.claim /\ y.link = x.link /\ y.files = x.files
        /\ y.aborted = x.aborted /\ y.displaced = x.displaced /\ y.session = "live"
        /\ y.opening = FALSE
    BY <1>1 DEF AttemptStates
  <2>3. att' = [att EXCEPT ![a] = y]
    BY <1>3 DEF SessionOpens
  <2> HIDE DEF y
  <2>4. x.pc = "start"
    BY <1>1, <1>3 DEF ShapeOf, Current
  <2>5. Later(x, y) /\ ShapeOf(y) /\ Quiet(x, y)
    BY <1>1, <2>2, <2>4 DEF Later, ShapeOf, Quiet, Awaits, Calm, Gains, Claimed
  <2> QED BY <1>1, <1>2, <2>1, <2>3, <2>5, TaskStep DEF SessionOpens
<1>4. CASE ~Current(a)
  <2> DEFINE y == [x EXCEPT !.opening = FALSE]
  <2>1. y \in AttemptStates
    BY <1>1 DEF AttemptStates
  <2>2. /\ y.pc = x.pc /\ y.claim = x.claim /\ y.link = x.link /\ y.files = x.files
        /\ y.aborted = x.aborted /\ y.displaced = x.displaced /\ y.session = x.session
        /\ y.opening = FALSE
    BY <1>1 DEF AttemptStates
  <2>3. att' = [att EXCEPT ![a] = y]
    BY <1>1, <1>4, AttemptFacts DEF SessionOpens
  <2> HIDE DEF y
  <2>4. Later(x, y) /\ ShapeOf(y) /\ Quiet(x, y)
    BY <1>1, <2>2 DEF Later, ShapeOf, Quiet, Awaits, Calm, Gains, Claimed
  <2> QED BY <1>1, <1>2, <2>1, <2>3, <2>4, TaskStep DEF SessionOpens
<1> QED BY <1>3, <1>4

LEMMA InvitedSafe == ASSUME ClientInv, NEW a \in Attempts, Invited(a) PROVE ClientInv'
<1> DEFINE x == att[a]
<1>1. x \in AttemptStates /\ ShapeOf(x) /\ x.pc = "ready"
  BY AttemptFacts DEF Invited
<1>2. /\ disk' \in [Rooms -> [session : Attempts \cup {None}, resume : Links \cup {None}]]
      /\ \A r \in Rooms : disk'[r].session \in {None, disk[r].session}
      /\ mishaps' \in 0..MaxMishaps
  BY AttemptFacts DEF Invited
<1> DEFINE y == [x EXCEPT !.pc = "sync"]
<1>3. y \in AttemptStates
  BY <1>1 DEF AttemptStates, Steps
<1>4. /\ y.pc = "sync" /\ y.claim = x.claim /\ y.link = x.link /\ y.files = x.files
      /\ y.aborted = x.aborted /\ y.displaced = x.displaced /\ y.session = x.session
      /\ y.opening = x.opening
  BY <1>1 DEF AttemptStates
<1>5. att' = [att EXCEPT ![a] = y]
  BY AttemptFacts DEF Invited
<1> HIDE DEF y
<1>6. Later(x, y) /\ ShapeOf(y) /\ Quiet(x, y)
  BY <1>1, <1>4 DEF Later, ShapeOf, Quiet, Awaits, Calm, Gains, Claimed
<1> QED BY <1>1, <1>2, <1>3, <1>5, <1>6, TaskStep DEF Invited

LEMMA JoinedSafe == ASSUME ClientInv, NEW a \in Attempts, Joined(a) PROVE ClientInv'
<1>1. /\ att[a] \in AttemptStates /\ ShapeOf(att[a]) /\ att[a].pc = "sync"
      /\ att[a].link \in Links
  BY AttemptFacts DEF Joined, ShapeOf
<1>2. /\ disk' \in [Rooms -> [session : Attempts \cup {None}, resume : Links \cup {None}]]
      /\ \A r \in Rooms : disk'[r].session \in {None, disk[r].session}
  <2>1. disk \in [Rooms -> [session : Attempts \cup {None}, resume : Links \cup {None}]]
    BY AttemptFacts
  <2>2. CASE disk' = [disk EXCEPT ![Room(a)].resume = att[a].link]
    BY <1>1, <2>1, <2>2
  <2>3. CASE disk' = disk
    BY <2>1, <2>3
  <2> QED BY <2>2, <2>3 DEF Joined
<1>3. mishaps' \in 0..MaxMishaps /\ ~att[a].opening
  BY <1>1, AttemptFacts DEF Joined, ShapeOf
<1> QED BY <1>1, <1>2, <1>3, EndsLater, TaskStep DEF Joined

LEMMA TaskFailsSafe == ASSUME ClientInv, NEW a \in Attempts, TaskFails(a) PROVE ClientInv'
<1>1. mishaps' \in 0..MaxMishaps
  BY AttemptFacts, MishapCounted DEF TaskFails
<1> QED BY <1>1, FailingStep DEF TaskFails

LEMMA UnwritableSafe == ASSUME ClientInv, NEW a \in Attempts, Unwritable(a) PROVE ClientInv'
<1>1. /\ att[a] \in AttemptStates /\ ShapeOf(att[a])
      /\ att[a].pc \in {"write", "sync"} /\ mishaps' \in 0..MaxMishaps
  BY AttemptFacts DEF Unwritable
<1>2. CASE Failing(a)
  BY <1>1, <1>2, FailingStep DEF Unwritable
<1>3. CASE att' = [att EXCEPT ![a] = TaskEnds(att[a])] /\ UNCHANGED cleaning
  <2>1. ~att[a].opening
    BY <1>1 DEF ShapeOf
  <2> QED BY <1>1, <1>3, <2>1, EndsLater, AttemptFacts, TaskStep DEF Unwritable
<1> QED BY <1>2, <1>3 DEF Unwritable

LEMMA FailureHandledSafe == ASSUME ClientInv, NEW a \in Attempts, FailureHandled(a) PROVE ClientInv'
<1> DEFINE x == att[a]
<1>1. x \in AttemptStates /\ ShapeOf(x) /\ x.pc = "failing"
  BY AttemptFacts DEF FailureHandled
<1>2. PICK e \in BOOLEAN : e = (x.aborted \/ Writable(a))
  BY <1>1 DEF Writable, AttemptStates
<1> DEFINE t == TaskEnds(x)
           y == [t EXCEPT !.aborted = e]
<1>3. /\ t \in AttemptStates /\ t.pc = "ended" /\ t.claim = "none"
      /\ t.link = x.link /\ t.files = x.files
      /\ t.aborted = x.aborted /\ t.displaced = x.displaced
      /\ t.session = x.session /\ t.opening = x.opening
  BY <1>1, EndedState
<1>4. att' = [att EXCEPT ![a] = y]
  BY <1>1, <1>2, <1>3 DEF FailureHandled
<1> HIDE DEF t
<1>5. y \in AttemptStates
  BY <1>2, <1>3 DEF AttemptStates
<1>6. /\ y.pc = "ended" /\ y.claim = "none" /\ y.link = x.link /\ y.files = x.files
      /\ y.aborted = e /\ y.displaced = x.displaced /\ y.session = x.session
      /\ y.opening = x.opening
  BY <1>2, <1>3 DEF AttemptStates
<1> HIDE DEF y
<1>7. Later(x, y) /\ ShapeOf(y) /\ Quiet(x, y)
  BY <1>1, <1>2, <1>6 DEF Later, ShapeOf, Quiet, Awaits, Calm, Gains, Claimed
<1> QED BY <1>1, <1>4, <1>5, <1>7, AttemptFacts, TaskStep DEF FailureHandled

LEMMA AbortSeenSafe == ASSUME ClientInv, NEW a \in Attempts, AbortSeen(a) PROVE ClientInv'
<1> DEFINE x == att[a]
           y == TaskEnds(x)
<1>1. /\ x \in AttemptStates /\ ShapeOf(x) /\ x.aborted
      /\ x.pc \in {"poll", "claim", "start", "ready"} /\ att' = [att EXCEPT ![a] = y]
  BY AttemptFacts DEF AbortSeen, Interruptible
<1>2. y \in AttemptStates /\ Later(x, y) /\ ShapeOf(y) /\ Quiet(x, y)
  BY <1>1, EndsLater
<1> HIDE DEF y
<1>3. /\ att' \in [Attempts -> AttemptStates] /\ AllLater /\ AllWait /\ AllCalm /\ AllGain
  BY <1>1, <1>2, OneLater DEF ClientInv, Quiet
<1>4. slots' \subseteq Rooms /\ (UNCHANGED slots \/ (Closed /\ stored \subseteq slots'))
  <2>1. CASE x.pc = "claim" /\ Room(a) \notin stored
    <3>1. slots' = slots \ {Room(a)} /\ Closed
      BY <1>1, <2>1 DEF AbortSeen, Unslotted, ClientInv, SlotInv
    <3> QED BY <2>1, <3>1 DEF ClientInv, ClientTypeOK, SlotInv
  <2>2. CASE ~(x.pc = "claim" /\ Room(a) \notin stored)
    BY <2>2 DEF AbortSeen, Unslotted, ClientInv, ClientTypeOK
  <2> QED BY <2>1, <2>2
<1>5. ClientTypeOK'
  BY <1>3, <1>4 DEF AbortSeen, ClientInv, ClientTypeOK
<1>6. Kept /\ CleanInv'
  BY <1>3, CleanKept DEF AbortSeen, ClientInv, Kept
<1> QED BY <1>3, <1>4, <1>5, <1>6, Ordinary DEF AbortSeen

LEMMA SessionEndsSafe == ASSUME ClientInv, NEW a \in Attempts, SessionEnds(a) PROVE ClientInv'
<1> DEFINE x == att[a]
<1>1. x \in AttemptStates /\ ShapeOf(x) /\ x.session = "live"
      /\ x.pc \notin {"unused", "request", "poll", "claim", "write", "start"}
  BY AttemptFacts DEF SessionEnds, ShapeOf, Unused
<1>2. mishaps' \in 0..MaxMishaps
  BY AttemptFacts, MishapCounted DEF SessionEnds
<1>3. PICK terminal \in BOOLEAN :
         /\ att' = [att EXCEPT ![a] = [IF terminal THEN Taken(x) ELSE x
                                       EXCEPT !.aborted = TRUE, !.dead = terminal]]
         /\ cleaning' = IF terminal THEN cleaning \cup {Cleanup(<<"ended", a>>, a)}
                                    ELSE cleaning
  BY DEF SessionEnds
<1>4. PICK s \in {"live", "stopping"} : s = IF terminal THEN "stopping" ELSE "live"
  OBVIOUS
<1> DEFINE y == [x EXCEPT !.session = s, !.aborted = TRUE, !.dead = terminal]
<1>5. att' = [att EXCEPT ![a] = y]
  <2>1. [IF terminal THEN Taken(x) ELSE x EXCEPT !.aborted = TRUE, !.dead = terminal] = y
    <3>1. CASE terminal
      BY <1>1, <1>4, <3>1 DEF Taken, AttemptStates
    <3>2. CASE ~terminal
      BY <1>1, <1>4, <3>2 DEF AttemptStates
    <3> QED BY <3>1, <3>2
  <2> QED BY <1>3, <2>1
<1>6. y \in AttemptStates
  BY <1>1 DEF AttemptStates
<1>7. /\ y.pc = x.pc /\ y.claim = x.claim /\ y.link = x.link /\ y.files = x.files
      /\ y.aborted = TRUE /\ y.displaced = x.displaced /\ y.session = s
      /\ y.opening = x.opening
  BY <1>1 DEF AttemptStates
<1> HIDE DEF y
<1>8. Later(x, y) /\ ShapeOf(y) /\ Quiet(x, y)
  BY <1>1, <1>7 DEF Later, ShapeOf, Quiet, Awaits, Calm, Gains, Claimed
<1>9. UNCHANGED cleaning \/ \E w \in Outer : cleaning' = cleaning \cup {Cleanup(<<w, a>>, a)}
  BY <1>3 DEF Outer
<1> QED BY <1>1, <1>2, <1>5, <1>6, <1>8, <1>9, AttemptFacts, TaskStep DEF SessionEnds

\* The task writes its credentials.  It has the files, and its link is still its own.
LEMMA WriteSessionSafe == ASSUME ClientInv, NEW a \in Attempts, WriteSession(a) PROVE ClientInv'
<1> DEFINE x == att[a]
           r == Room(a)
<1>1. /\ x \in AttemptStates /\ ShapeOf(x) /\ x.pc = "write" /\ x.files /\ x.link \in Links
      /\ attempts[x.link] = a /\ ~x.opening /\ r \in Rooms
  BY AttemptFacts, ClientTypes DEF WriteSession, ShapeOf, Registers, ClientInv, Room
<1>2. PICK y \in AttemptStates :
         /\ att' = [att EXCEPT ![a] = y]
         /\ Later(x, y) /\ ShapeOf(y) /\ Quiet(x, y)
         /\ y.pc \in {"start", "ended"}
  <2>1. CASE Current(a)
    <3> DEFINE y == [x EXCEPT !.pc = "start", !.opening = TRUE]
    <3>1. y \in AttemptStates
      BY <1>1 DEF AttemptStates, Steps
    <3>2. /\ y.pc = "start" /\ y.claim = x.claim /\ y.link = x.link /\ y.files = x.files
          /\ y.aborted = x.aborted /\ y.displaced = x.displaced /\ y.session = x.session
          /\ y.opening = TRUE
      BY <1>1 DEF AttemptStates
    <3>3. att' = [att EXCEPT ![a] = y]
      BY <2>1 DEF WriteSession
    <3> HIDE DEF y
    <3>4. Later(x, y) /\ ShapeOf(y) /\ Quiet(x, y)
      BY <1>1, <3>2 DEF Later, ShapeOf, Quiet, Awaits, Calm, Gains, Claimed
    <3> QED BY <3>1, <3>2, <3>3, <3>4
  <2>2. CASE ~Current(a)
    <3>1. att' = [att EXCEPT ![a] = TaskEnds(x)]
      BY <2>2 DEF WriteSession
    <3>2. /\ TaskEnds(x) \in AttemptStates /\ Later(x, TaskEnds(x)) /\ ShapeOf(TaskEnds(x))
          /\ Quiet(x, TaskEnds(x)) /\ TaskEnds(x).pc = "ended"
      BY <1>1, EndsLater, EndedState
    <3> QED BY <3>1, <3>2
  <2> QED BY <2>1, <2>2
<1>3. /\ att' \in [Attempts -> AttemptStates] /\ att'[a] = y
      /\ AllLater /\ AllWait /\ AllCalm /\ AllGain
  BY <1>2, OneLater DEF ClientInv, Quiet
<1>4. /\ disk' \in [Rooms -> [session : Attempts \cup {None}, resume : Links \cup {None}]]
      /\ disk'[r].session = a
      /\ \A q \in Rooms \ {r} : disk'[q] = disk[q]
  BY <1>1, AttemptFacts DEF WriteSession
<1>5. ClientTypeOK'
  BY <1>3, <1>4 DEF WriteSession, ClientInv, ClientTypeOK
<1>6. Kept /\ CleanInv'
  BY <1>3, CleanKept DEF WriteSession, ClientInv, Kept
<1>7. DiskInv'
  <2> SUFFICES ASSUME NEW q \in Rooms, disk'[q].session # None
               PROVE  DiskOK(q, disk[q].session)'
    BY DEF DiskInv
  <2>1. CASE q = r
    <3>1. att'[a].files /\ att'[a].link = x.link /\ att'[a].pc \in {"start", "ended"}
      BY <1>1, <1>2, <1>3 DEF Later
    <3> QED BY <1>1, <1>4, <2>1, <3>1 DEF DiskOK, InRoom, Room, WriteSession
  <2>2. CASE q # r
    <3>1. PICK b \in Attempts : disk'[q].session = b /\ disk[q].session = b
      BY <1>4, <2>2, ClientTypes DEF ClientInv
    <3>2. DiskOK(q, b) /\ Later(att[b], att'[b])
      BY <1>3, <3>1, ClientTypes DEF ClientInv, DiskInv, AllLater
    <3>3. DiskOK(q, b)'
      BY <3>1, <3>2 DEF DiskOK, Later, InRoom, Room, WriteSession
    <3> QED BY <3>1, <3>3 DEF DiskOK, InRoom, Room
  <2> QED BY <2>1, <2>2
<1> QED BY <1>3, <1>5, <1>6, <1>7, DiskApart DEF WriteSession

-----------------------------------------------------------------------------
(* Cleaning up                                                              *)

\* A cleanup goes on: it is the same one, and the session of its attempt goes.
LEMMA CleanGoesOn ==
    ASSUME ClientInv, NEW c \in cleaning, NEW d \in Cleanups, d.by = c.by, d.of = c.of,
           c.by[1] \notin Outer => att[c.of].pc \in {"request", "ended"},
           cleaning' = (cleaning \ {c}) \cup {d},
           NEW s \in {"none", "stopping"}, NEW y \in AttemptStates,
           y = [att[c.of] EXCEPT !.session = s],
           att' = [att EXCEPT ![c.of] = y],
           att[c.of].pc \in {"request", "poll", "claim", "write", "start"} => s = "none",
           UNCHANGED <<attempts, channels, stored, slots, queue, joining, disk, closing, leaves,
                       mishaps>>
    PROVE  ClientInv'
<1> DEFINE a == c.of
           x == att[a]
<1>1. a \in Attempts /\ x \in AttemptStates /\ ShapeOf(x) /\ CleanOK(c) /\ x.pc # "unused"
  BY ClientTypes, AttemptFacts DEF ClientInv, CleanInv, CleanOK
<1>2. /\ y.pc = x.pc /\ y.claim = x.claim /\ y.link = x.link /\ y.files = x.files
      /\ y.aborted = x.aborted /\ y.displaced = x.displaced /\ y.session = s
      /\ y.opening = x.opening
  BY <1>1 DEF AttemptStates
<1>3. Later(x, y) /\ ShapeOf(y) /\ Quiet(x, y)
  BY <1>1, <1>2 DEF Later, ShapeOf, Quiet, Awaits, Calm, Gains, Claimed
<1>4. /\ att' \in [Attempts -> AttemptStates] /\ att'[a] = y
      /\ AllLater /\ AllWait /\ AllCalm /\ AllGain
  BY <1>1, <1>3, OneLater DEF ClientInv, Quiet
<1>5. cleaning' \subseteq Cleanups /\ Kept
  <2>1. cleaning \subseteq Cleanups
    BY DEF ClientInv, ClientTypeOK
  <2> QED BY <2>1 DEF Kept
<1>6. ClientTypeOK'
  BY <1>4, <1>5 DEF ClientInv, ClientTypeOK
<1>7. CleanOK(d)'
  BY <1>1, <1>2, <1>4 DEF CleanOK
<1>8. CleanInv'
  BY <1>4, <1>7, CleanKept DEF ClientInv
<1> QED BY <1>4, <1>5, <1>6, <1>8, Ordinary

LEMMA CleanAwaitsSafe ==
    ASSUME ClientInv, NEW c \in cleaning, CleanAwaits(c),
           UNCHANGED <<attempts, channels, stored, slots, queue, joining, disk, closing, leaves,
                       mishaps>>
    PROVE  ClientInv'
<1> DEFINE a == c.of
           x == att[a]
<1>1. a \in Attempts /\ x \in AttemptStates /\ ShapeOf(x) /\ c \in Cleanups /\ c.by \in Cleaners
  BY ClientTypes, AttemptFacts DEF ClientInv, Cleanups
<1>2. PICK s \in {"none", "stopping"} :
         s = IF x.session = "live" THEN "stopping" ELSE x.session
  BY <1>1 DEF AttemptStates
<1>3. PICK d \in Cleanups : d = Cleanup(c.by, a)
  BY <1>1, CleanupTyped
<1>4. d.by = c.by /\ d.of = a
  BY <1>1, <1>3, CleanupTyped
<1> DEFINE y == [x EXCEPT !.session = s]
<1>5. y \in AttemptStates /\ att' = [att EXCEPT ![a] = y]
  <2>1. Taken(x) = y
    BY <1>1, <1>2 DEF Taken
  <2>2. y \in AttemptStates
    BY <1>1 DEF AttemptStates
  <2> QED BY <2>1, <2>2 DEF CleanAwaits
<1>6. x.pc \in {"request", "ended"}
  BY DEF CleanAwaits, TaskDone
<1>7. x.pc \in {"request", "poll", "claim", "write", "start"} => s = "none"
  BY <1>1, <1>2 DEF ShapeOf
<1>8. cleaning' = (cleaning \ {c}) \cup {d}
  BY <1>3 DEF CleanAwaits
<1> QED BY <1>4, <1>5, <1>6, <1>7, <1>8, CleanGoesOn

LEMMA CleanStoppedSafe ==
    ASSUME ClientInv, NEW c \in cleaning, CleanStopped(c),
           UNCHANGED <<attempts, channels, stored, slots, queue, joining, disk, closing, leaves,
                       mishaps>>
    PROVE  ClientInv'
<1> DEFINE a == c.of
           y == [att[a] EXCEPT !.session = "none"]
<1>1. a \in Attempts /\ att[a] \in AttemptStates /\ c \in Cleanups
  BY ClientTypes, AttemptFacts DEF ClientInv
<1>2. PICK d : d = [c EXCEPT !.step = "files"]
  OBVIOUS
<1>6. d \in Cleanups /\ d.by = c.by /\ d.of = a
  BY <1>1, <1>2 DEF Cleanups
<1>3. y \in AttemptStates /\ att' = [att EXCEPT ![a] = y]
  BY <1>1 DEF AttemptStates, CleanStopped
<1>4. c.by[1] \notin Outer => att[a].pc \in {"request", "ended"}
  BY DEF ClientInv, CleanInv, CleanOK, CleanStopped
<1>5. cleaning' = (cleaning \ {c}) \cup {d}
  BY <1>2 DEF CleanStopped
<1> QED BY <1>3, <1>4, <1>5, <1>6, CleanGoesOn

\* The files of a cancelled attempt go and its link is free; what waited for it goes on.
LEMMA CleanFilesSafe ==
    ASSUME ClientInv, NEW c \in cleaning, CleanFiles(c),
           UNCHANGED <<channels, stored, slots, queue, joining, leaves, mishaps>>
    PROVE  ClientInv'
<1>1. PICK a \in Attempts : a = c.of
  BY ClientTypes DEF ClientInv
<1>2. PICK l : l = att[a].link
  OBVIOUS
<1>3. /\ CleanOK(c) /\ l \in Links /\ att[a].pc # "unused" /\ Room(a) \in Rooms
      /\ c.by[1] \notin Outer => /\ att[a].pc \in {"request", "ended"}
                                 /\ att[a].session # "live" /\ att[a].aborted
  BY <1>1, <1>2, AttemptFacts, ClientTypes
     DEF ClientInv, CleanInv, CleanOK, ShapeOf, Room, CleanFiles
<1>4. PICK gone \in BOOLEAN : gone = (c.by[1] \notin Outer /\ attempts[l] = a)
  OBVIOUS
<1>5. attempts' = IF gone THEN [attempts EXCEPT ![l] = None] ELSE attempts
  BY <1>1, <1>2, <1>4 DEF CleanFiles, Outer
<1>6. /\ attempts \in [Links -> Attempts \cup {None}]
      /\ attempts' \in [Links -> Attempts \cup {None}] /\ None \notin Attempts
      /\ \A k \in Links : attempts'[k] \in {None, attempts[k]}
      /\ \A k \in Links : attempts[k] # None /\ attempts[k] # a => attempts'[k] = attempts[k]
      /\ gone => attempts'[l] = None
  <2>1. attempts \in [Links -> Attempts \cup {None}] /\ None \notin Attempts
    BY ClientTypes DEF ClientInv
  <2>2. CASE gone
    BY <1>3, <1>4, <1>5, <2>1, <2>2
  <2>3. CASE ~gone
    BY <1>5, <2>1, <2>3
  <2> QED BY <2>2, <2>3, <2>1
<1>7. /\ cleaning' = cleaning \ {c} /\ cleaning' \subseteq Cleanups
      /\ att' = att /\ joining' = joining /\ queue' = queue
      /\ closing' \in {closing, "failed"} /\ (closing' # closing => c.by[1] = "close")
      /\ c.by[1] = "close" => closing \notin {"open", "waiting"}
  BY <1>3 DEF CleanFiles, CleanOK, ClientInv, ClientTypeOK
<1>8. /\ disk' \in [Rooms -> [session : Attempts \cup {None}, resume : Links \cup {None}]]
      /\ \A q \in Rooms : disk'[q].session \in {None, disk[q].session}
      /\ att[a].files => disk'[Room(a)].session = None
  <2>1. disk \in [Rooms -> [session : Attempts \cup {None}, resume : Links \cup {None}]]
    BY AttemptFacts, <1>1
  <2>2. CASE ~att[a].files
    BY <1>1, <2>1, <2>2 DEF CleanFiles
  <2>3. CASE att[a].files
    <3>1. PICK e \in Links \cup {None} :
             e = IF att[a].dead THEN None ELSE disk[Room(a)].resume
      BY <1>3, <2>1
    <3>2. disk' = [disk EXCEPT ![Room(a)] = [session |-> None, resume |-> e]]
      BY <1>1, <2>3, <3>1 DEF CleanFiles
    <3> QED BY <1>3, <2>1, <3>2
  <2> QED BY <2>2, <2>3
<1>9. Closed' <=> Closed
  BY <1>7 DEF Closed
<1>10. \A b \in Attempts : Current(b)' <=> Current(b)
  <2> SUFFICES ASSUME NEW b \in Attempts PROVE Current(b)' <=> Current(b)
    OBVIOUS
  <2>1. CASE b = a /\ gone
    <3>1. ~Current(b)
      BY <1>3, <1>4, <2>1 DEF Current
    <3>2. ~Current(b)'
      BY <1>3, <1>4, <1>7, <2>1 DEF Current
    <3> QED BY <3>1, <3>2
  <2>2. CASE ~gone
    BY <1>5, <1>7, <1>9, <2>2 DEF Current
  <2>3. CASE b # a /\ gone
    <3>1. attempts'[att[b].link] = b <=> attempts[att[b].link] = b
      <4>1. CASE att[b].link = l
        BY <1>4, <1>6, <2>3, <4>1
      <4>2. CASE att[b].link # l
        BY <1>5, <4>2, <2>3, ClientTypes DEF ClientInv
      <4> QED BY <4>1, <4>2
    <3> QED BY <1>7, <1>9, <3>1 DEF Current
  <2> QED BY <2>1, <2>2, <2>3
<1>11. AllLater
  BY DEF AllLater, Later, ClientInv, ShapeInv, CleanFiles
<1>12. ClientTypeOK'
  BY <1>6, <1>7, <1>8 DEF ClientInv, ClientTypeOK
<1>13. ShapeInv'
  BY <1>7 DEF ClientInv, ShapeInv
<1>14. RegInv'
  <2>1. ASSUME NEW k \in Links, attempts'[k] # None
        PROVE  att[attempts'[k]].link = k /\ att[attempts'[k]].pc # "unused"
    BY <1>6, <2>1 DEF ClientInv, RegInv
  <2>2. ASSUME NEW b \in Attempts PROVE Registers(b)'
    <3>1. Registers(b)
      BY DEF ClientInv, RegInv
    <3>2. CASE gone /\ b = a
      BY <1>3, <1>4, <1>7, <3>1, <3>2 DEF Registers
    <3>3. CASE ~(gone /\ b = a)
      <4>1. attempts[att[b].link] = b => attempts'[att[b].link] = b
        BY <1>3, <1>4, <1>5, <1>6, <3>3
      <4> QED BY <1>7, <3>1, <4>1 DEF Registers
    <3> QED BY <3>2, <3>3
  <2> QED BY <1>7, <2>1, <2>2 DEF RegInv
<1>15. ASSUME NEW k \in Links, attempts[k] = a
       PROVE  k = l /\ (c.by[1] \notin Outer => attempts'[k] = None)
  BY <1>1, <1>2, <1>4, <1>6, <1>15 DEF ClientInv, RegInv
<1>16. JoinInv'
  <2> SUFFICES ASSUME NEW k \in Links PROVE JoinOK(k, joining[k])'
    BY DEF JoinInv
  <2>1. JoinOK(k, joining[k])
    BY DEF ClientInv, JoinInv
  <2>2. joining[k].pc = "register" => attempts'[k] = None
    BY <1>6, <2>1 DEF JoinOK
  <2>3. joining[k].pc = "request" =>
           attempts'[k] = joining[k].att \/ (attempts'[k] = None /\ att[joining[k].att].aborted)
    <3>1. CASE attempts'[k] = attempts[k]
      BY <2>1, <3>1 DEF JoinOK
    <3>2. CASE attempts'[k] # attempts[k]
      <4>1. attempts[k] = a /\ gone /\ attempts'[k] = None
        BY <1>5, <1>6, <3>2
      <4> QED BY <1>3, <1>4, <2>1, <4>1, <1>6 DEF JoinOK
    <3> QED BY <3>1, <3>2
  <2>4. joining[k].pc = "cancel" => attempts'[k] = None \/
           \E d \in cleaning' : d.by = <<"join", k>> /\ d.of = attempts'[k]
    <3> SUFFICES ASSUME joining[k].pc = "cancel", attempts'[k] # None
                 PROVE  \E d \in cleaning' : d.by = <<"join", k>> /\ d.of = attempts'[k]
      OBVIOUS
    <3>1. attempts'[k] = attempts[k]
      BY <1>6
    <3>2. PICK d \in cleaning : d.by = <<"join", k>> /\ d.of = attempts[k]
      BY <2>1, <3>1 DEF JoinOK
    <3>3. d # c
      <4> SUFFICES ASSUME d = c PROVE FALSE
        OBVIOUS
      <4>1. attempts[k] = a /\ c.by[1] \notin Outer
        BY <1>1, <3>2 DEF Outer
      <4> QED BY <1>15, <4>1
    <3> QED BY <1>7, <3>1, <3>2, <3>3
  <2> QED BY <1>7, <2>1, <2>2, <2>3, <2>4 DEF JoinOK
<1>17. CleanInv'
  BY <1>7, <1>11, CleanKept DEF ClientInv
<1>18. QueueInv'
  <2>1. AllWait
    BY <1>7 DEF AllWait, Awaits
  <2> QED BY <1>7, <1>11, <2>1, QueueKept DEF ClientInv
<1>19. ChanInv'
  BY <1>11, ChanKept DEF ClientInv
<1>20. DiskInv'
  <2> SUFFICES ASSUME NEW q \in Rooms, disk'[q].session # None
               PROVE  DiskOK(q, disk[q].session)'
    BY DEF DiskInv
  <2>1. PICK b \in Attempts : disk'[q].session = b /\ disk[q].session = b
    BY <1>8, ClientTypes DEF ClientInv
  <2>2. DiskOK(q, b)
    BY <2>1, ClientTypes DEF ClientInv, DiskInv
  <2>3. b # a
    BY <1>6, <1>8, <2>1, <2>2 DEF DiskOK, InRoom
  <2>4. attempts'[att[b].link] = b
    BY <1>6, <2>2, <2>3 DEF DiskOK, InRoom
  <2> QED BY <1>7, <2>1, <2>2, <2>4 DEF DiskOK, InRoom, Room
<1>21. CloseInv'
  <2>1. closing' \in {"attempts", "done", "failed"} => \A k \in Links : joining'[k].pc = "idle"
    <3>1. closing' \in {"attempts", "done", "failed"} => closing \in {"attempts", "done", "failed"}
      BY <1>7 DEF ClientInv, ClientTypeOK
    <3> QED BY <1>7, <3>1 DEF ClientInv, CloseInv
  <2>2. ASSUME closing' = "attempts", NEW k \in Links, attempts'[k] # None
        PROVE  \E d \in cleaning' : d.by = <<"close", attempts'[k]>> /\ d.of = attempts'[k]
    <3>1. attempts'[k] = attempts[k] /\ closing = "attempts"
      BY <1>6, <1>7, <2>2
    <3>2. PICK d \in cleaning : d.by = <<"close", attempts[k]>> /\ d.of = attempts[k]
      BY <2>2, <3>1 DEF ClientInv, CloseInv
    <3>3. d # c
      <4> SUFFICES ASSUME d = c PROVE FALSE
        OBVIOUS
      <4>1. attempts[k] = a /\ c.by[1] \notin Outer
        BY <1>1, <3>2 DEF Outer
      <4> QED BY <1>15, <2>2, <4>1
    <3> QED BY <1>7, <3>1, <3>2, <3>3
  <2>3. closing' = "done" => \A k \in Links : attempts'[k] = None
    BY <1>6, <1>7 DEF ClientInv, CloseInv
  <2> QED BY <2>1, <2>2, <2>3 DEF CloseInv
<1>22. SlotInv'
  <2>1. ASSUME NEW r \in Rooms PROVE Claiming(r)' <=> Claiming(r)
    <3>1. CASE Underway(r) /\ FirstChange(r).kind = "claim"
      <4>1. queue[r] \in Seq(Changes) /\ 1 \in 1..Len(queue[r])
        BY <3>1, ClientTypes DEF Underway, ClientInv
      <4>2. PICK b \in Attempts : b = FirstChange(r).att
        BY <3>1, <4>1, ClientTypes DEF ClientInv, QueueInv, EntryOK, FirstChange
      <4>3. Claiming(r) <=> Current(b)
        BY <3>1, <4>2 DEF Claiming
      <4>4. Claiming(r)' <=> Current(b)'
        BY <1>7, <3>1, <4>2 DEF Claiming, Underway, FirstChange, Current
      <4> QED BY <1>10, <4>3, <4>4
    <3>2. CASE ~(Underway(r) /\ FirstChange(r).kind = "claim")
      BY <1>7, <3>2 DEF Claiming, Underway, FirstChange
    <3> QED BY <3>1, <3>2
  <2>2. ASSUME ~Closed, NEW b \in Attempts, att[b].pc = "claim", att[b].aborted
        PROVE  /\ Room(b) \in stored
               /\ \E d \in cleaning' : d.of = b /\ d.by = <<"room", Room(b)>>
    <3>1. PICK d \in cleaning : d.of = b /\ d.by = <<"room", Room(b)>>
      BY <2>2 DEF ClientInv, SlotInv
    <3>2. d # c
      BY <1>1, <1>3, <2>2, <3>1 DEF Outer
    <3> QED BY <1>7, <2>2, <3>1, <3>2 DEF ClientInv, SlotInv
  <2>3. stored' = stored /\ slots' = slots
    OBVIOUS
  <2>4. \A b \in Attempts : Room(b)' = Room(b)
    BY <1>7 DEF Room
  <2> QED BY <1>7, <1>9, <2>1, <2>2, <2>3, <2>4 DEF SlotInv, ClientInv
<1>23. NameInv'
  <2>1. SameFront
    BY <1>7 DEF SameFront, Underway, FirstChange
  <2>2. AllGain
    BY <1>7 DEF AllGain, Gains
  <2> QED BY <1>10, <1>11, <2>1, <2>2, NameKept DEF AllGain, ClientInv
<1> QED BY <1>12, <1>13, <1>14, <1>16, <1>17, <1>18, <1>19, <1>20, <1>21, <1>22, <1>23
        DEF ClientInv

-----------------------------------------------------------------------------
(* The changes of a room                                                    *)

LEMMA WaitKept ==
    ASSUME NEW b \in Attempts, NEW r, InRoom(b, r), WaitsForClaim(b),
           Later(att[b], att'[b]), Awaits(att[b], att'[b])
    PROVE  InRoom(b, r)' /\ WaitsForClaim(b)'
BY DEF Later, Awaits, InRoom, Room, WaitsForClaim

\* An entry of a queue, and what is known of its attempt.
LEMMA EntryFacts ==
    ASSUME ClientTypeOK, QueueInv, NEW r \in Rooms, NEW i \in 1..Len(queue[r])
    PROVE  /\ queue[r][i] \in Changes
           /\ i > 1 => ~queue[r][i].begun
           /\ queue[r][i].kind = "leave" => queue[r][i].att = None
           /\ queue[r][i].kind = "claim" =>
                 /\ queue[r][i].att \in Attempts
                 /\ InRoom(queue[r][i].att, r) /\ WaitsForClaim(queue[r][i].att)
                 /\ \A j \in 1..Len(queue[r]) : queue[r][j].att = queue[r][i].att => i = j
BY ClientTypes DEF QueueInv, EntryOK

LEMMA FirstFacts ==
    ASSUME ClientTypeOK, QueueInv, NEW r \in Rooms, queue[r] # <<>>
    PROVE  /\ queue[r] \in Seq(Changes) /\ 1 \in 1..Len(queue[r]) /\ FirstChange(r) \in Changes
           /\ FirstChange(r).kind = "leave" => FirstChange(r).att = None
           /\ FirstChange(r).kind = "claim" =>
                 /\ FirstChange(r).att \in Attempts
                 /\ InRoom(FirstChange(r).att, r) /\ WaitsForClaim(FirstChange(r).att)
<1>1. queue[r] \in Seq(Changes) /\ 1 \in 1..Len(queue[r])
  BY ClientTypes
<1> QED BY <1>1, EntryFacts DEF FirstChange

\* What is to be shown of an entry after a step.
LEMMA EntryAfter ==
    ASSUME NEW r \in Rooms, NEW i \in Nat, NEW e, e = queue'[r][i],
           i > 1 => ~e.begun,
           e.kind = "leave" => e.att = None,
           e.kind = "claim" =>
              /\ e.att # None /\ InRoom(e.att, r)' /\ WaitsForClaim(e.att)'
              /\ \A j \in 1..Len(queue'[r]) : queue'[r][j].att = e.att => i = j
    PROVE  EntryOK(r, i, queue[r][i])'
BY DEF EntryOK, InRoom, WaitsForClaim, Room

LEMMA QueueGrows ==
    ASSUME ClientTypeOK, QueueInv, AllLater, AllWait, NEW r \in Rooms, NEW e \in Changes, ~e.begun,
           queue' = [queue EXCEPT ![r] = Append(@, e)],
           e.kind = "leave" => e.att = None,
           e.kind = "claim" => /\ e.att \in Attempts /\ ~WaitsForClaim(e.att)
                               /\ InRoom(e.att, r)' /\ WaitsForClaim(e.att)'
    PROVE  QueueInv' /\ queue' \in [Rooms -> Seq(Changes)] /\ StillFront /\ SameFront
<1>1. /\ queue \in [Rooms -> Seq(Changes)] /\ queue' \in [Rooms -> Seq(Changes)]
      /\ queue'[r] = Append(queue[r], e) /\ \A q \in Rooms \ {r} : queue'[q] = queue[q]
  BY DEF ClientTypeOK
<1>2. queue[r] \in Seq(Changes) /\ Len(queue'[r]) = Len(queue[r]) + 1
      /\ queue'[r][Len(queue[r]) + 1] = e /\ Len(queue[r]) \in Nat
      /\ \A i \in 1..Len(queue[r]) : queue'[r][i] = queue[r][i]
  BY <1>1
<1>3. ASSUME NEW q \in Rooms PROVE /\ Underway(q)' <=> Underway(q)
                                   /\ Underway(q) => FirstChange(q)' = FirstChange(q)
  <2>1. CASE q # r
    BY <1>1, <2>1 DEF Underway, FirstChange
  <2>2. CASE q = r /\ queue[r] = <<>>
    <3>1. queue'[r][1] = e
      BY <1>2, <2>2
    <3> QED BY <2>2, <3>1 DEF Underway, FirstChange
  <2>3. CASE q = r /\ queue[r] # <<>>
    <3>1. queue'[r][1] = queue[r][1] /\ queue'[r] # <<>>
      BY <1>1, <1>2, <2>3
    <3> QED BY <2>3, <3>1 DEF Underway, FirstChange
  <2> QED BY <2>1, <2>2, <2>3
<1>4. ASSUME NEW q \in Rooms, NEW i \in 1..Len(queue'[q]) PROVE EntryOK(q, i, queue[q][i])'
  <2>1. CASE i \in 1..Len(queue[q])
    <3>1. PICK f : f = queue[q][i]
      OBVIOUS
    <3>2. queue'[q][i] = f
      BY <1>1, <1>2, <2>1, <3>1
    <3>3. /\ i > 1 => ~f.begun
          /\ f.kind = "leave" => f.att = None
      BY <2>1, <3>1, EntryFacts
    <3>4. ASSUME f.kind = "claim"
          PROVE  /\ f.att # None /\ InRoom(f.att, q)' /\ WaitsForClaim(f.att)'
                 /\ \A j \in 1..Len(queue'[q]) : queue'[q][j].att = f.att => i = j
      <4>1. PICK b \in Attempts : b = f.att
        BY <2>1, <3>1, <3>4, EntryFacts
      <4>2. InRoom(b, q) /\ WaitsForClaim(b)
            /\ \A j \in 1..Len(queue[q]) : queue[q][j].att = b => i = j
        BY <2>1, <3>1, <3>4, <4>1, EntryFacts
      <4>3. InRoom(b, q)' /\ WaitsForClaim(b)'
        BY <4>2, WaitKept DEF AllLater, AllWait
      <4>4. ASSUME NEW j \in 1..Len(queue'[q]), queue'[q][j].att = b PROVE i = j
        <5>1. CASE j \in 1..Len(queue[q])
          BY <1>1, <1>2, <4>2, <4>4, <5>1
        <5>2. CASE j \notin 1..Len(queue[q])
          <6>1. q = r /\ queue'[q][j] = e
            BY <1>1, <1>2, <5>2
          <6>2. e.att = b /\ e.kind = "claim"
            BY <4>1, <4>4, <6>1, ClientTypes DEF Changes
          <6> QED BY <4>2, <6>2
        <5> QED BY <5>1, <5>2
      <4>5. b # None
        BY ClientTypes
      <4> QED BY <4>1, <4>3, <4>4, <4>5
    <3> QED BY <3>2, <3>3, <3>4, EntryAfter
  <2>2. CASE i \notin 1..Len(queue[q])
    <3>1. q = r /\ i = Len(queue[r]) + 1 /\ queue'[q][i] = e
      BY <1>1, <1>2, <2>2
    <3>2. ASSUME e.kind = "claim"
          PROVE  /\ e.att # None
                 /\ \A j \in 1..Len(queue'[q]) : queue'[q][j].att = e.att => i = j
      <4>1. PICK b \in Attempts : b = e.att /\ ~WaitsForClaim(b)
        BY <3>2
      <4>2. ASSUME NEW j \in 1..Len(queue[r]), queue[r][j].att = b PROVE FALSE
        <5>1. queue[r][j].kind = "claim"
          BY <4>2, EntryFacts, ClientTypes DEF Changes
        <5> QED BY <4>1, <4>2, <5>1, EntryFacts
      <4>3. ASSUME NEW j \in 1..Len(queue'[q]), queue'[q][j].att = b PROVE i = j
        <5>1. j \in 1..Len(queue[r]) \/ j = Len(queue[r]) + 1
          BY <1>2, <3>1
        <5> QED BY <1>2, <3>1, <4>2, <4>3, <5>1
      <4> QED BY <4>1, <4>3, ClientTypes
    <3> QED BY <3>1, <3>2, EntryAfter
  <2> QED BY <2>1, <2>2
<1> QED BY <1>1, <1>3, <1>4 DEF StillFront, SameFront, QueueInv

\* The first change of a room is done.
LEMMA QueueTail ==
    ASSUME ClientTypeOK, QueueInv, AllLater, NEW r \in Rooms, queue[r] # <<>>, Finished(r),
           \A b \in Attempts : b # FirstChange(r).att => Awaits(att[b], att'[b])
    PROVE  /\ QueueInv' /\ queue' \in [Rooms -> Seq(Changes)] /\ SameFront
           /\ ~Underway(r)'
           /\ \A q \in Rooms \ {r} : queue'[q] = queue[q]
<1>1. /\ queue \in [Rooms -> Seq(Changes)] /\ queue[r] \in Seq(Changes)
      /\ queue'[r] = Tail(queue[r]) /\ \A q \in Rooms \ {r} : queue'[q] = queue[q]
  BY DEF ClientTypeOK, Finished
<1>2. /\ Tail(queue[r]) \in Seq(Changes)
      /\ Len(queue'[r]) = Len(queue[r]) - 1 /\ Len(queue[r]) \in Nat
      /\ \A i \in 1..Len(queue'[r]) : i + 1 \in 1..Len(queue[r]) /\ queue'[r][i] = queue[r][i + 1]
  BY <1>1
<1>3. queue' \in [Rooms -> Seq(Changes)]
  BY <1>1, <1>2 DEF Finished
<1>4. ~Underway(r)'
  <2> SUFFICES ASSUME queue'[r] # <<>> PROVE ~queue'[r][1].begun
    BY DEF Underway, FirstChange
  <2>1. 1 \in 1..Len(queue'[r])
    BY <1>1, <1>2
  <2>2. queue'[r][1] = queue[r][2] /\ 2 \in 1..Len(queue[r])
    BY <1>2, <2>1
  <2> QED BY <2>2, EntryFacts
<1>5. SameFront
  BY <1>1, <1>4 DEF SameFront, Underway, FirstChange
<1>6. ASSUME NEW q \in Rooms, NEW i \in 1..Len(queue[q]), NEW b \in Attempts,
             queue[q][i].att = b, queue[q][i].kind = "claim", b # FirstChange(r).att
      PROVE  InRoom(b, q)' /\ WaitsForClaim(b)'
  BY <1>6, EntryFacts, WaitKept DEF AllLater
<1>7. ASSUME NEW q \in Rooms, NEW i \in 1..Len(queue'[q]) PROVE EntryOK(q, i, queue[q][i])'
  <2>1. CASE q # r
    <3>1. PICK f : f = queue[q][i] /\ f = queue'[q][i] /\ i \in 1..Len(queue[q])
      BY <1>1, <2>1
    <3>2. ASSUME f.kind = "claim"
          PROVE  /\ f.att # None /\ InRoom(f.att, q)' /\ WaitsForClaim(f.att)'
                 /\ \A j \in 1..Len(queue'[q]) : queue'[q][j].att = f.att => i = j
      <4>1. PICK b \in Attempts : b = f.att /\ InRoom(b, q)
        BY <3>1, <3>2, EntryFacts
      <4>2. b # FirstChange(r).att
        <5>1. FirstChange(r).kind = "claim" => InRoom(FirstChange(r).att, r)
          BY FirstFacts
        <5>2. FirstChange(r).kind # "claim" => FirstChange(r).att = None
          BY FirstFacts DEF Changes
        <5> QED BY <2>1, <4>1, <5>1, <5>2, ClientTypes DEF InRoom
      <4>3. InRoom(b, q)' /\ WaitsForClaim(b)'
        BY <1>6, <3>1, <3>2, <4>1, <4>2
      <4> QED BY <1>1, <2>1, <3>1, <3>2, <4>1, <4>3, EntryFacts, ClientTypes
    <3>3. (i > 1 => ~f.begun) /\ (f.kind = "leave" => f.att = None)
      <4>1. i \in 1..Len(queue[q])
        BY <3>1
      <4>2. (i > 1 => ~queue[q][i].begun) /\ (queue[q][i].kind = "leave" => queue[q][i].att = None)
        BY <4>1, EntryFacts
      <4> QED BY <3>1, <4>2
    <3> QED BY <3>1, <3>2, <3>3, EntryAfter
  <2>2. CASE q = r
    <3>1. PICK k \in 1..Len(queue[r]) : k = i + 1 /\ queue'[r][i] = queue[r][k] /\ k > 1
      BY <1>2, <2>2
    <3>2. PICK f : f = queue[r][k] /\ f = queue'[r][i]
      BY <3>1
    <3>3. ~f.begun /\ (f.kind = "leave" => f.att = None)
      BY <3>1, <3>2, EntryFacts
    <3>4. ASSUME f.kind = "claim"
          PROVE  /\ f.att # None /\ InRoom(f.att, r)' /\ WaitsForClaim(f.att)'
                 /\ \A j \in 1..Len(queue'[r]) : queue'[r][j].att = f.att => i = j
      <4>1. PICK b \in Attempts : b = f.att
        BY <3>1, <3>2, <3>4, EntryFacts
      <4>2. \A j \in 1..Len(queue[r]) : queue[r][j].att = b => j = k
        BY <3>1, <3>2, <3>4, <4>1, EntryFacts
      <4>3. b # FirstChange(r).att
        BY <3>1, <4>2, FirstFacts DEF FirstChange
      <4>4. InRoom(b, r)' /\ WaitsForClaim(b)'
        BY <1>6, <3>1, <3>2, <3>4, <4>1, <4>3
      <4>5. ASSUME NEW j \in 1..Len(queue'[r]), queue'[r][j].att = b PROVE i = j
        <5>1. j + 1 = k
          BY <1>2, <4>2, <4>5
        <5> QED BY <3>1, <5>1
      <4> QED BY <4>1, <4>4, <4>5, ClientTypes
    <3> QED BY <2>2, <3>2, <3>3, <3>4, EntryAfter
  <2> QED BY <2>1, <2>2
<1> QED BY <1>1, <1>3, <1>4, <1>5, <1>7 DEF QueueInv

\* The first change of a room begins.
LEMMA QueueBegun ==
    ASSUME ClientTypeOK, QueueInv, AllLater, AllWait, NEW r \in Rooms, queue[r] # <<>>, Begun(r)
    PROVE  /\ QueueInv' /\ queue' \in [Rooms -> Seq(Changes)]
           /\ Underway(r)' /\ FirstChange(r)'.kind = FirstChange(r).kind
           /\ FirstChange(r)'.att = FirstChange(r).att
           /\ \A q \in Rooms \ {r} : queue'[q] = queue[q]
<1>1. /\ queue \in [Rooms -> Seq(Changes)] /\ queue[r] \in Seq(Changes)
      /\ 1 \in 1..Len(queue[r]) /\ queue[r][1] \in Changes
  BY FirstFacts DEF ClientTypeOK, FirstChange
<1>2. PICK h : h = [queue[r][1] EXCEPT !.begun = TRUE]
  OBVIOUS
<1>3. h \in Changes /\ h.begun /\ h.kind = queue[r][1].kind /\ h.att = queue[r][1].att
  BY <1>1, <1>2 DEF Changes
<1>4. queue' = [queue EXCEPT ![r] = [queue[r] EXCEPT ![1] = h]]
  BY <1>2 DEF Begun
<1>5. /\ [queue[r] EXCEPT ![1] = h] \in Seq(Changes)
      /\ Len([queue[r] EXCEPT ![1] = h]) = Len(queue[r])
      /\ \A i \in 1..Len(queue[r]) :
            [queue[r] EXCEPT ![1] = h][i] = IF i = 1 THEN h ELSE queue[r][i]
  BY <1>1, <1>3
<1>6. /\ queue' \in [Rooms -> Seq(Changes)] /\ Len(queue'[r]) = Len(queue[r])
      /\ queue'[r][1] = h
      /\ \A i \in 1..Len(queue[r]) : i # 1 => queue'[r][i] = queue[r][i]
      /\ \A q \in Rooms \ {r} : queue'[q] = queue[q]
  BY <1>1, <1>4, <1>5
<1>7. Underway(r)' /\ FirstChange(r)' = h
  <2>1. queue'[r] # <<>>
    BY <1>1, <1>6
  <2> QED BY <1>3, <1>6, <2>1 DEF Underway, FirstChange
<1>8. ASSUME NEW q \in Rooms
      PROVE  /\ Len(queue'[q]) = Len(queue[q])
             /\ \A i \in 1..Len(queue[q]) : /\ queue'[q][i].kind = queue[q][i].kind
                                            /\ queue'[q][i].att = queue[q][i].att
                                            /\ i # 1 => queue'[q][i].begun = queue[q][i].begun
  <2>1. CASE q # r
    BY <1>6, <2>1
  <2>2. CASE q = r
    <3>1. ASSUME NEW i \in 1..Len(queue[r])
          PROVE  /\ queue'[r][i].kind = queue[r][i].kind /\ queue'[r][i].att = queue[r][i].att
                 /\ i # 1 => queue'[r][i].begun = queue[r][i].begun
      <4>1. CASE i = 1
        BY <1>3, <1>6, <4>1
      <4>2. CASE i # 1
        BY <1>6, <4>2
      <4> QED BY <4>1, <4>2
    <3> QED BY <1>6, <2>2, <3>1
  <2> QED BY <2>1, <2>2
<1>9. ASSUME NEW q \in Rooms, NEW i \in 1..Len(queue'[q]) PROVE EntryOK(q, i, queue[q][i])'
  <2>1. i \in 1..Len(queue[q])
    BY <1>8
  <2>2. PICK f : f = queue'[q][i]
    OBVIOUS
  <2>3. f.kind = queue[q][i].kind /\ f.att = queue[q][i].att
        /\ (i # 1 => f.begun = queue[q][i].begun)
    BY <1>8, <2>1, <2>2
  <2>4. (i > 1 => ~queue[q][i].begun) /\ (queue[q][i].kind = "leave" => queue[q][i].att = None)
    BY <2>1, EntryFacts
  <2>5. ASSUME f.kind = "claim"
        PROVE  /\ f.att # None /\ InRoom(f.att, q)' /\ WaitsForClaim(f.att)'
               /\ \A j \in 1..Len(queue'[q]) : queue'[q][j].att = f.att => i = j
    <3>1. PICK b \in Attempts : b = f.att
      BY <2>1, <2>3, <2>5, EntryFacts
    <3>2. InRoom(b, q) /\ WaitsForClaim(b)
          /\ \A j \in 1..Len(queue[q]) : queue[q][j].att = b => i = j
      BY <2>1, <2>3, <2>5, <3>1, EntryFacts
    <3>3. InRoom(b, q)' /\ WaitsForClaim(b)'
      BY <3>2, WaitKept DEF AllLater, AllWait
    <3>4. \A j \in 1..Len(queue'[q]) : queue'[q][j].att = b => i = j
      BY <1>8, <3>2
    <3> QED BY <3>1, <3>3, <3>4, ClientTypes
  <2>6. (i > 1 => ~f.begun) /\ (f.kind = "leave" => f.att = None)
    BY <2>3, <2>4
  <2> QED BY <2>2, <2>5, <2>6, EntryAfter
<1> QED BY <1>3, <1>6, <1>7, <1>9 DEF QueueInv, FirstChange

\* A step that changes neither the registry nor the joins.
LEMMA RoomStep ==
    ASSUME ClientInv, ClientTypeOK', AllLater, Kept, CleanInv', QueueInv', ChanInv', DiskInv',
           SlotInv', NameInv', UNCHANGED <<attempts, joining, closing>>
    PROVE  ClientInv'
<1>1. ShapeInv'
  BY DEF AllLater, ShapeInv
<1> QED BY <1>1, RegKept, JoinKept, CloseKept DEF ClientInv

\* Attempts that are aborted.
LEMMA AbortedSet ==
    ASSUME ClientInv, NEW S \in SUBSET Attempts, \A a \in S : att[a].pc # "unused",
           att' = Aborted(S)
    PROVE  /\ att' \in [Attempts -> AttemptStates] /\ AllLater /\ AllWait /\ AllGain
           /\ \A a \in Attempts : /\ att'[a].pc = att[a].pc /\ att'[a].link = att[a].link
                                  /\ a \in S => att'[a].aborted
                                  /\ a \notin S => att'[a] = att[a]
<1>1. ASSUME NEW a \in Attempts
      PROVE  /\ att'[a] \in AttemptStates /\ Later(att[a], att'[a]) /\ ShapeOf(att'[a])
             /\ Awaits(att[a], att'[a]) /\ Gains(att[a], att'[a])
             /\ att'[a].pc = att[a].pc /\ att'[a].link = att[a].link
             /\ a \in S => att'[a].aborted
             /\ a \notin S => att'[a] = att[a]
  <2>1. att[a] \in AttemptStates /\ ShapeOf(att[a])
    BY AttemptFacts
  <2>2. CASE a \in S
    <3> DEFINE x == att[a]
               y == [x EXCEPT !.aborted = TRUE]
    <3>1. y \in AttemptStates /\ att'[a] = y
      BY <2>1, <2>2 DEF AttemptStates, Aborted
    <3>2. /\ y.pc = x.pc /\ y.claim = x.claim /\ y.link = x.link /\ y.files = x.files
          /\ y.aborted /\ y.displaced = x.displaced /\ y.session = x.session
          /\ y.opening = x.opening
      BY <2>1 DEF AttemptStates
    <3> HIDE DEF y
    <3>3. Later(x, y) /\ ShapeOf(y) /\ Awaits(x, y) /\ Gains(x, y)
      BY <2>1, <2>2, <3>2 DEF Later, ShapeOf, Awaits, Gains, Claimed
    <3> QED BY <2>2, <3>1, <3>2, <3>3
  <2>3. CASE a \notin S
    <3>1. att'[a] = att[a]
      BY <2>3 DEF Aborted
    <3> QED BY <2>1, <2>3, <3>1 DEF Later, Awaits, Gains
  <2> QED BY <2>2, <2>3
<1>2. att' \in [Attempts -> AttemptStates]
  BY <1>1 DEF Aborted
<1> QED BY <1>1, <1>2 DEF AllLater, AllWait, AllGain

LEMMA PollAnsweredSafe == ASSUME ClientInv, NEW a \in Attempts, PollAnswered(a) PROVE ClientInv'
<1> DEFINE x == att[a]
           r == Room(a)
           y == [x EXCEPT !.pc = "claim", !.claim = "queued"]
           e == [kind |-> "claim", att |-> a, begun |-> FALSE]
<1>1. /\ x \in AttemptStates /\ ShapeOf(x) /\ x.pc = "poll" /\ ~x.aborted /\ r \in Rooms
  BY AttemptFacts, ClientTypes DEF PollAnswered, Current, ShapeOf, Room, ClientInv
<1>2. y \in AttemptStates /\ att' = [att EXCEPT ![a] = y]
  BY <1>1, AttemptFacts DEF AttemptStates, Steps, PollAnswered
<1>3. /\ y.pc = "claim" /\ y.claim = "queued" /\ y.link = x.link /\ y.files = x.files
      /\ y.aborted = x.aborted /\ y.displaced = x.displaced /\ y.session = x.session
      /\ y.opening = x.opening
  BY <1>1 DEF AttemptStates
<1> HIDE DEF y
<1>4. Later(x, y) /\ ShapeOf(y) /\ Quiet(x, y)
  BY <1>1, <1>3 DEF Later, ShapeOf, Quiet, Awaits, Calm, Gains, Claimed
<1>5. /\ att' \in [Attempts -> AttemptStates] /\ att'[a] = y
      /\ AllLater /\ AllWait /\ AllCalm /\ AllGain
  BY <1>2, <1>4, OneLater DEF ClientInv, Quiet
<1>6. e \in Changes /\ ~e.begun /\ e.kind = "claim" /\ e.att = a
  BY DEF Changes
<1>7. ~WaitsForClaim(a) /\ InRoom(a, r)' /\ WaitsForClaim(a)'
  BY <1>1, <1>3, <1>5 DEF WaitsForClaim, InRoom, Room, ShapeOf
<1>8. queue' = [queue EXCEPT ![r] = Append(@, e)]
  BY DEF PollAnswered
<1> HIDE DEF e
<1>9. QueueInv' /\ queue' \in [Rooms -> Seq(Changes)] /\ StillFront /\ SameFront
  <2>1. PICK f \in Changes : f = e
    BY <1>6
  <2>2. PICK q \in Rooms : q = r
    BY <1>1
  <2>3. InRoom(a, q)'
    BY <1>1, <1>3, <1>5, <2>2 DEF InRoom, Room, ShapeOf
  <2> QED BY <1>5, <1>6, <1>7, <1>8, <2>1, <2>2, <2>3, QueueGrows DEF ClientInv
<1>10. ClientTypeOK'
  BY <1>5, <1>9 DEF PollAnswered, ClientInv, ClientTypeOK
<1>11. Kept /\ CleanInv' /\ ChanInv' /\ DiskInv'
  BY <1>5, CleanKept, ChanKept, DiskKept DEF PollAnswered, ClientInv, Kept
<1>12. SlotInv'
  <2>1. \A q \in Rooms : Claiming(q)' <=> Claiming(q)
    BY <1>5, <1>9, ClaimingKept DEF ClientInv, StillFront, PollAnswered
  <2>2. \A b \in Attempts : att'[b].pc = "claim" /\ att'[b].aborted =>
            att[b].pc = "claim" /\ att[b].aborted
    BY <1>5 DEF AllCalm, Calm
  <2>3. (Closed <=> Closed') /\ stored \subseteq slots'
    BY DEF Closed, ClientInv, SlotInv, PollAnswered
  <2> QED BY <1>5, <1>11, <2>1, <2>2, <2>3, SlotKept DEF ClientInv, PollAnswered
<1>13. NameInv'
  <2>1. \A b \in Attempts : Current(b)' => Current(b)
    BY <1>5, CurrentKept DEF ClientInv, PollAnswered
  <2> QED BY <1>5, <1>9, <2>1, NameKept DEF ClientInv, AllGain, PollAnswered
<1> QED BY <1>5, <1>9, <1>10, <1>11, <1>12, <1>13, RoomStep DEF PollAnswered

LEMMA LeaveBeginSafe == ASSUME ClientInv, NEW r \in Rooms, LeaveBegin(r) PROVE ClientInv'
<1>1. PICK e \in Changes : e = [kind |-> "leave", att |-> None, begun |-> FALSE]
  BY DEF Changes
<1>2. ~e.begun /\ e.kind = "leave" /\ e.att = None /\ queue' = [queue EXCEPT ![r] = Append(@, e)]
  BY <1>1 DEF LeaveBegin
<1>3. AllLater /\ AllWait /\ AllCalm /\ AllGain
  BY DEF AllLater, AllWait, AllCalm, AllGain, Later, Awaits, Calm, Gains, LeaveBegin, ClientInv,
         ShapeInv
<1>4. QueueInv' /\ queue' \in [Rooms -> Seq(Changes)] /\ StillFront /\ SameFront
  BY <1>2, <1>3, QueueGrows DEF ClientInv
<1>5. leaves' \in 0..MaxLeaves
  BY ClientAssumption DEF LeaveBegin, ClientInv, ClientTypeOK
<1>6. ClientTypeOK'
  BY <1>4, <1>5 DEF LeaveBegin, ClientInv, ClientTypeOK
<1>7. Kept /\ CleanInv' /\ ChanInv' /\ DiskInv'
  BY <1>3, CleanKept, ChanKept, DiskKept DEF LeaveBegin, ClientInv, Kept
<1>8. SlotInv'
  <2>1. \A q \in Rooms : Claiming(q)' <=> Claiming(q)
    BY <1>3, <1>4, ClaimingKept DEF ClientInv, StillFront, LeaveBegin
  <2>2. (Closed <=> Closed') /\ stored \subseteq slots'
    BY DEF Closed, ClientInv, SlotInv, LeaveBegin
  <2> QED BY <1>3, <1>7, <2>1, <2>2, SlotKept DEF ClientInv, LeaveBegin
<1>9. NameInv'
  <2>1. \A b \in Attempts : Current(b)' => Current(b)
    BY <1>3, CurrentKept DEF ClientInv, LeaveBegin
  <2> QED BY <1>3, <1>4, <2>1, NameKept DEF ClientInv, AllGain, LeaveBegin
<1> QED BY <1>3, <1>4, <1>6, <1>7, <1>8, <1>9, RoomStep DEF LeaveBegin

\* The promise of a claim is answered.
LEMMA ResolvedStep ==
    ASSUME ClientInv, NEW a \in Attempts, WaitsForClaim(a), NEW how \in {"done", "refused"},
           Resolved(a, how)
    PROVE  /\ att' \in [Attempts -> AttemptStates] /\ AllLater /\ AllCalm
           /\ \A b \in Attempts \ {a} : Awaits(att[b], att'[b]) /\ Gains(att[b], att'[b])
           /\ how = "refused" => Gains(att[a], att'[a])
<1> DEFINE x == att[a]
<1>1. x \in AttemptStates /\ ShapeOf(x) /\ x.pc \in {"claim", "ended"}
  BY AttemptFacts DEF WaitsForClaim
<1>2. PICK m \in {"none", "queued", "done", "refused"} : m = IF x.pc = "claim" THEN how ELSE x.claim
  BY <1>1 DEF AttemptStates
<1> DEFINE y == [x EXCEPT !.claim = m]
<1>3. y \in AttemptStates /\ att' = [att EXCEPT ![a] = y]
  BY <1>1, <1>2, AttemptFacts DEF AttemptStates, Resolved
<1>4. /\ y.pc = x.pc /\ y.claim = m /\ y.link = x.link /\ y.files = x.files
      /\ y.aborted = x.aborted /\ y.displaced = x.displaced /\ y.session = x.session
      /\ y.opening = x.opening
  BY <1>1 DEF AttemptStates
<1> HIDE DEF y
<1>5. Later(x, y) /\ ShapeOf(y) /\ Calm(x, y) /\ (how = "refused" => Gains(x, y))
  BY <1>1, <1>2, <1>4 DEF Later, ShapeOf, Calm, Gains, Claimed
<1>6. /\ att' \in [Attempts -> AttemptStates] /\ att'[a] = y
      /\ \A b \in Attempts \ {a} : att'[b] = att[b]
      /\ AllLater /\ AllCalm
  BY <1>3, <1>5, OneLater DEF ClientInv
<1>7. \A b \in Attempts \ {a} : Awaits(att[b], att'[b]) /\ Gains(att[b], att'[b])
  BY <1>6 DEF Awaits, Gains
<1> QED BY <1>5, <1>6, <1>7

\* The first change of a room, which holds no slot of its own, ends.
LEMMA ChangeDropped ==
    ASSUME ClientInv, NEW r \in Rooms, queue[r] # <<>>, ~Claiming(r), Finished(r),
           att' \in [Attempts -> AttemptStates], AllLater, AllCalm,
           \A b \in Attempts : b # FirstChange(r).att => Awaits(att[b], att'[b]),
           \A b \in Attempts : Current(b) => Gains(att[b], att'[b]),
           UNCHANGED <<attempts, channels, stored, slots, joining, cleaning, disk, closing, leaves,
                       mishaps>>
    PROVE  ClientInv'
<1>1. /\ QueueInv' /\ queue' \in [Rooms -> Seq(Changes)] /\ SameFront /\ ~Underway(r)'
      /\ \A q \in Rooms \ {r} : queue'[q] = queue[q]
  BY QueueTail DEF ClientInv
<1>2. ClientTypeOK'
  BY <1>1 DEF ClientInv, ClientTypeOK
<1>3. Kept /\ CleanInv' /\ ChanInv' /\ DiskInv'
  BY CleanKept, ChanKept, DiskKept DEF ClientInv, Kept
<1>4. SlotInv'
  <2>1. ASSUME NEW q \in Rooms PROVE Claiming(q)' <=> Claiming(q)
    <3>1. CASE q = r
      BY <1>1, <3>1 DEF Claiming, Underway, FirstChange
    <3>2. CASE q # r
      <4>1. /\ Underway(q)' <=> Underway(q)
            /\ FirstChange(q)' = FirstChange(q)
        BY <1>1, <3>2 DEF Underway, FirstChange
      <4> QED BY <4>1, ClaimingKept DEF ClientInv
    <3> QED BY <3>1, <3>2
  <2>2. (Closed <=> Closed') /\ stored \subseteq slots'
    BY DEF Closed, ClientInv, SlotInv
  <2>3. \A b \in Attempts : att'[b].pc = "claim" /\ att'[b].aborted =>
            att[b].pc = "claim" /\ att[b].aborted
    BY DEF AllCalm, Calm
  <2> QED BY <1>3, <2>1, <2>2, <2>3, SlotKept DEF ClientInv
<1>5. NameInv'
  <2>1. \A b \in Attempts : Current(b)' => Current(b)
    BY CurrentKept DEF ClientInv
  <2> DEFINE S == {b \in Attempts : Current(b)}
  <2>2. \A b \in Attempts \ S : NameOK(b)'
    BY <2>1 DEF NameOK, Current
  <2>3. S \in SUBSET Attempts /\ \A b \in S : Gains(att[b], att'[b])
    OBVIOUS
  <2> HIDE DEF S
  <2> QED BY <1>1, <2>1, <2>2, <2>3, NameKept DEF ClientInv
<1> QED BY <1>1, <1>2, <1>3, <1>4, <1>5, RoomStep

\* The first change of a room begins and cancels the attempt that has the room.
LEMMA TurnBegins ==
    ASSUME ClientInv, NEW r \in Rooms, queue[r] # <<>>, ~FirstChange(r).begun, Begun(r),
           NEW p \in Attempts \cup {None}, CancelFirst(r, p),
           p # None => p = channels[r] /\ p # FirstChange(r).att,
           p = None => channels[r] = None \/ channels[r] = FirstChange(r).att,
           FirstChange(r).kind = "claim" => Current(FirstChange(r).att) /\ slots' = slots \cup {r},
           FirstChange(r).kind # "claim" => slots' = slots,
           UNCHANGED <<attempts, channels, stored, joining, disk, closing, leaves, mishaps>>
    PROVE  ClientInv'
<1> DEFINE S == {p} \ {None}
           C == {Cancel(<<"room", r>>, b) : b \in S}
<1>1. /\ S \in SUBSET Attempts /\ C \subseteq Cleanups
      /\ \A d \in C : d.by = <<"room", r>> /\ d.of \in S /\ d.of \in Attempts
      /\ \A b \in S : \E d \in C : d.by = <<"room", r>> /\ d.of = b
  <2>1. <<"room", r>> \in Cleaners
    BY DEF Cleaners
  <2> QED BY <2>1, CleanupTyped
<1>2. att' = Aborted(S) /\ cleaning' = cleaning \cup C
  <2>1. Cancels(C)
    BY DEF CancelFirst
  <2> HIDE DEF S, C
  <2>2. att' = Aborted({c.of : c \in C}) /\ cleaning' = cleaning \cup C
    BY <2>1 DEF Cancels
  <2>3. {c.of : c \in C} = S
    BY <1>1
  <2> QED BY <2>2, <2>3
<1>3. \A b \in S : att[b].pc # "unused" /\ InRoom(b, r) /\ (att[b].pc # "ended" => r \in stored)
                   /\ b # FirstChange(r).att
  BY DEF ClientInv, ChanInv, ChanOK
<1> HIDE DEF S, C
<1>4. /\ att' \in [Attempts -> AttemptStates] /\ AllLater /\ AllWait /\ AllGain
      /\ \A a \in Attempts : /\ att'[a].pc = att[a].pc /\ att'[a].link = att[a].link
                             /\ a \in S => att'[a].aborted
                             /\ a \notin S => att'[a] = att[a]
  BY <1>1, <1>2, <1>3, AbortedSet
<1>5. /\ QueueInv' /\ queue' \in [Rooms -> Seq(Changes)]
      /\ Underway(r)' /\ FirstChange(r)'.kind = FirstChange(r).kind
      /\ FirstChange(r)'.att = FirstChange(r).att
      /\ \A q \in Rooms \ {r} : queue'[q] = queue[q]
  BY <1>4, QueueBegun DEF ClientInv
<1>6. cleaning' \subseteq Cleanups /\ Kept /\ \A d \in cleaning' : d \in cleaning \/ d \in C
  BY <1>1, <1>2 DEF ClientInv, ClientTypeOK, Kept
<1>7. ClientTypeOK'
  BY <1>4, <1>5, <1>6 DEF ClientInv, ClientTypeOK
<1>8. ASSUME NEW d \in C PROVE CleanOK(d)'
  <2>1. d.of \in S /\ d.of \in Attempts /\ d.by[1] = "room" /\ d.step = "task"
    BY <1>1, CleanupTyped DEF C, Cancel
  <2>2. att'[d.of].aborted /\ att'[d.of].pc # "unused"
    BY <1>3, <1>4, <2>1
  <2> QED BY <2>1, <2>2 DEF CleanOK
<1>9. CleanInv' /\ ChanInv' /\ DiskInv'
  BY <1>4, <1>6, <1>8, CleanKept, ChanKept, DiskKept DEF ClientInv
<1>10. \A b \in Attempts : b \notin S => (Current(b)' <=> Current(b))
  BY <1>4 DEF Current, Closed
<1>11. \A b \in Attempts : Current(b)' => Current(b)
  <2>1. \A b \in Attempts : b \in S => ~Current(b)'
    BY <1>4 DEF Current
  <2> QED BY <1>10, <2>1
<1>12. SlotInv'
  <2>1. ASSUME NEW q \in Rooms, q # r PROVE Claiming(q)' <=> Claiming(q)
    <3>1. /\ Underway(q)' <=> Underway(q)
          /\ FirstChange(q)' = FirstChange(q)
      BY <1>5, <2>1 DEF Underway, FirstChange
    <3>2. CASE Underway(q) /\ FirstChange(q).kind = "claim"
      <4>1. PICK b \in Attempts : b = FirstChange(q).att /\ InRoom(b, q)
        BY <3>2, FirstFacts DEF ClientInv, Underway
      <4>2. b \notin S
        BY <1>3, <2>1, <4>1 DEF InRoom
      <4>3. Claiming(q) <=> Current(b)
        BY <3>2, <4>1 DEF Claiming
      <4>4. Claiming(q)' <=> Current(b)'
        BY <3>1, <3>2, <4>1 DEF Claiming, Current
      <4> QED BY <1>10, <4>2, <4>3, <4>4
    <3>3. CASE ~(Underway(q) /\ FirstChange(q).kind = "claim")
      BY <3>1, <3>3 DEF Claiming
    <3> QED BY <3>2, <3>3
  <2>2. ASSUME ~Closed', NEW q \in Rooms
        PROVE  (Claiming(q)' => q \in slots') /\ (q \in slots' => q \in stored' \/ Claiming(q)')
    <3>1. ~Closed
      BY <2>2 DEF Closed
    <3>2. CASE q # r
      <4>1. (Claiming(q) => q \in slots) /\ (q \in slots => q \in stored \/ Claiming(q))
        BY <3>1 DEF ClientInv, SlotInv
      <4> QED BY <2>1, <3>2, <4>1
    <3>3. CASE q = r /\ FirstChange(r).kind = "claim"
      <4>1. PICK b \in Attempts : b = FirstChange(r).att
        BY <3>3, FirstFacts DEF ClientInv
      <4>2. Current(b)' /\ slots' = slots \cup {r}
        BY <1>3, <1>10, <3>3, <4>1
      <4>3. Claiming(r)'
        BY <1>5, <3>3, <4>1, <4>2 DEF Claiming, Current
      <4> QED BY <3>3, <4>2, <4>3
    <3>4. CASE q = r /\ FirstChange(r).kind # "claim"
      <4>1. ~Claiming(r) /\ ~Claiming(r)'
        BY <1>5, <3>4 DEF Claiming
      <4>2. r \in slots => r \in stored
        BY <3>1, <4>1 DEF ClientInv, SlotInv
      <4> QED BY <3>4, <4>1, <4>2
    <3> QED BY <3>2, <3>3, <3>4
  <2>3. ASSUME ~Closed, NEW b \in Attempts, att'[b].pc = "claim", att'[b].aborted
        PROVE  Room(b) \in stored /\ \E d \in cleaning' : d.of = b /\ d.by = <<"room", Room(b)>>
    <3>1. CASE b \in S
      <4>1. att[b].pc = "claim"
        BY <1>4, <2>3
      <4>2. InRoom(b, r) /\ r \in stored
        BY <1>3, <3>1, <4>1
      <4>3. Room(b) = r
        BY <4>2 DEF InRoom
      <4>4. PICK d \in C : d.by = <<"room", r>> /\ d.of = b
        BY <1>1, <3>1
      <4>5. d \in cleaning'
        BY <1>2
      <4> QED BY <4>2, <4>3, <4>4, <4>5
    <3>2. CASE b \notin S
      <4>1. att[b].pc = "claim" /\ att[b].aborted
        BY <1>4, <2>3, <3>2
      <4> QED BY <1>2, <2>3, <4>1 DEF ClientInv, SlotInv
    <3> QED BY <3>1, <3>2
  <2>4. \A b \in Attempts : Room(b)' = Room(b)
    BY <1>4 DEF Room
  <2>5. stored' = stored /\ closing' = closing
    OBVIOUS
  <2>6. ASSUME ~Closed', NEW b \in Attempts, att'[b].pc = "claim", att'[b].aborted
        PROVE  /\ Room(b)' \in stored'
               /\ \E d \in cleaning' : d.of = b /\ d.by = <<"room", Room(b)'>>
    BY <2>3, <2>4, <2>5, <2>6 DEF Closed
  <2>7. stored' \subseteq slots'
    BY <2>5 DEF ClientInv, SlotInv
  <2> QED BY <2>2, <2>6, <2>7 DEF SlotInv
<1>13. NameInv'
  <2> SUFFICES ASSUME NEW b \in Attempts, Claimed(att'[b]), Current(b)'
               PROVE  NameOK(b)'
    BY DEF NameInv, NameOK
  <2>1. b \notin S /\ att'[b] = att[b] /\ Current(b)
    BY <1>4, <1>11 DEF Current
  <2>2. NameOK(b) /\ Claimed(att[b]) /\ Room(b)' = Room(b)
    BY <2>1 DEF ClientInv, NameInv, Room
  <2>3. ASSUME ~att[b].displaced
        PROVE  channels[Room(b)] = b /\ (Underway(Room(b))' => FirstChange(Room(b))'.att = b)
    <3>1. channels[Room(b)] = b /\ (Underway(Room(b)) => FirstChange(Room(b)).att = b)
      BY <2>1, <2>2, <2>3 DEF NameOK
    <3>2. Room(b) \in Rooms
      BY <2>2, AttemptFacts, ClientTypes DEF ShapeOf, Claimed, Unused, Room, ClientInv
    <3>3. PICK q \in Rooms : q = Room(b) /\ q = Room(b)'
      BY <2>2, <3>2
    <3>4. CASE q = r
      <4>1. FirstChange(r).att = b
        BY <2>1, <3>1, <3>3, <3>4, ClientTypes DEF S, ClientInv
      <4> QED BY <1>5, <3>1, <3>3, <3>4, <4>1 DEF FirstChange
    <3>5. CASE q # r
      BY <1>5, <3>1, <3>3, <3>5 DEF Underway, FirstChange
    <3> QED BY <3>4, <3>5
  <2> QED BY <2>1, <2>2, <2>3 DEF NameOK
<1> QED BY <1>4, <1>5, <1>6, <1>7, <1>9, <1>12, <1>13, RoomStep

\* The first change of a room and what is known of it when its turn comes.
LEMMA TurnFacts ==
    ASSUME ClientInv, NEW r \in Rooms, NEW kind \in {"claim", "leave"}, NEW begun \in BOOLEAN,
           IsFirst(r, kind, begun)
    PROVE  /\ queue[r] # <<>> /\ FirstChange(r).kind = kind /\ FirstChange(r).begun = begun
           /\ ~Busy(<<"room", r>>)
           /\ channels[r] \in Attempts \cup {None}
           /\ kind = "claim" => /\ FirstChange(r).att \in Attempts /\ FirstChange(r).att # None
                                /\ InRoom(FirstChange(r).att, r)
                                /\ WaitsForClaim(FirstChange(r).att)
           /\ kind = "leave" => FirstChange(r).att = None
<1>1. queue[r] # <<>> /\ FirstChange(r).kind = kind /\ FirstChange(r).begun = begun
      /\ ~Busy(<<"room", r>>)
  BY DEF IsFirst
<1> QED BY <1>1, FirstFacts, ClientTypes DEF ClientInv

\* A claim whose attempt is not current, or that is refused, ends without a slot.
LEMMA ClaimDropped ==
    ASSUME ClientInv, NEW r \in Rooms, NEW a \in Attempts, queue[r] # <<>>,
           a = FirstChange(r).att, WaitsForClaim(a), ~Claiming(r), Finished(r),
           NEW how \in {"done", "refused"}, Resolved(a, how), how = "done" => ~Current(a),
           UNCHANGED <<attempts, channels, stored, slots, joining, cleaning, disk, closing, leaves,
                       mishaps>>
    PROVE  ClientInv'
<1>1. /\ att' \in [Attempts -> AttemptStates] /\ AllLater /\ AllCalm
      /\ \A b \in Attempts \ {a} : Awaits(att[b], att'[b]) /\ Gains(att[b], att'[b])
      /\ how = "refused" => Gains(att[a], att'[a])
  BY ResolvedStep
<1>2. \A b \in Attempts : Current(b) => Gains(att[b], att'[b])
  BY <1>1
<1>3. \A b \in Attempts : b # FirstChange(r).att => Awaits(att[b], att'[b])
  BY <1>1
<1> QED BY <1>1, <1>2, <1>3, ChangeDropped

LEMMA ClaimTurnSafe == ASSUME ClientInv, NEW r \in Rooms, ClaimTurn(r) PROVE ClientInv'
<1>1. PICK a \in Attempts : a = FirstChange(r).att
  BY TurnFacts DEF ClaimTurn
<1>2. /\ queue[r] # <<>> /\ FirstChange(r).kind = "claim" /\ ~FirstChange(r).begun
      /\ WaitsForClaim(a) /\ channels[r] \in Attempts \cup {None}
  BY <1>1, TurnFacts DEF ClaimTurn
<1>3. ~Claiming(r)
  BY <1>2 DEF Claiming, Underway
<1>4. UNCHANGED <<attempts, channels, stored, joining, disk, closing, leaves, mishaps>>
  BY DEF ClaimTurn
<1>5. CASE ~Current(a)
  <2>1. Finished(r) /\ Resolved(a, "done") /\ UNCHANGED <<slots, cleaning>>
    BY <1>1, <1>5 DEF ClaimTurn
  <2> QED BY <1>1, <1>2, <1>3, <1>4, <1>5, <2>1, ClaimDropped
<1>6. CASE Current(a) /\ r \notin slots /\ Cardinality(slots) >= MaxSlots
  <2>1. Finished(r) /\ Resolved(a, "refused") /\ UNCHANGED <<slots, cleaning>>
    BY <1>1, <1>6 DEF ClaimTurn
  <2> QED BY <1>1, <1>2, <1>3, <1>4, <2>1, ClaimDropped
<1>7. CASE Current(a) /\ ~(r \notin slots /\ Cardinality(slots) >= MaxSlots)
  <2>1. PICK p \in Attempts \cup {None} : p = IF channels[r] = a THEN None ELSE channels[r]
    BY <1>2
  <2>2. Begun(r) /\ slots' = slots \cup {r} /\ CancelFirst(r, p)
    BY <1>1, <1>7, <2>1 DEF ClaimTurn
  <2>3. p # None => p = channels[r] /\ p # FirstChange(r).att
    BY <1>1, <2>1
  <2>4. p = None => channels[r] = None \/ channels[r] = FirstChange(r).att
    BY <1>1, <2>1
  <2>5. Current(FirstChange(r).att)
    BY <1>1, <1>7
  <2> QED BY <1>2, <1>4, <2>2, <2>3, <2>4, <2>5, TurnBegins
<1> QED BY <1>5, <1>6, <1>7

LEMMA LeaveTurnSafe == ASSUME ClientInv, NEW r \in Rooms, LeaveTurn(r) PROVE ClientInv'
<1>1. /\ queue[r] # <<>> /\ FirstChange(r).kind = "leave" /\ ~FirstChange(r).begun
      /\ FirstChange(r).att = None /\ channels[r] \in Attempts \cup {None}
  BY TurnFacts DEF LeaveTurn
<1>2. UNCHANGED <<attempts, channels, stored, slots, joining, disk, closing, leaves, mishaps>>
  BY DEF LeaveTurn
<1>3. CASE r \notin stored
  <2>1. Finished(r) /\ UNCHANGED <<att, cleaning>>
    BY <1>3 DEF LeaveTurn
  <2>2. ~Claiming(r)
    BY <1>1 DEF Claiming
  <2>3. /\ att' \in [Attempts -> AttemptStates] /\ AllLater /\ AllCalm
        /\ \A b \in Attempts : Awaits(att[b], att'[b]) /\ Gains(att[b], att'[b])
    BY <2>1 DEF AllLater, AllCalm, Later, Awaits, Calm, Gains, ClientInv, ShapeInv, ClientTypeOK
  <2> QED BY <1>1, <1>2, <2>1, <2>2, <2>3, ChangeDropped
<1>4. CASE r \in stored
  <2>1. Begun(r) /\ CancelFirst(r, channels[r])
    BY <1>4 DEF LeaveTurn
  <2> QED BY <1>1, <1>2, <2>1, TurnBegins
<1> QED BY <1>3, <1>4

\* The claim under way is answered, and the room is its attempt's (even if it is refused, for
\* its channel.json), or the slot is given back.
LEMMA ClaimAnswered ==
    ASSUME ClientInv, NEW r \in Rooms, NEW a \in Attempts, queue[r] # <<>>,
           a = FirstChange(r).att, InRoom(a, r), WaitsForClaim(a), Claiming(r), Current(a),
           NEW how \in {"done", "refused"}, NEW named \in BOOLEAN, how = "done" => named,
           Finished(r),
           att' = [att EXCEPT ![a].claim = how, ![a].files = TRUE],
           named => /\ channels' = [channels EXCEPT ![r] = a]
                    /\ stored' = stored \cup {r} /\ slots' = slots,
           ~named => slots' = Unslotted(a) /\ channels' = channels /\ stored' = stored,
           mishaps' \in 0..MaxMishaps,
           UNCHANGED <<attempts, joining, cleaning, disk, closing, leaves>>
    PROVE  ClientInv'
<1> DEFINE x == att[a]
           y == [x EXCEPT !.claim = how, !.files = TRUE]
<1>1. x \in AttemptStates /\ ShapeOf(x) /\ x.pc = "claim" /\ x.claim = "queued" /\ ~x.aborted
  BY AttemptFacts DEF WaitsForClaim, Current
<1>2. y \in AttemptStates /\ att' = [att EXCEPT ![a] = y]
  BY <1>1, AttemptFacts DEF AttemptStates
<1>3. /\ y.pc = "claim" /\ y.claim = how /\ y.link = x.link /\ y.files
      /\ y.aborted = x.aborted /\ y.displaced = x.displaced /\ y.session = x.session
      /\ y.opening = x.opening
  BY <1>1 DEF AttemptStates
<1> HIDE DEF y
<1>4. Later(x, y) /\ ShapeOf(y) /\ Calm(x, y) /\ (how = "refused" => ~Claimed(y))
  BY <1>1, <1>3 DEF Later, ShapeOf, Calm, Claimed
<1>5. /\ att' \in [Attempts -> AttemptStates] /\ att'[a] = y
      /\ \A b \in Attempts \ {a} : att'[b] = att[b]
      /\ AllLater /\ AllCalm
  BY <1>2, <1>4, OneLater DEF ClientInv
<1>6. \A b \in Attempts : b # a => Awaits(att[b], att'[b])
  BY <1>5 DEF Awaits
<1>7. /\ QueueInv' /\ queue' \in [Rooms -> Seq(Changes)] /\ SameFront /\ ~Underway(r)'
      /\ \A q \in Rooms \ {r} : queue'[q] = queue[q]
  BY <1>5, <1>6, QueueTail DEF ClientInv
<1>8. /\ channels' \in [Rooms -> Attempts \cup {None}] /\ stored \subseteq stored'
      /\ stored' \subseteq Rooms /\ slots' \subseteq Rooms /\ stored' \subseteq slots'
      /\ slots' \subseteq slots /\ slots \subseteq slots' \cup {r}
      /\ r \in slots' => r \in stored'
      /\ \A q \in Rooms \ {r} : channels'[q] = channels[q] /\ (q \in stored' <=> q \in stored)
      /\ channels'[r] = IF named THEN a ELSE channels[r]
      /\ named => r \in stored'
  <2>1. /\ channels \in [Rooms -> Attempts \cup {None}] /\ stored \subseteq Rooms
        /\ slots \subseteq Rooms /\ stored \subseteq slots
    BY DEF ClientInv, ClientTypeOK, SlotInv
  <2>2. r \in slots
    BY DEF ClientInv, SlotInv, Current
  <2>3. Room(a) = r
    BY DEF InRoom
  <2>4. CASE named
    BY <2>1, <2>2, <2>4
  <2>5. CASE ~named
    BY <2>1, <2>2, <2>3, <2>5 DEF Unslotted
  <2> QED BY <2>4, <2>5
<1>9. ClientTypeOK'
  BY <1>5, <1>7, <1>8 DEF ClientInv, ClientTypeOK
<1>10. Kept /\ CleanInv' /\ DiskInv'
  BY <1>5, CleanKept, DiskKept DEF ClientInv, Kept
<1>11. \A b \in Attempts : Current(b)' <=> Current(b)
  <2> SUFFICES ASSUME NEW b \in Attempts PROVE Current(b)' <=> Current(b)
    OBVIOUS
  <2>1. att'[b].link = att[b].link /\ att'[b].aborted = att[b].aborted
    BY <1>3, <1>5
  <2> QED BY <2>1 DEF Current, Closed
<1>12. ChanInv'
  <2> SUFFICES ASSUME NEW q \in Rooms, channels'[q] # None PROVE ChanOK(q, channels[q])'
    BY DEF ChanInv
  <2>1. CASE q = r /\ named
    <3>1. att'[a].pc = "claim" /\ att'[a].link = x.link /\ channels'[q] = a /\ r \in stored'
      BY <1>3, <1>5, <1>8, <2>1
    <3> QED BY <2>1, <3>1 DEF ChanOK, InRoom, Room
  <2>2. CASE ~(q = r /\ named)
    <3>1. channels'[q] = channels[q] /\ ChanOK(q, channels[q])
      BY <1>8, <2>2 DEF ClientInv, ChanInv
    <3>2. PICK b \in Attempts : b = channels[q] /\ b = channels'[q] /\ ChanOK(q, b)
      BY <3>1, ClientTypes DEF ClientInv
    <3>3. att'[b].pc = att[b].pc /\ att'[b].link = att[b].link
      BY <1>1, <1>3, <1>5
    <3> QED BY <1>8, <3>2, <3>3 DEF ChanOK, InRoom, Room
  <2> QED BY <2>1, <2>2
<1>13. SlotInv'
  <2>1. ~Claiming(r)'
    BY <1>7 DEF Claiming
  <2>2. ASSUME ~Closed', NEW q \in Rooms
        PROVE  (Claiming(q)' => q \in slots') /\ (q \in slots' => q \in stored' \/ Claiming(q)')
    <3>1. CASE q = r
      BY <1>8, <2>1, <3>1
    <3>2. CASE q # r
      <4>1. /\ Underway(q)' <=> Underway(q)
            /\ FirstChange(q)' = FirstChange(q)
        BY <1>7, <3>2 DEF Underway, FirstChange
      <4>2. Claiming(q)' <=> Claiming(q)
        BY <1>5, <4>1, ClaimingKept DEF ClientInv
      <4>3. (Claiming(q) => q \in slots) /\ (q \in slots => q \in stored \/ Claiming(q))
        BY DEF ClientInv, SlotInv, Current
      <4> QED BY <1>8, <3>2, <4>2, <4>3
    <3> QED BY <3>1, <3>2
  <2>3. ASSUME NEW b \in Attempts, att'[b].pc = "claim", att'[b].aborted
        PROVE  /\ Room(b)' \in stored'
               /\ \E c \in cleaning' : c.of = b /\ c.by = <<"room", Room(b)'>>
    <3>1. b # a /\ att'[b] = att[b]
      BY <1>1, <1>3, <1>5, <2>3
    <3>2. Room(b)' = Room(b)
      BY <3>1 DEF Room
    <3>3. Room(b) \in stored /\ \E c \in cleaning : c.of = b /\ c.by = <<"room", Room(b)>>
      BY <2>3, <3>1 DEF ClientInv, SlotInv, Current
    <3> QED BY <1>8, <3>2, <3>3
  <2> QED BY <1>8, <2>2, <2>3 DEF SlotInv
<1>14. NameInv'
  <2> SUFFICES ASSUME NEW b \in Attempts, Claimed(att'[b]), Current(b)' PROVE NameOK(b)'
    BY DEF NameInv, NameOK
  <2>1. CASE b = a
    <3>1. how = "done" /\ att'[a].files /\ Room(a)' = r
      BY <1>3, <1>4, <1>5, <2>1 DEF InRoom, Room
    <3>2. channels'[r] = a
      BY <1>8, <3>1
    <3>3. PICK q : q = r /\ q = Room(b)'
      BY <2>1, <3>1
    <3> QED BY <1>7, <2>1, <3>1, <3>2, <3>3 DEF NameOK, Underway
  <2>2. CASE b # a
    <3>1. att'[b] = att[b] /\ Room(b)' = Room(b) /\ Current(b)
      BY <1>5, <1>11, <2>2 DEF Room
    <3>2. NameOK(b) /\ Claimed(att[b])
      BY <3>1 DEF ClientInv, NameInv
    <3>3. ASSUME ~att[b].displaced
          PROVE  channels'[Room(b)] = b /\ (Underway(Room(b))' => FirstChange(Room(b))'.att = b)
      <4>1. channels[Room(b)] = b /\ (Underway(Room(b)) => FirstChange(Room(b)).att = b)
        BY <3>1, <3>2, <3>3 DEF NameOK
      <4>2. Room(b) \in Rooms
        BY <3>2, AttemptFacts, ClientTypes DEF ShapeOf, Claimed, Unused, Room, ClientInv
      <4>3. PICK q \in Rooms : q = Room(b) /\ q = Room(b)'
        BY <3>1, <4>2
      <4>4. q # r
        BY <2>2, <4>1, <4>3 DEF Claiming
      <4>5. channels'[q] = b
        BY <1>8, <4>1, <4>3, <4>4
      <4>6. queue'[q] = queue[q]
        BY <1>7, <4>4
      <4> QED BY <4>1, <4>3, <4>5, <4>6 DEF Underway, FirstChange
    <3> QED BY <3>1, <3>2, <3>3 DEF NameOK
  <2> QED BY <2>1, <2>2
<1> QED BY <1>5, <1>7, <1>9, <1>10, <1>12, <1>13, <1>14, RoomStep

LEMMA ClaimFinishSafe == ASSUME ClientInv, NEW r \in Rooms, ClaimFinish(r) PROVE ClientInv'
<1>1. PICK a \in Attempts : a = FirstChange(r).att
  BY TurnFacts DEF ClaimFinish
<1>2. /\ queue[r] # <<>> /\ FirstChange(r).kind = "claim" /\ FirstChange(r).begun
      /\ InRoom(a, r) /\ WaitsForClaim(a)
  BY <1>1, TurnFacts DEF ClaimFinish
<1>3. Claiming(r) <=> Current(a)
  BY <1>1, <1>2 DEF Claiming, Underway
<1>4. Finished(r) /\ UNCHANGED <<attempts, joining, cleaning, disk, closing, leaves>>
      /\ mishaps \in 0..MaxMishaps
  BY <1>1, AttemptFacts DEF ClaimFinish
<1>5. CASE ~Current(a)
  <2>1. Resolved(a, "done") /\ UNCHANGED <<channels, stored, slots, mishaps>>
    BY <1>1, <1>5 DEF ClaimFinish
  <2> QED BY <1>1, <1>2, <1>3, <1>4, <1>5, <2>1, ClaimDropped
<1>6. CASE /\ Current(a)
           /\ \E how \in {"done", "refused"} :
                 /\ att' = [att EXCEPT ![a].claim = how, ![a].files = TRUE]
                 /\ IF how = "done" THEN UNCHANGED mishaps ELSE Mishap
           /\ channels' = [channels EXCEPT ![r] = a]
           /\ stored' = stored \cup {r}
           /\ UNCHANGED slots
  <2>1. PICK how \in {"done", "refused"} :
             /\ att' = [att EXCEPT ![a].claim = how, ![a].files = TRUE]
             /\ IF how = "done" THEN UNCHANGED mishaps ELSE Mishap
    BY <1>6
  <2>2. mishaps' \in 0..MaxMishaps
    BY <1>4, <2>1, MishapCounted
  <2>3. PICK named \in BOOLEAN : named
    OBVIOUS
  <2> QED BY <1>1, <1>2, <1>3, <1>4, <1>6, <2>1, <2>2, <2>3, ClaimAnswered
<1>7. CASE /\ Current(a) /\ Mishap
           /\ att' = [att EXCEPT ![a].claim = "refused", ![a].files = TRUE]
           /\ slots' = Unslotted(a)
           /\ UNCHANGED <<channels, stored>>
  <2>1. mishaps' \in 0..MaxMishaps
    BY <1>4, <1>7, MishapCounted
  <2>2. PICK named \in BOOLEAN : ~named
    OBVIOUS
  <2>3. PICK how \in {"done", "refused"} : how = "refused"
    OBVIOUS
  <2>4. att' = [att EXCEPT ![a].claim = how, ![a].files = TRUE]
    BY <1>7, <2>3
  <2> QED BY <1>1, <1>2, <1>3, <1>4, <1>7, <2>1, <2>2, <2>3, <2>4, ClaimAnswered
<1> QED BY <1>1, <1>5, <1>6, <1>7 DEF ClaimFinish

LEMMA LeaveFinishSafe == ASSUME ClientInv, NEW r \in Rooms, LeaveFinish(r) PROVE ClientInv'
<1>1. /\ queue[r] # <<>> /\ FirstChange(r).kind = "leave" /\ FirstChange(r).begun
      /\ FirstChange(r).att = None /\ ~Busy(<<"room", r>>)
  BY TurnFacts DEF LeaveFinish
<1>2. /\ Finished(r) /\ stored' = stored \ {r} /\ slots' = slots \ {r}
      /\ UNCHANGED <<att, attempts, joining, cleaning, closing, leaves, mishaps>>
  BY DEF LeaveFinish
<1>3. AllLater /\ AllCalm /\ AllGain /\ AllWait
  BY <1>2 DEF AllLater, AllCalm, AllGain, AllWait, Later, Awaits, Calm, Gains, ClientInv, ShapeInv
<1>4. /\ QueueInv' /\ queue' \in [Rooms -> Seq(Changes)] /\ SameFront /\ ~Underway(r)'
      /\ \A q \in Rooms \ {r} : queue'[q] = queue[q]
  BY <1>1, <1>2, <1>3, QueueTail DEF ClientInv, AllWait
<1>5. /\ disk' \in [Rooms -> [session : Attempts \cup {None}, resume : Links \cup {None}]]
      /\ \A q \in Rooms : disk'[q].session \in {None, disk[q].session}
      /\ channels' \in [Rooms -> Attempts \cup {None}]
      /\ channels'[r] = None /\ \A q \in Rooms \ {r} : channels'[q] = channels[q]
  BY DEF LeaveFinish, ClientInv, ClientTypeOK
<1>6. ClientTypeOK'
  BY <1>2, <1>4, <1>5 DEF ClientInv, ClientTypeOK
<1>7. Kept /\ CleanInv' /\ DiskInv'
  BY <1>2, <1>3, <1>5, CleanKept, DiskKept DEF ClientInv, Kept
<1>8. ChanInv'
  <2> SUFFICES ASSUME NEW q \in Rooms, channels'[q] # None PROVE ChanOK(q, channels[q])'
    BY DEF ChanInv
  <2>1. q # r /\ channels'[q] = channels[q]
    BY <1>5
  <2>2. ChanOK(q, channels[q])
    BY <2>1 DEF ClientInv, ChanInv
  <2>3. q \in stored' <=> q \in stored
    BY <1>2, <2>1
  <2> QED BY <1>2, <2>1, <2>2, <2>3 DEF ChanOK, InRoom, Room
<1>9. SlotInv'
  <2>1. ASSUME ~Closed', NEW q \in Rooms
        PROVE  (Claiming(q)' => q \in slots') /\ (q \in slots' => q \in stored' \/ Claiming(q)')
    <3>1. CASE q = r
      <4>1. ~Claiming(r)'
        BY <1>4 DEF Claiming
      <4> QED BY <1>2, <3>1, <4>1
    <3>2. CASE q # r
      <4>1. /\ Underway(q)' <=> Underway(q)
            /\ FirstChange(q)' = FirstChange(q)
        BY <1>4, <3>2 DEF Underway, FirstChange
      <4>2. Claiming(q)' <=> Claiming(q)
        BY <1>2, <1>3, <4>1, ClaimingKept DEF ClientInv
      <4>3. ~Closed
        BY <1>2, <2>1 DEF Closed
      <4>4. (Claiming(q) => q \in slots) /\ (q \in slots => q \in stored \/ Claiming(q))
        BY <4>3 DEF ClientInv, SlotInv
      <4> QED BY <1>2, <3>2, <4>2, <4>4
    <3> QED BY <3>1, <3>2
  <2>2. ASSUME ~Closed', NEW b \in Attempts, att'[b].pc = "claim", att'[b].aborted
        PROVE  /\ Room(b)' \in stored'
               /\ \E c \in cleaning' : c.of = b /\ c.by = <<"room", Room(b)'>>
    <3>1. att'[b] = att[b] /\ Room(b)' = Room(b) /\ ~Closed
      BY <1>2, <2>2 DEF Room, Closed
    <3>2. Room(b) \in stored /\ \E c \in cleaning : c.of = b /\ c.by = <<"room", Room(b)>>
      BY <2>2, <3>1 DEF ClientInv, SlotInv
    <3>3. Room(b) # r
      BY <1>1, <3>2 DEF Busy
    <3> QED BY <1>2, <3>1, <3>2, <3>3
  <2>3. stored' \subseteq slots'
    BY <1>2 DEF ClientInv, SlotInv
  <2> QED BY <2>1, <2>2, <2>3 DEF SlotInv
<1>10. NameInv'
  <2> SUFFICES ASSUME NEW b \in Attempts, Claimed(att'[b]), Current(b)' PROVE NameOK(b)'
    BY DEF NameInv, NameOK
  <2>1. att'[b] = att[b] /\ Room(b)' = Room(b) /\ Current(b)
    BY <1>2 DEF Room, Current, Closed
  <2>2. NameOK(b) /\ Claimed(att[b])
    BY <2>1 DEF ClientInv, NameInv
  <2>3. ASSUME ~att[b].displaced
        PROVE  channels'[Room(b)] = b /\ (Underway(Room(b))' => FirstChange(Room(b))'.att = b)
    <3>1. channels[Room(b)] = b /\ (Underway(Room(b)) => FirstChange(Room(b)).att = b)
      BY <2>1, <2>2, <2>3 DEF NameOK
    <3>2. Room(b) \in Rooms
      BY <2>2, AttemptFacts, ClientTypes DEF ShapeOf, Claimed, Unused, Room, ClientInv
    <3>3. PICK q \in Rooms : q = Room(b) /\ q = Room(b)'
      BY <2>1, <3>2
    <3>4. q # r
      BY <1>1, <3>1, <3>3, ClientTypes DEF Underway, ClientInv
    <3> QED BY <1>4, <1>5, <3>1, <3>3, <3>4 DEF Underway, FirstChange
  <2> QED BY <2>1, <2>2, <2>3 DEF NameOK
<1> QED BY <1>2, <1>3, <1>4, <1>6, <1>7, <1>8, <1>9, <1>10, RoomStep

-----------------------------------------------------------------------------
(* Joins                                                                    *)

\* A join moves and no attempt does.
LEMMA JoinMoves ==
    ASSUME ClientInv, NEW l \in Links, NEW j \in JoinStates, joining' = [joining EXCEPT ![l] = j],
           joining[l].pc # "request", j.pc # "request",
           j.pc \in {"idle", "turn", "cancel"} <=> j.att = None,
           j.pc = "register" => att[j.att].pc = "unused" /\ attempts[l] = None,
           j.att # None => \A k \in Links : joining[k].att # j.att,
           j.pc = "cancel" => attempts[l] = None \/
              \E c \in cleaning' : c.by = <<"join", l>> /\ c.of = attempts[l],
           j.pc = "idle" \/ closing \in {"open", "waiting"},
           cleaning' \subseteq Cleanups, Kept, CleanInv',
           UNCHANGED <<att, attempts, channels, stored, slots, queue, disk, closing, leaves,
                       mishaps>>
    PROVE  ClientInv'
<1>1. AllLater /\ AllWait /\ AllCalm /\ AllGain
  BY DEF AllLater, AllWait, AllCalm, AllGain, Later, Awaits, Calm, Gains, ClientInv, ShapeInv
<1>2. /\ joining \in [Links -> JoinStates] /\ joining'[l] = j
      /\ \A k \in Links \ {l} : joining'[k] = joining[k]
  BY ClientTypes DEF ClientInv
<1>3. ClientTypeOK'
  BY <1>2 DEF ClientInv, ClientTypeOK
<1>4. ShapeInv' /\ QueueInv' /\ ChanInv' /\ DiskInv'
  BY <1>1, QueueKept, ChanKept, DiskKept DEF ClientInv, ShapeInv
<1>5. RegInv'
  <2>1. ASSUME NEW a \in Attempts PROVE Registers(a)'
    <3>1. Registers(a)
      BY DEF ClientInv, RegInv
    <3>2. att[a].pc = "request" => att[a].link \in Links /\ att[a].link # l
      BY <3>1, AttemptFacts DEF Registers, ShapeOf
    <3> QED BY <1>2, <3>1, <3>2 DEF Registers
  <2> QED BY <2>1 DEF ClientInv, RegInv
<1>6. JoinInv'
  <2> SUFFICES ASSUME NEW k \in Links PROVE JoinOK(k, joining[k])'
    BY DEF JoinInv
  <2>1. CASE k = l
    <3>1. j.pc = "register" => \A m \in Links \ {l} : joining'[m].att # j.att
      BY <1>2, ClientTypes DEF ClientInv
    <3> QED BY <1>2, <2>1, <3>1 DEF JoinOK
  <2>2. CASE k # l
    <3>1. JoinOK(k, joining[k]) /\ joining'[k] = joining[k]
      BY <1>2, <2>2 DEF ClientInv, JoinInv
    <3>2. joining[k].pc = "register" => \A m \in Links \ {k} : joining'[m].att # joining[k].att
      <4> SUFFICES ASSUME joining[k].pc = "register", NEW m \in Links \ {k}
                   PROVE  joining'[m].att # joining[k].att
        OBVIOUS
      <4>1. joining[k].att # None /\ (m # l => joining[m].att # joining[k].att)
        BY <3>1 DEF JoinOK
      <4> QED BY <1>2, <4>1
    <3> QED BY <3>1, <3>2 DEF JoinOK, Kept
  <2> QED BY <2>1, <2>2
<1>7. CloseInv'
  <2>1. closing \in {"attempts", "done", "failed"} => \A k \in Links : joining'[k].pc = "idle"
    BY <1>2 DEF ClientInv, CloseInv
  <2> QED BY <2>1 DEF ClientInv, CloseInv, Kept
<1>8. SlotInv'
  <2>1. \A r \in Rooms : Claiming(r)' <=> Claiming(r)
    BY <1>1, ClaimingKept DEF ClientInv, Underway, FirstChange
  <2>2. (Closed <=> Closed') /\ stored \subseteq slots'
    BY DEF Closed, ClientInv, SlotInv
  <2> QED BY <1>1, <2>1, <2>2, SlotKept DEF ClientInv
<1>9. NameInv'
  <2>1. SameFront
    BY DEF SameFront, Underway, FirstChange
  <2>2. \A a \in Attempts : Current(a)' => Current(a)
    BY DEF Current, Closed
  <2> QED BY <1>1, <2>1, <2>2, NameKept DEF AllGain, ClientInv
<1> QED BY <1>3, <1>4, <1>5, <1>6, <1>7, <1>8, <1>9 DEF ClientInv

\* The attempt of a join begins or ends, and the others go on as they are.
LEMMA Elsewhere ==
    ASSUME ClientInv, NEW a \in Attempts, att[a].pc \in {"unused", "request"},
           att' \in [Attempts -> AttemptStates],
           ShapeOf(att'[a]), att'[a].pc # "claim",
           \A b \in Attempts \ {a} :
              /\ Later(att[b], att'[b]) /\ ShapeOf(att'[b]) /\ Quiet(att[b], att'[b])
              /\ att'[b].aborted = att[b].aborted
              /\ att[b].pc # "unused" => (attempts'[att[b].link] = b <=> attempts[att[b].link] = b),
           att[a].pc = "request" => att'[a].aborted = att[a].aborted,
           att'[a].session = "none",
           \A c \in cleaning : c.of = a =>
              att'[a].pc # "unused" /\ (c.by[1] \notin Outer => att'[a].pc = "ended"),
           UNCHANGED <<queue, stored, slots, cleaning, closing>>,
           \A r \in Rooms : disk'[r].session \in {None, disk[r].session}
    PROVE  /\ ShapeInv' /\ QueueInv' /\ CleanInv' /\ SlotInv' /\ DiskInv'
           /\ \A b \in Attempts \ {a} : att[b].pc # "unused" => (Current(b)' <=> Current(b))
<1>1. \A b \in Attempts \ {a} : att[b].pc # "unused" => (Current(b)' <=> Current(b))
  BY DEF Current, Closed, Later
<1>2. ShapeInv'
  BY DEF ShapeInv
<1>3. QueueInv'
  <2> SUFFICES ASSUME NEW q \in Rooms, NEW i \in 1..Len(queue[q])
               PROVE  EntryOK(q, i, queue[q][i])'
    BY DEF QueueInv
  <2>1. PICK f : f = queue[q][i] /\ f = queue'[q][i]
    OBVIOUS
  <2>2. (i > 1 => ~f.begun) /\ (f.kind = "leave" => f.att = None)
    BY <2>1, EntryFacts DEF ClientInv
  <2>3. ASSUME f.kind = "claim"
        PROVE  /\ f.att # None /\ InRoom(f.att, q)' /\ WaitsForClaim(f.att)'
               /\ \A j \in 1..Len(queue'[q]) : queue'[q][j].att = f.att => i = j
    <3>1. PICK b \in Attempts : /\ b = f.att /\ InRoom(b, q) /\ WaitsForClaim(b)
                                /\ \A j \in 1..Len(queue[q]) : queue[q][j].att = b => i = j
      BY <2>1, <2>3, EntryFacts DEF ClientInv
    <3>2. b # a
      BY <3>1 DEF WaitsForClaim
    <3>3. InRoom(b, q)' /\ WaitsForClaim(b)'
      BY <3>1, <3>2, WaitKept DEF Quiet
    <3> QED BY <3>1, <3>3, ClientTypes DEF ClientInv
  <2> QED BY <2>1, <2>2, <2>3, EntryAfter
<1>4. CleanInv'
  <2> SUFFICES ASSUME NEW c \in cleaning PROVE CleanOK(c)'
    BY DEF CleanInv
  <2>1. CleanOK(c) /\ c.of \in Attempts
    BY ClientTypes DEF ClientInv, CleanInv
  <2>2. CASE c.of = a
    <3>1. att[a].pc = "request"
      BY <2>1, <2>2 DEF CleanOK
    <3>2. att'[a].pc # "unused" /\ (c.by[1] \notin Outer => att'[a].pc = "ended")
          /\ att'[a].aborted = att[a].aborted
      BY <2>2, <3>1
    <3> QED BY <2>1, <2>2, <3>1, <3>2 DEF CleanOK
  <2>3. CASE c.of # a
    BY <2>1, <2>3 DEF CleanOK, Later
  <2> QED BY <2>2, <2>3
<1>5. SlotInv'
  <2>1. ASSUME NEW r \in Rooms PROVE Claiming(r)' <=> Claiming(r)
    <3>1. CASE Underway(r) /\ FirstChange(r).kind = "claim"
      <4>1. PICK b \in Attempts : b = FirstChange(r).att /\ WaitsForClaim(b)
        BY <3>1, FirstFacts DEF ClientInv, Underway
      <4>2. b # a /\ att[b].pc # "unused"
        BY <4>1 DEF WaitsForClaim
      <4>3. Claiming(r) <=> Current(b)
        BY <3>1, <4>1 DEF Claiming
      <4>4. Claiming(r)' <=> Current(b)'
        BY <3>1, <4>1 DEF Claiming, Underway, FirstChange, Current
      <4> QED BY <1>1, <4>2, <4>3, <4>4
    <3>2. CASE ~(Underway(r) /\ FirstChange(r).kind = "claim")
      BY <3>2 DEF Claiming, Underway, FirstChange
    <3> QED BY <3>1, <3>2
  <2>2. ASSUME ~Closed', NEW b \in Attempts, att'[b].pc = "claim", att'[b].aborted
        PROVE  /\ Room(b)' \in stored'
               /\ \E c \in cleaning' : c.of = b /\ c.by = <<"room", Room(b)'>>
    <3>1. b # a /\ att[b].pc = "claim" /\ att[b].aborted /\ Room(b)' = Room(b) /\ ~Closed
      BY <2>2 DEF Quiet, Calm, Later, Room, Closed
    <3>2. Room(b) \in stored /\ \E c \in cleaning : c.of = b /\ c.by = <<"room", Room(b)>>
      BY <3>1 DEF ClientInv, SlotInv
    <3> QED BY <3>1, <3>2
  <2>3. ASSUME ~Closed', NEW r \in Rooms
        PROVE  (Claiming(r)' => r \in slots') /\ (r \in slots' => r \in stored' \/ Claiming(r)')
    <3>1. ~Closed
      BY <2>3 DEF Closed
    <3>2. (Claiming(r) => r \in slots) /\ (r \in slots => r \in stored \/ Claiming(r))
      BY <3>1 DEF ClientInv, SlotInv
    <3> QED BY <2>1, <3>2
  <2>4. stored' \subseteq slots'
    BY DEF ClientInv, SlotInv
  <2> QED BY <2>2, <2>3, <2>4 DEF SlotInv
<1>6. DiskInv'
  <2> SUFFICES ASSUME NEW q \in Rooms, disk'[q].session # None
               PROVE  DiskOK(q, disk[q].session)'
    BY DEF DiskInv
  <2>1. PICK b \in Attempts : disk'[q].session = b /\ disk[q].session = b
    BY ClientTypes DEF ClientInv
  <2>2. DiskOK(q, b)
    BY <2>1, ClientTypes DEF ClientInv, DiskInv
  <2>3. b # a
    BY <2>2 DEF DiskOK
  <2>4. Later(att[b], att'[b]) /\ attempts'[att[b].link] = b
    BY <2>2, <2>3 DEF DiskOK
  <2>5. DiskOK(q, b)'
    BY <2>2, <2>4 DEF DiskOK, Later, InRoom, Room
  <2> QED BY <2>1, <2>5 DEF DiskOK, InRoom, Room
<1> QED BY <1>1, <1>2, <1>3, <1>4, <1>5, <1>6

\* An attempt is registered for its link.
LEMMA RegisteredStep ==
    ASSUME ClientInv, NEW l \in Links, NEW a \in Attempts, NEW restore \in BOOLEAN,
           NEW pc \in {"request", "ended"}, Registered(l, a, restore, pc),
           att[a].pc = "unused", attempts[l] = None, joining[l].pc # "request",
           \A k \in Links \ {l} : joining[k].att # a,
           NEW j \in JoinStates, joining' = [joining EXCEPT ![l] = j],
           pc = "request" => j.pc = "request" /\ j.att = a,
           pc = "ended" => j = Resting,
           restore /\ pc = "request" => RoomOf[l] \in stored,
           closing \in {"open", "waiting"},
           UNCHANGED <<stored, slots, queue, cleaning, disk, closing, leaves, mishaps>>
    PROVE  ClientInv'
<1>1. /\ joining \in [Links -> JoinStates] /\ joining'[l] = j
      /\ \A k \in Links \ {l} : joining'[k] = joining[k]
      /\ attempts \in [Links -> Attempts \cup {None}] /\ attempts' = [attempts EXCEPT ![l] = a]
      /\ attempts'[l] = a /\ \A k \in Links \ {l} : attempts'[k] = attempts[k]
      /\ channels \in [Rooms -> Attempts \cup {None}]
      /\ RoomOf[l] \in Rooms /\ None \notin Attempts
  BY ClientTypes DEF ClientInv, Registered
<1>2. PICK new \in AttemptStates :
         /\ new = [Unused EXCEPT !.pc = pc, !.link = l, !.files = restore]
         /\ new.pc = pc /\ new.link = l /\ new.session = "none" /\ new.claim = "none"
         /\ ~new.opening
  <2> DEFINE new == [Unused EXCEPT !.pc = pc, !.link = l, !.files = restore]
  <2>1. new \in AttemptStates
    BY DEF Unused, AttemptStates, Steps
  <2>2. new.pc = pc /\ new.link = l /\ new.session = "none" /\ new.claim = "none" /\ ~new.opening
    BY DEF Unused
  <2> QED BY <2>1, <2>2
<1>3. /\ att' \in [Attempts -> AttemptStates] /\ att'[a] = new
      /\ \A b \in Attempts \ {a} :
            att'[b] = IF restore /\ channels[RoomOf[l]] = b /\ Current(b)
                      THEN [att[b] EXCEPT !.displaced = TRUE] ELSE att[b]
  <2>1. ASSUME NEW b \in Attempts
        PROVE  /\ att[b] \in AttemptStates
               /\ [att[b] EXCEPT !.displaced = TRUE] \in AttemptStates
    BY AttemptFacts DEF AttemptStates
  <2> QED BY <1>2, <2>1 DEF Registered
<1>4. ASSUME NEW b \in Attempts \ {a}
      PROVE  /\ att'[b].pc = att[b].pc /\ att'[b].link = att[b].link
             /\ att'[b].aborted = att[b].aborted /\ att'[b].claim = att[b].claim
             /\ att'[b].session = att[b].session /\ att'[b].files = att[b].files
             /\ att'[b].opening = att[b].opening
             /\ att[b].displaced => att'[b].displaced
             /\ restore /\ channels[RoomOf[l]] = b /\ Current(b) => att'[b].displaced
             /\ att[b].pc = "unused" => att'[b] = att[b]
  <2>1. att[b] \in AttemptStates
    BY AttemptFacts
  <2>2. CASE restore /\ channels[RoomOf[l]] = b /\ Current(b)
    <3>1. att'[b] = [att[b] EXCEPT !.displaced = TRUE]
      BY <1>3, <2>2
    <3>2. att[b].pc # "unused"
      BY <1>1, <2>2 DEF ClientInv, ChanInv, ChanOK
    <3> QED BY <2>1, <3>1, <3>2 DEF AttemptStates
  <2>3. CASE ~(restore /\ channels[RoomOf[l]] = b /\ Current(b))
    BY <1>3, <2>3
  <2> QED BY <2>2, <2>3
<1>5. ASSUME NEW b \in Attempts \ {a}
      PROVE  /\ Later(att[b], att'[b]) /\ ShapeOf(att'[b]) /\ Quiet(att[b], att'[b])
             /\ att'[b].aborted = att[b].aborted
             /\ att[b].pc # "unused" => (attempts'[att[b].link] = b <=> attempts[att[b].link] = b)
  <2>1. ShapeOf(att[b])
    BY AttemptFacts
  <2>2. ShapeOf(att'[b])
    BY <1>4, <2>1 DEF ShapeOf
  <2>3. Later(att[b], att'[b]) /\ Quiet(att[b], att'[b])
    BY <1>4 DEF Later, Quiet, Awaits, Calm, Gains, Claimed
  <2>4. att[b].pc # "unused" => (attempts'[att[b].link] = b <=> attempts[att[b].link] = b)
    <3> SUFFICES ASSUME att[b].pc # "unused"
                 PROVE  attempts'[att[b].link] = b <=> attempts[att[b].link] = b
      OBVIOUS
    <3>3. att[b].link \in Links
      BY AttemptFacts DEF ShapeOf
    <3>1. CASE att[b].link = l
      BY <1>1, <3>1
    <3>2. CASE att[b].link # l
      BY <1>1, <3>2, <3>3
    <3> QED BY <3>1, <3>2
  <2> QED BY <1>4, <2>2, <2>3, <2>4
<1>6. ShapeOf(att'[a]) /\ att'[a].pc # "claim" /\ att'[a].session = "none"
  BY <1>2, <1>3 DEF ShapeOf
<1>7. \A c \in cleaning : c.of # a
  BY DEF ClientInv, CleanInv, CleanOK
<1>8. \A r \in Rooms : disk'[r].session \in {None, disk[r].session}
  OBVIOUS
<1>9. /\ ShapeInv' /\ QueueInv' /\ CleanInv' /\ SlotInv' /\ DiskInv'
      /\ \A b \in Attempts \ {a} : att[b].pc # "unused" => (Current(b)' <=> Current(b))
  BY <1>3, <1>5, <1>6, <1>7, <1>8, Elsewhere
<1>10. ClientTypeOK'
  <2>1. attempts' \in [Links -> Attempts \cup {None}] /\ joining' \in [Links -> JoinStates]
    BY <1>1
  <2>2. channels' \in [Rooms -> Attempts \cup {None}]
    BY <1>1 DEF Registered
  <2> QED BY <1>3, <2>1, <2>2 DEF ClientInv, ClientTypeOK
<1>11. RegInv'
  <2>1. ASSUME NEW k \in Links, attempts'[k] # None
        PROVE  att'[attempts'[k]].link = k /\ att'[attempts'[k]].pc # "unused"
    <3>1. CASE k = l
      BY <1>1, <1>2, <1>3, <3>1
    <3>2. CASE k # l
      <4>1. attempts'[k] = attempts[k] /\ att[attempts[k]].link = k
            /\ att[attempts[k]].pc # "unused"
        BY <1>1, <2>1, <3>2 DEF ClientInv, RegInv
      <4>2. attempts[k] \in Attempts \ {a}
        BY <1>1, <2>1, <4>1
      <4> QED BY <1>4, <4>1, <4>2
    <3> QED BY <3>1, <3>2
  <2>2. ASSUME NEW b \in Attempts PROVE Registers(b)'
    <3>1. CASE b = a
      <4>1. att'[a].pc = pc /\ att'[a].link = l /\ att'[a].session = "none"
        BY <1>2, <1>3
      <4>2. pc = "request" => joining'[l].pc = "request" /\ joining'[l].att = a
        BY <1>1
      <4> QED BY <3>1, <4>1, <4>2 DEF Registers
    <3>2. CASE b # a
      <4>1. Registers(b) /\ ShapeOf(att[b])
        BY AttemptFacts
      <4>2. att[b].pc = "request" => att[b].link \in Links \ {l}
        BY <4>1 DEF Registers, ShapeOf
      <4> QED BY <1>1, <1>4, <1>5, <3>2, <4>1, <4>2 DEF Registers
    <3> QED BY <3>1, <3>2
  <2> QED BY <2>1, <2>2 DEF RegInv
<1>12. JoinInv'
  <2> SUFFICES ASSUME NEW k \in Links PROVE JoinOK(k, joining[k])'
    BY DEF JoinInv
  <2>1. CASE k = l
    <3>1. CASE pc = "request"
      <4>1. att'[a].pc = pc /\ att'[a].link = l
        BY <1>2, <1>3
      <4>2. joining'[l].pc = "request" /\ joining'[l].att = a /\ attempts'[l] = a
        BY <1>1, <3>1
      <4> QED BY <1>1, <2>1, <3>1, <4>1, <4>2 DEF JoinOK
    <3>2. CASE pc = "ended"
      BY <1>1, <2>1, <3>2 DEF JoinOK, Resting
    <3> QED BY <3>1, <3>2
  <2>2. CASE k # l
    <3>1. /\ JoinOK(k, joining[k]) /\ joining'[k] = joining[k] /\ attempts'[k] = attempts[k]
          /\ joining[k].att \in Attempts \cup {None} /\ joining[k].att # a
      BY <1>1, <2>2, ClientTypes DEF ClientInv, JoinInv
    <3>2. joining[k].att # None => /\ joining[k].att \in Attempts \ {a}
                                   /\ att'[joining[k].att].pc = att[joining[k].att].pc
                                   /\ att'[joining[k].att].link = att[joining[k].att].link
                                   /\ att'[joining[k].att].aborted = att[joining[k].att].aborted
      BY <1>4, <3>1
    <3>3. joining[k].pc \in {"register", "request"} => joining[k].att # None
      BY <3>1 DEF JoinOK
    <3>4. joining[k].pc = "register" => \A m \in Links \ {k} : joining'[m].att # joining[k].att
      <4> SUFFICES ASSUME joining[k].pc = "register", NEW m \in Links \ {k}
                   PROVE  joining'[m].att # joining[k].att
        OBVIOUS
      <4>1. joining[k].att # None /\ joining[m].att # joining[k].att
        BY <3>1, <3>3 DEF JoinOK
      <4>2. j.att \in {a, None}
        BY DEF Resting
      <4> QED BY <1>1, <3>1, <4>1, <4>2
    <3> QED BY <3>1, <3>2, <3>3, <3>4 DEF JoinOK
  <2> QED BY <2>1, <2>2
<1>13. ChanInv'
  <2> SUFFICES ASSUME NEW q \in Rooms, channels'[q] # None PROVE ChanOK(q, channels[q])'
    BY DEF ChanInv
  <2>1. CASE restore /\ q = RoomOf[l]
    <3>1. channels'[q] = a
      BY <1>1, <2>1 DEF Registered
    <3> QED BY <1>2, <1>3, <2>1, <3>1 DEF ChanOK, InRoom, Room
  <2>2. CASE ~(restore /\ q = RoomOf[l])
    <3>1. channels'[q] = channels[q]
      BY <1>1, <2>2 DEF Registered
    <3>2. PICK b \in Attempts : b = channels[q] /\ b = channels'[q] /\ ChanOK(q, b)
      BY <1>1, <3>1 DEF ClientInv, ChanInv
    <3>3. b # a
      BY <3>2 DEF ChanOK
    <3> QED BY <1>4, <3>2, <3>3 DEF ChanOK, InRoom, Room
  <2> QED BY <2>1, <2>2
<1>14. CloseInv'
  BY DEF CloseInv
<1>15. NameInv'
  <2> SUFFICES ASSUME NEW b \in Attempts, Claimed(att'[b]), Current(b)' PROVE NameOK(b)'
    BY DEF NameInv, NameOK
  <2>1. b # a
    BY <1>2, <1>3 DEF Claimed
  <2>2. /\ Claimed(att[b]) /\ Current(b) /\ Room(b)' = Room(b) /\ NameOK(b)
        /\ att'[b].files = att[b].files
        /\ att[b].displaced => att'[b].displaced
    <3>1. att[b].pc # "unused"
      BY <1>4, <1>5, <2>1, AttemptFacts DEF Claimed, ShapeOf, Unused
    <3> QED BY <1>4, <1>9, <2>1, <3>1 DEF Claimed, Room, ClientInv, NameInv
  <2>3. ASSUME ~att'[b].displaced
        PROVE  channels'[Room(b)] = b /\ (Underway(Room(b))' => FirstChange(Room(b))'.att = b)
    <3>1. channels[Room(b)] = b /\ (Underway(Room(b)) => FirstChange(Room(b)).att = b)
      BY <2>2, <2>3 DEF NameOK
    <3>2. Room(b) \in Rooms
      BY <2>2, AttemptFacts, ClientTypes DEF ShapeOf, Claimed, Unused, Room, ClientInv
    <3>3. PICK q \in Rooms : q = Room(b) /\ q = Room(b)'
      BY <2>2, <3>2
    <3>4. channels'[q] = channels[q]
      BY <1>1, <1>4, <2>1, <2>2, <2>3, <3>1, <3>3 DEF Registered
    <3> QED BY <3>1, <3>3, <3>4 DEF Underway, FirstChange
  <2> QED BY <2>1, <2>2, <2>3 DEF NameOK
<1> QED BY <1>9, <1>10, <1>11, <1>12, <1>13, <1>14, <1>15 DEF ClientInv

\* The request of a join is answered: its task begins, or ends and the link is given up.
LEMMA RequestAnswered ==
    ASSUME ClientInv, NEW l \in Links, joining[l].pc = "request", Returns(l),
           NEW a \in Attempts, a = joining[l].att, NEW y \in AttemptStates,
           att' = [att EXCEPT ![a] = y], y.pc \in {"poll", "ended"}, ShapeOf(y),
           y.session = "none", y.claim = "none",
           y.link = att[a].link, y.aborted = att[a].aborted,
           y.pc = "poll" => ~y.aborted /\ attempts' = attempts,
           attempts' = attempts \/ attempts' = [attempts EXCEPT ![l] = None],
           disk' \in [Rooms -> [session : Attempts \cup {None}, resume : Links \cup {None}]],
           \A r \in Rooms : disk'[r].session \in {None, disk[r].session},
           mishaps' \in 0..MaxMishaps,
           UNCHANGED <<channels, stored, slots, queue, cleaning, closing, leaves>>
    PROVE  ClientInv'
<1>1. /\ joining \in [Links -> JoinStates] /\ joining' \in [Links -> JoinStates]
      /\ joining'[l] = Resting
      /\ \A k \in Links \ {l} : joining'[k] = joining[k]
      /\ attempts \in [Links -> Attempts \cup {None}]
      /\ attempts' \in [Links -> Attempts \cup {None}]
      /\ \A k \in Links \ {l} : attempts'[k] = attempts[k]
      /\ attempts'[l] \in {attempts[l], None}
      /\ channels \in [Rooms -> Attempts \cup {None}] /\ None \notin Attempts
  <2>1. Resting \in JoinStates
    BY DEF Resting, JoinStates
  <2> QED BY <2>1, ClientTypes DEF ClientInv, Returns
<1>2. /\ att[a].pc = "request" /\ att[a].link = l
      /\ attempts[l] = a \/ (attempts[l] = None /\ att[a].aborted)
  BY DEF ClientInv, JoinInv, JoinOK
<1>3. /\ att' \in [Attempts -> AttemptStates] /\ att'[a] = y
      /\ \A b \in Attempts \ {a} : att'[b] = att[b]
  BY ClientTypes DEF ClientInv
<1>4. ASSUME NEW b \in Attempts \ {a}
      PROVE  /\ Later(att[b], att'[b]) /\ ShapeOf(att'[b]) /\ Quiet(att[b], att'[b])
             /\ att'[b].aborted = att[b].aborted
             /\ att[b].pc # "unused" => (attempts'[att[b].link] = b <=> attempts[att[b].link] = b)
  <2>1. att[b].pc # "unused" => (attempts'[att[b].link] = b <=> attempts[att[b].link] = b)
    <3> SUFFICES ASSUME att[b].pc # "unused"
                 PROVE  attempts'[att[b].link] = b <=> attempts[att[b].link] = b
      OBVIOUS
    <3>3. att[b].link \in Links
      BY AttemptFacts DEF ShapeOf
    <3>1. CASE att[b].link = l
      BY <1>1, <1>2, <3>1
    <3>2. CASE att[b].link # l
      BY <1>1, <3>2, <3>3
    <3> QED BY <3>1, <3>2
  <2>2. ShapeOf(att[b])
    BY AttemptFacts
  <2> QED BY <1>3, <2>1, <2>2 DEF Later, Quiet, Awaits, Calm, Gains
<1>5. \A c \in cleaning : c.of = a => (c.by[1] \notin Outer => y.pc = "ended")
  BY DEF ClientInv, CleanInv, CleanOK
<1>6. /\ ShapeInv' /\ QueueInv' /\ CleanInv' /\ SlotInv' /\ DiskInv'
      /\ \A b \in Attempts \ {a} : att[b].pc # "unused" => (Current(b)' <=> Current(b))
  BY <1>2, <1>3, <1>4, <1>5, Elsewhere
<1>7. ClientTypeOK'
  BY <1>1, <1>3 DEF ClientInv, ClientTypeOK
<1>8. RegInv'
  <2>1. ASSUME NEW k \in Links, attempts'[k] # None
        PROVE  att'[attempts'[k]].link = k /\ att'[attempts'[k]].pc # "unused"
    <3>1. attempts'[k] = attempts[k] /\ att[attempts[k]].link = k /\ att[attempts[k]].pc # "unused"
      BY <1>1, <2>1 DEF ClientInv, RegInv
    <3> QED BY <1>1, <1>3, <2>1, <3>1
  <2>2. ASSUME NEW b \in Attempts PROVE Registers(b)'
    <3>1. CASE b = a
      BY <1>1, <1>2, <1>3, <3>1 DEF Registers
    <3>2. CASE b # a
      <4>1. Registers(b) /\ ShapeOf(att[b])
        BY AttemptFacts
      <4>2. att[b].pc = "request" => att[b].link \in Links \ {l}
        BY <3>2, <4>1 DEF Registers, ShapeOf
      <4>3. att[b].pc = "unused" => att[b].session = "none"
        BY <4>1 DEF ShapeOf, Unused
      <4> QED BY <1>1, <1>3, <1>4, <3>2, <4>1, <4>2, <4>3 DEF Registers
    <3> QED BY <3>1, <3>2
  <2> QED BY <2>1, <2>2 DEF RegInv
<1>9. JoinInv'
  <2> SUFFICES ASSUME NEW k \in Links PROVE JoinOK(k, joining[k])'
    BY DEF JoinInv
  <2>1. CASE k = l
    BY <1>1, <2>1 DEF JoinOK, Resting
  <2>2. CASE k # l
    <3>1. /\ JoinOK(k, joining[k]) /\ joining'[k] = joining[k] /\ attempts'[k] = attempts[k]
          /\ joining[k].att \in Attempts \cup {None}
      BY <1>1, <2>2, ClientTypes DEF ClientInv, JoinInv
    <3>2. joining[k].pc \in {"register", "request"} =>
             joining[k].att \in Attempts \ {a}
      BY <1>2, <2>2, <3>1 DEF JoinOK
    <3>3. joining[k].pc = "register" => \A m \in Links \ {k} : joining'[m].att # joining[k].att
      <4> SUFFICES ASSUME joining[k].pc = "register", NEW m \in Links \ {k}
                   PROVE  joining'[m].att # joining[k].att
        OBVIOUS
      <4>1. joining[k].att # None /\ joining[m].att # joining[k].att
        BY <1>1, <3>1, <3>2 DEF JoinOK
      <4> QED BY <1>1, <4>1 DEF Resting
    <3> QED BY <1>3, <3>1, <3>2, <3>3 DEF JoinOK
  <2> QED BY <2>1, <2>2
<1>10. ChanInv'
  <2> SUFFICES ASSUME NEW q \in Rooms, channels[q] # None PROVE ChanOK(q, channels[q])'
    BY DEF ChanInv
  <2>1. PICK b \in Attempts : b = channels[q] /\ b = channels'[q] /\ ChanOK(q, b)
    BY <1>1 DEF ClientInv, ChanInv
  <2> QED BY <1>2, <1>3, <2>1 DEF ChanOK, InRoom, Room
<1>11. CloseInv'
  <2>1. closing \notin {"attempts", "done", "failed"}
    BY DEF ClientInv, CloseInv
  <2> QED BY <2>1 DEF CloseInv
<1>12. NameInv'
  <2> SUFFICES ASSUME NEW b \in Attempts, Claimed(att'[b]), Current(b)' PROVE NameOK(b)'
    BY DEF NameInv, NameOK
  <2>1. b # a
    BY <1>3 DEF Claimed
  <2>2. att'[b] = att[b] /\ Current(b) /\ Room(b)' = Room(b) /\ NameOK(b)
    <3>1. att'[b] = att[b] /\ att[b].pc # "unused"
      BY <1>3, <2>1, AttemptFacts DEF Claimed, ShapeOf, Unused
    <3> QED BY <1>6, <2>1, <3>1 DEF Room, ClientInv, NameInv
  <2> QED BY <2>2 DEF NameOK, Underway, FirstChange
<1> QED BY <1>6, <1>7, <1>8, <1>9, <1>10, <1>11, <1>12 DEF ClientInv

LEMMA RestingTyped == Resting \in JoinStates /\ Resting.pc = "idle" /\ Resting.att = None
BY DEF Resting, JoinStates

\* A call on a link returns.
LEMMA ReturnsSafe ==
    ASSUME ClientInv, NEW l \in Links, joining[l].pc # "request", Returns(l),
           UNCHANGED <<att, attempts, channels, stored, slots, queue, cleaning, disk, closing,
                       leaves, mishaps>>
    PROVE  ClientInv'
<1>1. AllLater
  BY DEF AllLater, Later, ClientInv, ShapeInv
<1>2. Kept /\ CleanInv' /\ cleaning' \subseteq Cleanups
  BY <1>1, CleanKept DEF ClientInv, ClientTypeOK, Kept
<1> QED BY <1>2, RestingTyped, JoinMoves DEF Returns

LEMMA CreatesSafe ==
    ASSUME ClientInv, NEW l \in Links, NEW restore \in BOOLEAN, Creates(l, restore),
           joining[l].pc # "request", attempts[l] = None, ~Closed,
           UNCHANGED <<stored, slots, queue, cleaning, disk, closing, leaves, mishaps>>
    PROVE  ClientInv'
<1>1. PICK a \in Attempts :
         /\ Free(a)
         /\ joining' = [joining EXCEPT ![l] = [pc |-> IF restore THEN "register" ELSE "request",
                                               restore |-> restore, att |-> a]]
         /\ IF restore THEN UNCHANGED <<att, attempts, channels>>
            ELSE Registered(l, a, FALSE, "request")
  BY DEF Creates
<1>2. att[a].pc = "unused" /\ (\A k \in Links : joining[k].att # a) /\ a # None
      /\ closing = "open"
  BY <1>1, ClientTypes DEF Free, Closed, ClientInv
<1>3. CASE restore
  <2>1. PICK j \in JoinStates : j = [pc |-> "register", restore |-> restore, att |-> a]
    BY DEF JoinStates
  <2>2. joining' = [joining EXCEPT ![l] = j] /\ UNCHANGED <<att, attempts, channels>>
    BY <1>1, <1>3, <2>1
  <2>3. AllLater
    BY <2>2 DEF AllLater, Later, ClientInv, ShapeInv
  <2>4. Kept /\ CleanInv' /\ cleaning' \subseteq Cleanups
    BY <2>3, CleanKept DEF ClientInv, ClientTypeOK, Kept
  <2>5. j.pc = "register" /\ j.att = a
    BY <2>1
  <2> QED BY <1>2, <2>2, <2>4, <2>5, JoinMoves
<1>4. CASE ~restore
  <2>1. PICK j \in JoinStates : j = [pc |-> "request", restore |-> restore, att |-> a]
    BY DEF JoinStates
  <2>2. joining' = [joining EXCEPT ![l] = j] /\ Registered(l, a, FALSE, "request")
    BY <1>1, <1>4, <2>1
  <2>3. j.pc = "request" /\ j.att = a
    BY <2>1
  <2> QED BY <1>2, <2>2, <2>3, RegisteredStep
<1> QED BY <1>3, <1>4

LEMMA TurnSafe ==
    ASSUME ClientInv, NEW l \in Links, NEW restore \in BOOLEAN, Turn(l, restore),
           joining[l].pc # "request",
           UNCHANGED <<stored, slots, queue, disk, closing, leaves, mishaps>>
    PROVE  ClientInv'
<1>1. CASE Returns(l) /\ UNCHANGED <<att, attempts, channels, cleaning>>
  BY <1>1, ReturnsSafe
<1>2. CASE /\ ~Closed /\ attempts[l] # None /\ ~Current(attempts[l])
           /\ joining' = [joining EXCEPT ![l] = [pc |-> "cancel", restore |-> restore,
                                                 att |-> None]]
           /\ Cancels({Cancel(<<"join", l>>, attempts[l])})
           /\ UNCHANGED <<attempts, channels>>
  <2>1. PICK a \in Attempts : a = attempts[l]
    BY <1>2, ClientTypes DEF ClientInv
  <2>2. att[a].link = l /\ att[a].pc # "unused" /\ att[a].aborted
    BY <1>2, <2>1 DEF ClientInv, RegInv, Current
  <2>3. PICK c \in Cleanups : /\ c = Cancel(<<"join", l>>, a) /\ c.by = <<"join", l>> /\ c.of = a
                              /\ c.step = "task"
    <3>1. <<"join", l>> \in Cleaners
      BY DEF Cleaners
    <3> QED BY <3>1, CleanupTyped
  <2>4. Cancels({c})
    BY <1>2, <2>1, <2>3
  <2>5. cleaning' = cleaning \cup {c} /\ att' = Aborted({a})
    <3>1. {d.of : d \in {c}} = {a}
      BY <2>3
    <3> QED BY <2>4, <3>1 DEF Cancels
  <2>6. att' = att
    <3>1. [att[a] EXCEPT !.aborted = TRUE] = att[a]
      BY <2>2, AttemptFacts DEF AttemptStates
    <3>2. \A b \in Attempts : (IF b \in {a} THEN [att[b] EXCEPT !.aborted = TRUE] ELSE att[b]) = att[b]
      BY <3>1
    <3>3. att' = [b \in Attempts |-> att[b]]
      BY <2>5, <3>2 DEF Aborted
    <3> QED BY <3>3, ClientTypes DEF ClientInv
  <2>7. AllLater
    BY <2>6 DEF AllLater, Later, ClientInv, ShapeInv
  <2>8. CleanOK(c)'
    BY <2>2, <2>3, <2>6 DEF CleanOK
  <2>9. Kept /\ CleanInv' /\ cleaning' \subseteq Cleanups
    <3>1. \A d \in cleaning' : d \in cleaning \/ d = c
      BY <2>5
    <3>2. CleanInv'
      BY <2>7, <2>8, <3>1, CleanKept DEF ClientInv
    <3> QED BY <2>5, <3>2 DEF ClientInv, ClientTypeOK, Kept
  <2>10. PICK j \in JoinStates : j = [pc |-> "cancel", restore |-> restore, att |-> None]
    BY DEF JoinStates
  <2>11. j.pc = "cancel" /\ j.att = None /\ joining' = [joining EXCEPT ![l] = j]
    BY <1>2, <2>10
  <2>12. \E d \in cleaning' : d.by = <<"join", l>> /\ d.of = attempts[l]
    BY <2>1, <2>3, <2>5
  <2>13. closing \in {"open", "waiting"}
    BY <1>2 DEF Closed
  <2> QED BY <1>2, <2>6, <2>9, <2>11, <2>12, <2>13, JoinMoves
<1>3. CASE ~Closed /\ attempts[l] = None /\ Creates(l, restore) /\ UNCHANGED cleaning
  BY <1>3, CreatesSafe
<1>4. CASE Expired(l) /\ UNCHANGED cleaning
  BY <1>4, ReturnsSafe DEF Expired
<1> QED BY <1>1, <1>2, <1>3, <1>4 DEF Turn

LEMMA RejoinBeginSafe == ASSUME ClientInv, NEW l \in Links, RejoinBegin(l) PROVE ClientInv'
<1>1. PICK j : j = [joining[l] EXCEPT !.pc = "turn"]
  OBVIOUS
<1>2. joining[l] \in JoinStates /\ joining[l].pc = "idle" /\ joining[l].att = None
  BY ClientTypes DEF ClientInv, JoinInv, JoinOK, RejoinBegin
<1>3. j \in JoinStates /\ j.pc = "turn" /\ j.att = None
  BY <1>1, <1>2 DEF JoinStates
<1>4. AllLater
  BY DEF AllLater, Later, ClientInv, ShapeInv, RejoinBegin
<1>5. Kept /\ CleanInv' /\ cleaning' \subseteq Cleanups
  BY <1>4, CleanKept DEF ClientInv, ClientTypeOK, Kept, RejoinBegin
<1>6. joining' = [joining EXCEPT ![l] = j] /\ closing = "open"
  BY <1>1 DEF RejoinBegin, Closed
<1> QED BY <1>2, <1>3, <1>5, <1>6, JoinMoves DEF RejoinBegin

LEMMA JoinCreateSafe == ASSUME ClientInv, NEW l \in Links, JoinCreate(l) PROVE ClientInv'
<1>1. joining[l].pc = "cancel" /\ attempts[l] = None /\ joining[l].restore \in BOOLEAN
  <2>1. joining[l] \in JoinStates /\ joining[l].pc = "cancel" /\ ~Busy(<<"join", l>>)
    BY ClientTypes DEF ClientInv, JoinCreate
  <2>2. JoinOK(l, joining[l])
    BY DEF ClientInv, JoinInv
  <2> QED BY <2>1, <2>2 DEF JoinOK, Busy, JoinStates
<1>2. CASE Expired(l)
  BY <1>1, <1>2, ReturnsSafe DEF Expired, JoinCreate
<1>3. CASE ~Closed /\ Creates(l, joining[l].restore)
  BY <1>1, <1>3, CreatesSafe DEF JoinCreate
<1> QED BY <1>2, <1>3 DEF JoinCreate

LEMMA JoinRegisterSafe == ASSUME ClientInv, NEW l \in Links, JoinRegister(l) PROVE ClientInv'
<1>1. joining[l] \in JoinStates /\ joining[l].pc = "register" /\ JoinOK(l, joining[l])
      /\ joining[l].att \in Attempts \cup {None}
  BY ClientTypes DEF ClientInv, JoinInv, JoinRegister
<1>2. PICK a \in Attempts : /\ a = joining[l].att /\ att[a].pc = "unused" /\ attempts[l] = None
                            /\ \A k \in Links \ {l} : joining[k].att # a
  BY <1>1 DEF JoinOK
<1>3. closing \in {"open", "waiting"}
  BY <1>1 DEF ClientInv, ClientTypeOK, CloseInv
<1>4. CASE RoomOf[l] \in stored
  <2>1. PICK j : j = [joining[l] EXCEPT !.pc = "request"]
    OBVIOUS
  <2>2. j \in JoinStates /\ j.pc = "request" /\ j.att = a
    BY <1>1, <1>2, <2>1 DEF JoinStates
  <2>3. joining' = [joining EXCEPT ![l] = j] /\ Registered(l, a, TRUE, "request")
    BY <1>2, <1>4, <2>1 DEF JoinRegister, To
  <2> QED BY <1>1, <1>2, <1>3, <1>4, <2>2, <2>3, RegisteredStep DEF JoinRegister
<1>5. CASE RoomOf[l] \notin stored
  <2>1. joining' = [joining EXCEPT ![l] = Resting] /\ Registered(l, a, TRUE, "ended")
    BY <1>2, <1>5 DEF JoinRegister, Returns
  <2> QED BY <1>1, <1>2, <1>3, <2>1, RestingTyped, RegisteredStep DEF JoinRegister
<1> QED BY <1>4, <1>5

\* The join that waits for an answer, and its attempt.
LEMMA RequestFacts ==
    ASSUME ClientInv, NEW l \in Links, joining[l].pc = "request"
    PROVE  \E a \in Attempts : /\ a = joining[l].att /\ att[a] \in AttemptStates
                               /\ ShapeOf(att[a]) /\ att[a].pc = "request"
                               /\ att[a].session = "none" /\ ~att[a].opening
                               /\ att[a].claim = "none"
<1>1. JoinOK(l, joining[l]) /\ joining[l].att \in Attempts \cup {None}
  BY ClientTypes DEF ClientInv, JoinInv
<1>2. joining[l].att \in Attempts /\ att[joining[l].att].pc = "request"
  BY <1>1 DEF JoinOK
<1> QED BY <1>2, AttemptFacts DEF ShapeOf, AttemptStates

LEMMA JoinRequestedSafe == ASSUME ClientInv, NEW l \in Links, JoinRequested(l) PROVE ClientInv'
<1>1. PICK a \in Attempts : /\ a = joining[l].att /\ att[a] \in AttemptStates
                            /\ ShapeOf(att[a]) /\ att[a].pc = "request"
                            /\ att[a].session = "none" /\ ~att[a].opening
                            /\ att[a].claim = "none"
  BY RequestFacts DEF JoinRequested
<1>2. PICK y : y = [att[a] EXCEPT !.pc = "poll"]
  OBVIOUS
<1>3. /\ y \in AttemptStates /\ y.pc = "poll" /\ y.session = "none" /\ y.claim = "none"
      /\ y.link = att[a].link /\ y.aborted = att[a].aborted /\ ~y.opening
  BY <1>1, <1>2 DEF AttemptStates, Steps
<1>4. ShapeOf(y)
  BY <1>1, <1>3 DEF ShapeOf
<1>5. att' = [att EXCEPT ![a] = y] /\ ~att[a].aborted
  BY <1>1, <1>2 DEF JoinRequested
<1> QED BY <1>1, <1>3, <1>4, <1>5, AttemptFacts, RequestAnswered DEF JoinRequested

LEMMA JoinThrowsSafe == ASSUME ClientInv, NEW l \in Links, JoinThrows(l) PROVE ClientInv'
<1>1. PICK a \in Attempts : /\ a = joining[l].att /\ att[a] \in AttemptStates
                            /\ ShapeOf(att[a]) /\ att[a].pc = "request"
                            /\ att[a].session = "none" /\ ~att[a].opening
                            /\ att[a].claim = "none"
  BY RequestFacts DEF JoinThrows
<1>2. PICK y : y = TaskEnds(att[a])
  OBVIOUS
<1>3. /\ y \in AttemptStates /\ y.pc = "ended" /\ y.session = "none" /\ y.claim = "none"
      /\ y.link = att[a].link /\ y.aborted = att[a].aborted /\ ~y.opening
  BY <1>1, <1>2, EndedState
<1>4. ShapeOf(y)
  BY <1>1, <1>3 DEF ShapeOf
<1>5. /\ att' = [att EXCEPT ![a] = y]
      /\ attempts' = attempts \/ attempts' = [attempts EXCEPT ![l] = None]
  BY <1>1, <1>2 DEF JoinThrows
<1>6. mishaps' \in 0..MaxMishaps
  BY <1>1, AttemptFacts, MishapCounted DEF JoinThrows
<1>7. /\ disk' \in [Rooms -> [session : Attempts \cup {None}, resume : Links \cup {None}]]
      /\ \A r \in Rooms : disk'[r].session \in {None, disk[r].session}
  <2>1. disk \in [Rooms -> [session : Attempts \cup {None}, resume : Links \cup {None}]]
    BY <1>1, AttemptFacts
  <2>2. CASE disk' = [disk EXCEPT ![RoomOf[l]].resume = None]
    BY <2>1, <2>2, ClientTypes DEF ClientInv
  <2>3. CASE disk' = disk
    BY <2>1, <2>3
  <2> QED BY <2>2, <2>3 DEF JoinThrows
<1> QED BY <1>1, <1>3, <1>4, <1>5, <1>6, <1>7, RequestAnswered DEF JoinThrows

-----------------------------------------------------------------------------
(* close                                                                    *)

\* Closing moves on, and attempts may be aborted.
LEMMA CloseStep ==
    ASSUME ClientInv, NEW S \in SUBSET Attempts, \A a \in S : att[a].pc # "unused",
           att' = Aborted(S), closing' \in {"waiting", "attempts", "done"},
           closing \notin {"open", "waiting"} => closing' \notin {"open", "waiting"},
           cleaning' \subseteq Cleanups, Kept,
           \A d \in cleaning' : d \in cleaning \/ CleanOK(d)', CloseInv',
           UNCHANGED <<attempts, channels, stored, slots, queue, joining, disk, leaves, mishaps>>
    PROVE  ClientInv'
<1>1. /\ att' \in [Attempts -> AttemptStates] /\ AllLater /\ AllWait /\ AllGain
  BY AbortedSet
<1>2. ClientTypeOK'
  BY <1>1 DEF ClientInv, ClientTypeOK
<1>3. ShapeInv' /\ RegInv' /\ JoinInv' /\ CleanInv' /\ QueueInv' /\ ChanInv' /\ DiskInv'
  <2>1. ShapeInv'
    BY <1>1 DEF AllLater, ShapeInv
  <2>2. CleanInv'
    BY <1>1, CleanKept DEF ClientInv
  <2> QED BY <1>1, <2>1, <2>2, RegKept, JoinKept, QueueKept, ChanKept, DiskKept DEF ClientInv
<1>4. Closed'
  BY DEF Closed
<1>5. SlotInv'
  BY <1>4 DEF SlotInv, ClientInv
<1>6. NameInv'
  BY <1>4 DEF NameInv, NameOK, Current
<1> QED BY <1>2, <1>3, <1>5, <1>6 DEF ClientInv

LEMMA RegistryFacts ==
    ASSUME ClientInv
    PROVE  /\ Registry \in SUBSET Attempts /\ \A a \in Registry : att[a].pc # "unused"
           /\ \A l \in Links : attempts[l] # None => attempts[l] \in Registry
BY ClientTypes DEF ClientInv, RegInv, Registry

LEMMA CloseBeginSafe == ASSUME ClientInv, CloseBegin PROVE ClientInv'
<1>1. CloseInv'
  BY DEF CloseBegin, CloseInv
<1>2. Kept /\ cleaning' \subseteq Cleanups
  BY DEF CloseBegin, Kept, ClientInv, ClientTypeOK
<1> QED BY <1>1, <1>2, RegistryFacts, CloseStep DEF CloseBegin

LEMMA CloseCancelsSafe == ASSUME ClientInv, CloseCancels PROVE ClientInv'
<1>1. PICK S : S = Registry
  OBVIOUS
<1>2. /\ S \in SUBSET Attempts /\ \A a \in S : att[a].pc # "unused"
  BY <1>1, RegistryFacts
<1>3. \A l \in Links : attempts[l] # None => attempts[l] \in S
  BY <1>1, RegistryFacts
<1> DEFINE C == {Cancel(<<"close", a>>, a) : a \in S}
<1>4. /\ C \subseteq Cleanups
      /\ \A d \in C : d.by[1] = "close" /\ d.of \in S /\ d.step = "task"
      /\ \A a \in S : \E d \in C : d.by = <<"close", a>> /\ d.of = a
  <2>1. \A a \in S : <<"close", a>> \in Cleaners
    BY <1>2 DEF Cleaners
  <2>2. ASSUME NEW a \in S
        PROVE  /\ Cancel(<<"close", a>>, a) \in Cleanups
               /\ Cancel(<<"close", a>>, a).by = <<"close", a>>
               /\ Cancel(<<"close", a>>, a).of = a /\ Cancel(<<"close", a>>, a).step = "task"
    BY <1>2, <2>1, CleanupTyped
  <2>3. ASSUME NEW d \in C
        PROVE  d \in Cleanups /\ d.by[1] = "close" /\ d.of \in S /\ d.step = "task"
    <3>1. PICK a \in S : d = Cancel(<<"close", a>>, a)
      OBVIOUS
    <3>2. d.by = <<"close", a>> /\ d \in Cleanups /\ d.of = a /\ d.step = "task"
      BY <2>2, <3>1
    <3> QED BY <3>2
  <2>4. ASSUME NEW a \in S PROVE \E d \in C : d.by = <<"close", a>> /\ d.of = a
    <3>1. Cancel(<<"close", a>>, a) \in C
      OBVIOUS
    <3> QED BY <2>2, <3>1
  <2> QED BY <2>3, <2>4
<1>5. Cancels(C)
  BY <1>1 DEF CloseCancels
<1> HIDE DEF C
<1>6. att' = Aborted(S) /\ cleaning' = cleaning \cup C
  <2>1. att' = Aborted({c.of : c \in C}) /\ cleaning' = cleaning \cup C
    BY <1>5 DEF Cancels
  <2>2. {c.of : c \in C} = S
    BY <1>4
  <2> QED BY <2>1, <2>2
<1>7. /\ closing = "waiting" /\ closing' = "attempts"
      /\ \A l \in Links : joining[l].pc = "idle"
      /\ UNCHANGED <<attempts, channels, stored, slots, queue, joining, disk, leaves, mishaps>>
  BY DEF CloseCancels
<1>8. ASSUME NEW d \in C PROVE CleanOK(d)'
  <2>1. att'[d.of].aborted /\ att'[d.of].pc # "unused"
    BY <1>2, <1>4, <1>6, AbortedSet
  <2> QED BY <1>4, <1>7, <2>1 DEF CleanOK
<1>9. CloseInv'
  <2>1. ASSUME NEW l \in Links, attempts'[l] # None
        PROVE  \E c \in cleaning' : c.by = <<"close", attempts'[l]>> /\ c.of = attempts'[l]
    BY <1>3, <1>4, <1>6, <1>7, <2>1
  <2> QED BY <1>7, <2>1 DEF CloseInv
<1>10. Kept /\ cleaning' \subseteq Cleanups /\ \A d \in cleaning' : d \in cleaning \/ CleanOK(d)'
  <2>1. cleaning \subseteq Cleanups
    BY DEF ClientInv, ClientTypeOK
  <2> QED BY <1>4, <1>6, <1>8, <2>1 DEF Kept
<1> QED BY <1>2, <1>6, <1>7, <1>9, <1>10, CloseStep

LEMMA CloseDoneSafe == ASSUME ClientInv, CloseDone PROVE ClientInv'
<1>1. \A l \in Links : attempts[l] = None /\ joining[l].pc = "idle"
  <2> SUFFICES ASSUME NEW l \in Links PROVE attempts[l] = None /\ joining[l].pc = "idle"
    OBVIOUS
  <2>1. attempts[l] \in Attempts \cup {None}
    BY ClientTypes DEF ClientInv
  <2>2. attempts[l] \in Attempts => ~Busy(<<"close", attempts[l]>>)
    BY DEF CloseDone
  <2> QED BY <2>1, <2>2 DEF ClientInv, CloseInv, CloseDone, Busy
<1>2. CloseInv'
  BY <1>1 DEF CloseDone, CloseInv
<1>3. att' = Aborted({})
  BY ClientTypes DEF Aborted, CloseDone, ClientInv
<1>4. Kept /\ cleaning' \subseteq Cleanups
  BY DEF CloseDone, Kept, ClientInv, ClientTypeOK
<1> QED BY <1>2, <1>3, <1>4, CloseStep DEF CloseDone

-----------------------------------------------------------------------------
(* The client as a whole                                                    *)

LEMMA ClientInitInv == ASSUME ClientInit PROVE ClientInv
<1>1. \A a \in Attempts : att[a] = Unused
  BY DEF ClientInit
<1>2. Unused \in AttemptStates /\ Unused.pc = "unused" /\ Unused.claim = "none" /\ ~Unused.opening
      /\ Unused.session = "none" /\ ~Unused.aborted
  BY DEF Unused, AttemptStates, Steps
<1>3. ClientTypeOK
  <2>1. att \in [Attempts -> AttemptStates]
    BY <1>2 DEF ClientInit
  <2>2. joining \in [Links -> JoinStates]
    BY RestingTyped DEF ClientInit
  <2>3. queue \in [Rooms -> Seq(Changes)]
    BY DEF ClientInit
  <2>4. disk \in [Rooms -> [session : Attempts \cup {None}, resume : Links \cup {None}]]
    <3>1. PICK saved \in [Rooms -> Saved \cup {None}] :
             disk = [r \in Rooms |-> [session |-> None, resume |-> saved[r]]]
      BY DEF ClientInit
    <3>2. \A r \in Rooms : saved[r] \in Links \cup {None}
      BY ClientAssumption
    <3> QED BY <3>1, <3>2
  <2>5. leaves \in 0..MaxLeaves /\ mishaps \in 0..MaxMishaps
    BY ClientAssumption DEF ClientInit
  <2> QED BY <2>1, <2>2, <2>3, <2>4, <2>5 DEF ClientInit, ClientTypeOK
<1>4. ShapeInv
  BY <1>1, <1>2 DEF ShapeInv, ShapeOf
<1>5. RegInv /\ JoinInv
  BY <1>1, <1>2, RestingTyped DEF ClientInit, RegInv, Registers, JoinInv, JoinOK
<1>6. CleanInv /\ ChanInv /\ CloseInv
  BY DEF ClientInit, CleanInv, ChanInv, CloseInv
<1>7. QueueInv
  BY DEF ClientInit, QueueInv
<1>8. DiskInv
  BY DEF ClientInit, DiskInv
<1>9. SlotInv
  BY <1>1, <1>2 DEF ClientInit, SlotInv, Claiming, Underway
<1>10. NameInv
  BY <1>1, <1>2 DEF NameInv, NameOK, Claimed
<1> QED BY <1>3, <1>4, <1>5, <1>6, <1>7, <1>8, <1>9, <1>10 DEF ClientInv

LEMMA ClientStutters == ASSUME ClientInv, UNCHANGED clientVars PROVE ClientInv'
<1>1. AllLater /\ AllWait /\ AllCalm /\ AllGain
  BY DEF AllLater, AllWait, AllCalm, AllGain, Later, Awaits, Calm, Gains, ClientInv, ShapeInv,
         clientVars
<1>2. ClientTypeOK'
  BY DEF ClientInv, ClientTypeOK, clientVars
<1>3. Kept /\ CleanInv'
  BY <1>1, CleanKept DEF ClientInv, Kept, clientVars
<1> QED BY <1>1, <1>2, <1>3, Ordinary DEF clientVars

LEMMA ClientInductive == ASSUME ClientInv, [ClientNext]_clientVars PROVE ClientInv'
<1>1. CASE Join
  <2>1. PICK l \in Links :
           \/ JoinBegin(l) \/ RejoinBegin(l) \/ RejoinTurn(l) \/ JoinCreate(l) \/ JoinRegister(l)
           \/ JoinRequested(l) \/ JoinThrows(l)
    BY <1>1 DEF Join
  <2>2. CASE JoinBegin(l)
    BY <2>2, TurnSafe DEF JoinBegin
  <2>3. CASE RejoinTurn(l)
    BY <2>3, TurnSafe DEF RejoinTurn
  <2> QED BY <2>1, <2>2, <2>3, RejoinBeginSafe, JoinCreateSafe, JoinRegisterSafe,
             JoinRequestedSafe, JoinThrowsSafe
<1>2. CASE Background
  BY <1>2, PollAnsweredSafe, ClaimSeenSafe, ClaimRefusedSafe, WriteSessionSafe, SessionOpensSafe,
     InvitedSafe, JoinedSafe, TaskFailsSafe, UnwritableSafe, FailureHandledSafe, AbortSeenSafe,
     SessionEndsSafe DEF Background
<1>3. CASE RoomChange
  BY <1>3, ClaimTurnSafe, ClaimFinishSafe, LeaveBeginSafe, LeaveTurnSafe, LeaveFinishSafe
     DEF RoomChange
<1>4. CASE CleanStep
  <2>1. PICK c \in cleaning :
           /\ \/ (CleanAwaits(c) \/ CleanStopped(c)) /\ UNCHANGED <<disk, attempts, closing>>
              \/ CleanFiles(c)
           /\ UNCHANGED <<channels, stored, slots, queue, joining, leaves, mishaps>>
    BY <1>4 DEF CleanStep
  <2> QED BY <2>1, CleanAwaitsSafe, CleanStoppedSafe, CleanFilesSafe
<1>5. CASE Close
  BY <1>5, CloseBeginSafe, CloseCancelsSafe, CloseDoneSafe DEF Close
<1>6. CASE UNCHANGED clientVars
  BY <1>6, ClientStutters
<1> QED BY <1>1, <1>2, <1>3, <1>4, <1>5, <1>6 DEF ClientNext

LEMMA ClientInvAlways == ClientSpec => []ClientInv
BY ClientInitInv, ClientInductive, PTL DEF ClientSpec

\* The client's variables stay in their types (client-impl.ts:180-250).
THEOREM ClientTypeCorrect == ClientSpec => []ClientTypeOK
<1>1. ClientInv => ClientTypeOK
  BY DEF ClientInv
<1> QED BY <1>1, ClientInvAlways, PTL

\* Whatever was under way when close was called, once it has answered nothing runs, no session
\* is live and no credentials are left (client-impl.ts:444).
THEOREM ClosedLeavesNothingAlways == ClientSpec => []ClosedLeavesNothing
<1>1. ASSUME ClientInv PROVE ClosedLeavesNothing
  <2> SUFFICES ASSUME closing = "done"
               PROVE  /\ \A a \in Attempts : att[a].session # "live"
                                             /\ att[a].pc \in {"unused", "ended"}
                      /\ \A r \in Rooms : disk[r].session = None
    BY DEF ClosedLeavesNothing
  <2>1. \A l \in Links : attempts[l] = None /\ joining[l].pc = "idle"
    BY <1>1 DEF ClientInv, CloseInv
  <2>2. ASSUME NEW a \in Attempts
        PROVE  att[a].session # "live" /\ att[a].pc \in {"unused", "ended"}
    <3>1. ShapeOf(att[a]) /\ Registers(a) /\ a # None
      BY <1>1, AttemptFacts, ClientTypes DEF ClientInv
    <3>2. CASE att[a].pc = "unused"
      BY <3>1, <3>2 DEF ShapeOf, Unused
    <3>3. CASE att[a].pc # "unused"
      <4>1. attempts[att[a].link] = None /\ joining[att[a].link].pc = "idle"
        BY <2>1, <3>1, <3>3 DEF ShapeOf
      <4> QED BY <3>1, <4>1 DEF Registers
    <3> QED BY <3>2, <3>3
  <2>3. ASSUME NEW r \in Rooms, disk[r].session # None PROVE FALSE
    <3>1. PICK b \in Attempts : b = disk[r].session /\ DiskOK(r, b)
      BY <1>1, <2>3, ClientTypes DEF ClientInv, DiskInv
    <3> QED BY <1>1, <2>1, <3>1, ClientTypes DEF DiskOK, InRoom, ClientInv
  <2> QED BY <2>2, <2>3
<1> QED BY <1>1, ClientInvAlways, PTL

\* A live session that no restore of the same room has displaced is the one its room names, so
\* that read, send, leave and the next claim reach it (client-impl.ts:553-600).
THEOREM ChannelNamesItsSessionAlways == ClientSpec => []ChannelNamesItsSession
<1>1. ClientInv => ChannelNamesItsSession
  BY DEF ClientInv, NameInv, NameOK, Claimed, ChannelNamesItsSession
<1> QED BY <1>1, ClientInvAlways, PTL

\* When nothing is under way the slots are those of the rooms on disk: an aborted, refused or
\* left claim has given its slot back (client-impl.ts:560-590).
THEOREM SlotsMatchAlways == ClientSpec => []SlotsMatch
<1>1. ASSUME ClientInv PROVE SlotsMatch
  <2> SUFFICES ASSUME ~Closed, \A r \in Rooms : queue[r] = <<>> PROVE slots = stored
    BY DEF SlotsMatch
  <2>1. \A r \in Rooms : ~Claiming(r)
    BY DEF Claiming, Underway
  <2>2. slots \subseteq Rooms
    BY <1>1 DEF ClientInv, ClientTypeOK
  <2> QED BY <1>1, <2>1, <2>2 DEF ClientInv, SlotInv
<1> QED BY <1>1, ClientInvAlways, PTL
=============================================================================
