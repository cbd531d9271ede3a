------------------------ MODULE InboxDeliveryProofs -------------------------
(***************************************************************************)
(* Proofs about InboxDelivery, for any number of hooks, readers, entries,    *)
(* changes of the mode and deaths.                                          *)
(*                                                                         *)
(* No lock is held and the cursor loses updates, so nothing can be said of   *)
(* where it is.  What holds is that an entry, once it is accounted for,      *)
(* stays so: its fate only grows, and what is in flight gets a fate when it   *)
(* is handed over or lost.  Hence whatever copy of the cursor a process      *)
(* carries, however old, it may be written back: all behind it is accounted   *)
(* for.                                                                     *)
(***************************************************************************)
EXTENDS InboxDelivery, SequenceTheorems, TLAPS

-----------------------------------------------------------------------------
(* The inductive invariant *)

HookPlaces == {"idle", "lease", "nudge", "nudgeCheck", "nudgeWrite", "cursor", "entries", "check",
               "write", "emit", "emitNudge"}
WaitPlaces == {"idle", "mode", "cursor", "entries", "check", "write", "emit"}
ClientPlaces == {"idle", "cursor", "entries", "check", "write", "pingCursor", "pingEntries",
                 "nudgeCheck", "nudgeWrite", "set"}

\* Cursors and processes that know of n entries.
CursorAt(n) == [count : 0..n, nudged : 0..n, shown : 0..n]
RunAt(n) == [pc : HookPlaces \cup WaitPlaces \cup ClientPlaces, event : HookEvent \cup {None},
             mode : Modes \cup {"mute", None}, next : ModeFile \cup {None},
             need : SUBSET {"cursor", "entries"}, cur : 0..n, start : 0..n, old : CursorAt(n),
             size : 0..n, upto : 0..n, tries : {0, 1}]

Types ==
    /\ inbox \in Seq(Kinds) /\ Len(inbox) <= MaxInbox
    /\ cursor \in CursorAt(Len(inbox))
    /\ mode \in ModeFile
    /\ delegate \in BOOLEAN
    /\ run \in [Procs -> RunAt(Len(inbox))]
    /\ fate \in [Entries -> SUBSET Fates]

\* The entry has a fate, or a process is about to give it one.
Accounted(i) == fate[i] # {} \/ InFlight(i)

\* The same, of a process that hands over contents and not a nudge.
Seen == {"shown", "unseen", "lost"}
Shows(p) == p \in Readers \/ run[p].event.shown
Content(i) ==
    \/ fate[i] \cap Seen # {}
    \/ \E p \in Hooks \cup Readers : run[p].pc = "emit" /\ i \in Batch(p) /\ Shows(p)

\* The cursor c may be the one in the file.
Sound(c) ==
    /\ \A i \in 1..c.count : Accounted(i)
    /\ c.shown > 0 => Content(c.shown)

\* Where a process may be, and what it has there.
Local(p, r) ==
    /\ p \in Hooks => r.pc \in HookPlaces
    /\ p \in Readers => r.pc \in WaitPlaces
    /\ p = client => r.pc \in ClientPlaces
    /\ p = client /\ r.pc # "idle" => r.next \in ModeFile
    /\ p # client /\ r.pc \in {"check", "write"} => r.cur < r.upto

\* The cursors that a process carries.
Carries(r) == (\A i \in 1..r.cur : Accounted(i)) /\ Sound(r.old)

Inv ==
    /\ Types
    /\ Sound(cursor)
    /\ \A p \in Procs : Local(p, run[p]) /\ Carries(run[p])

-----------------------------------------------------------------------------
(* Helpers *)

LEMMA Sizes ==
    ASSUME Types
    PROVE  /\ Len(inbox) \in Nat /\ MaxInbox \in Nat /\ Len(inbox) <= MaxInbox
           /\ \A p \in Procs : run[p] \in RunAt(Len(inbox))
  BY LenProperties, BoundsAssumption DEF Types

\* Who knows of n entries knows of no more than a larger number of them.
LEMMA Larger ==
    ASSUME NEW n \in Nat, NEW m \in Nat, n <= m
    PROVE  CursorAt(n) \subseteq CursorAt(m) /\ RunAt(n) \subseteq RunAt(m)
<1>1. 0..n \subseteq 0..m
  OBVIOUS
<1>2. CursorAt(n) \subseteq CursorAt(m)
  BY <1>1 DEF CursorAt
<1>3. RunAt(n) \subseteq RunAt(m)
  BY <1>1, <1>2 DEF RunAt
<1> QED
  BY <1>2, <1>3

\* The places that occur below.
LEMMA Places ==
    /\ \A at \in {"nudge", "nudgeCheck", "nudgeWrite", "cursor", "entries", "check", "write"} : at \in HookPlaces
    /\ \A at \in {"mode", "cursor", "entries", "check", "write"} : at \in WaitPlaces
  BY DEF HookPlaces, WaitPlaces

LEMMA Others ==
    ASSUME Types, NEW p \in Procs, NEW r, Go(p, r)
    PROVE  run'[p] = r /\ \A q \in Procs \ {p} : run'[q] = run[q]
  BY DEF Types, Go

\* A process at rest, or at a place where it has read nothing yet.
LEMMA AtRest ==
    ASSUME NEW n \in Nat
    PROVE  /\ Idle \in RunAt(n) /\ NoCursor \in CursorAt(n)
           /\ Idle.pc = "idle" /\ Idle.cur = 0 /\ Idle.old = NoCursor
           /\ NoCursor.count = 0 /\ NoCursor.shown = 0
  BY DEF Idle, NoCursor, RunAt, CursorAt, HookPlaces

LEMMA NothingCarried ==
    ASSUME NEW r, r.cur = 0, r.old = NoCursor
    PROVE  Carries(r)
<1>1. NoCursor.count = 0 /\ NoCursor.shown = 0
  BY DEF NoCursor
<1> QED
  BY <1>1 DEF Carries, Sound

-----------------------------------------------------------------------------
(* What is accounted for stays so *)

\* No entry loses its fate, and one in the hands of p gets the fate that p gives it.
FatesGrow(p) ==
    /\ \A i \in Entries : fate[i] \subseteq fate'[i]
    /\ (p # client /\ run[p].pc = "emit") =>
          \A i \in Batch(p) : fate'[i] # {} /\ (Shows(p) => fate'[i] \cap Seen # {})

LEMMA AccountedStays ==
    ASSUME Types, NEW p \in Procs, NEW r, Go(p, r), FatesGrow(p)
    PROVE  \A i \in Entries : (Accounted(i) => Accounted(i)') /\ (Content(i) => Content(i)')
<1>1. run'[p] = r /\ \A q \in Procs \ {p} : run'[q] = run[q]
  BY Others
<1>2. \A q \in Procs \ {p} : Batch(q)' = Batch(q) /\ Shows(q)' = Shows(q)
  BY <1>1 DEF Batch, Shows
<1>3. \A q \in Hooks \cup Readers : q \in Procs /\ q # client
  BY ProcsAssumption DEF Procs
<1> SUFFICES ASSUME NEW i \in Entries
             PROVE  (Accounted(i) => Accounted(i)') /\ (Content(i) => Content(i)')
  OBVIOUS
<1>4. fate[i] \subseteq fate'[i]
  BY DEF FatesGrow
<1>5. ASSUME Accounted(i) PROVE Accounted(i)'
  <2>1. CASE fate[i] # {}
    BY <1>4, <2>1 DEF Accounted
  <2>2. CASE InFlight(i)
    <3>1. PICK q \in Hooks \cup Readers : run[q].pc = "emit" /\ i \in Batch(q)
      BY <2>2 DEF InFlight
    <3>2. CASE q = p
      BY <1>3, <3>1, <3>2 DEF FatesGrow, Accounted
    <3>3. CASE q # p
      BY <1>1, <1>2, <1>3, <3>1, <3>3 DEF Accounted, InFlight
    <3> QED
      BY <3>2, <3>3
  <2> QED
    BY <1>5, <2>1, <2>2 DEF Accounted
<1>6. ASSUME Content(i) PROVE Content(i)'
  <2>1. CASE fate[i] \cap Seen # {}
    BY <1>4, <2>1 DEF Content, Seen
  <2>2. CASE \E q \in Hooks \cup Readers : run[q].pc = "emit" /\ i \in Batch(q) /\ Shows(q)
    <3>1. PICK q \in Hooks \cup Readers : run[q].pc = "emit" /\ i \in Batch(q) /\ Shows(q)
      BY <2>2
    <3>2. CASE q = p
      BY <1>3, <3>1, <3>2 DEF FatesGrow, Content
    <3>3. CASE q # p
      BY <1>1, <1>2, <1>3, <3>1, <3>3 DEF Content
    <3> QED
      BY <3>2, <3>3
  <2> QED
    BY <1>6, <2>1, <2>2 DEF Content
<1> QED
  BY <1>5, <1>6

\* So a cursor that may be written now may be written at any later time.
LEMMA SoundStays ==
    ASSUME Types, NEW c \in CursorAt(Len(inbox)), Sound(c),
           \A i \in Entries : (Accounted(i) => Accounted(i)') /\ (Content(i) => Content(i)')
    PROVE  Sound(c)'
<1>1. c.count \in 0..Len(inbox) /\ c.shown \in 0..Len(inbox)
  BY DEF CursorAt
<1>2. \A i \in 1..c.count : i \in Entries
  BY <1>1, Sizes DEF Entries
<1>3. c.shown > 0 => c.shown \in Entries
  BY <1>1, Sizes DEF Entries
<1> QED
  BY <1>2, <1>3 DEF Sound

LEMMA CarriesStays ==
    ASSUME Types, NEW r \in RunAt(Len(inbox)), Carries(r),
           \A i \in Entries : (Accounted(i) => Accounted(i)') /\ (Content(i) => Content(i)')
    PROVE  Carries(r)'
<1>1. r.cur \in 0..Len(inbox) /\ r.old \in CursorAt(Len(inbox))
  BY DEF RunAt
<1>2. \A i \in 1..r.cur : i \in Entries
  BY <1>1, Sizes DEF Entries
<1>3. Sound(r.old)'
  BY <1>1, SoundStays DEF Carries
<1> QED
  BY <1>2, <1>3 DEF Carries

-----------------------------------------------------------------------------
(* The kinds of steps *)

\* Process p goes on, and the cursor it may leave behind is sound.
LEMMA Step ==
    ASSUME Inv, NEW p \in Procs, NEW r \in RunAt(Len(inbox)), Go(p, r), FatesGrow(p),
           Local(p, r), Carries(r),
           UNCHANGED inbox, mode' \in ModeFile, delegate' \in BOOLEAN,
           fate' \in [Entries -> SUBSET Fates],
           cursor' = cursor \/ (cursor' \in CursorAt(Len(inbox)) /\ Sound(cursor)')
    PROVE  Inv'
<1>1. Types /\ run'[p] = r /\ \A q \in Procs \ {p} : run'[q] = run[q]
  BY Others DEF Inv
<1>2. \A i \in Entries : (Accounted(i) => Accounted(i)') /\ (Content(i) => Content(i)')
  BY <1>1, AccountedStays
<1>3. \A q \in Procs : run'[q] \in RunAt(Len(inbox)) /\ Local(q, run'[q]) /\ Carries(run'[q])
  BY <1>1, Sizes DEF Inv
<1>4. ASSUME NEW q \in Procs
      PROVE  Local(q, run[q])' /\ Carries(run[q])'
  <2>1. PICK y : y = run'[q]
    OBVIOUS
  <2>2. y \in RunAt(Len(inbox)) /\ Local(q, y) /\ Carries(y)
    BY <1>3, <2>1
  <2>3. Carries(y)'
    BY <1>1, <1>2, <2>2, CarriesStays
  <2>4. Local(q, run[q])'
    BY <2>1, <2>2 DEF Local
  <2>5. Carries(run[q])'
    BY <2>1, <2>3 DEF Carries, Sound
  <2> QED
    BY <2>4, <2>5
<1>5. Sound(cursor)' /\ cursor' \in CursorAt(Len(inbox))
  <2>1. CASE cursor' = cursor
    <3>1. PICK k : k = cursor
      OBVIOUS
    <3>2. Sound(k)'
      BY <1>1, <1>2, <3>1, SoundStays DEF Inv, Types
    <3>3. Sound(cursor)'
      BY <2>1, <3>1, <3>2 DEF Sound
    <3> QED
      BY <1>1, <2>1, <3>3 DEF Types
  <2> QED
    BY <2>1
<1>6. Types'
  <2>1. run' \in [Procs -> RunAt(Len(inbox))]
    BY <1>1 DEF Go, Types
  <2> QED
    BY <1>1, <1>5, <2>1 DEF Types
<1> QED
  BY <1>4, <1>5, <1>6 DEF Inv

\* Process p goes on without leaving anything behind.
LEMMA QuietStep ==
    ASSUME Inv, NEW p \in Procs, NEW r \in RunAt(Len(inbox)), Go(p, r), UNCHANGED Files,
           p = client \/ run[p].pc # "emit", Local(p, r), Carries(r)
    PROVE  Inv'
<1>1. FatesGrow(p)
  BY DEF FatesGrow, Files
<1>2. mode' \in ModeFile /\ delegate' \in BOOLEAN /\ fate' \in [Entries -> SUBSET Fates]
      /\ cursor' = cursor /\ UNCHANGED inbox
  BY DEF Inv, Types, Files
<1> QED
  BY <1>1, <1>2, Step

\* The cursor that a process writes is one it carries, moved over what it took.
LEMMA WriteStep ==
    ASSUME Inv, NEW p \in Procs, NEW shown, NEW r \in RunAt(Len(inbox)), NEW u, u = run[p].upto,
           Write(p, shown, r), Local(p, r), Carries(r), FatesGrow(p),
           UNCHANGED <<inbox, mode, delegate>>, fate' \in [Entries -> SUBSET Fates],
           \A i \in Batch(p) : Accounted(i)',
           shown => u > 0 /\ Content(u)'
    PROVE  Inv'
<1>1. PICK k : k = NextCursor(p, shown)
  OBVIOUS
<1>2. Types /\ Go(p, r) /\ cursor' = k
  BY <1>1 DEF Inv, Write
<1>3. run[p] \in RunAt(Len(inbox)) /\ Carries(run[p]) /\ Len(inbox) \in Nat
  BY <1>2, Sizes DEF Inv
<1>4. /\ run[p].cur \in 0..Len(inbox) /\ u \in 0..Len(inbox)
      /\ run[p].old \in CursorAt(Len(inbox))
  BY <1>3 DEF RunAt
<1>5. /\ k.count = u /\ k.shown = IF shown THEN u ELSE run[p].old.shown
      /\ k \in CursorAt(Len(inbox))
  BY <1>1, <1>4 DEF NextCursor, CursorAt
<1>6. \A i \in Entries : (Accounted(i) => Accounted(i)') /\ (Content(i) => Content(i)')
  BY <1>2, AccountedStays
<1>7. Sound(run[p].old) /\ \A i \in 1..run[p].cur : i \in Entries /\ Accounted(i)
  BY <1>2, <1>3, <1>4, Sizes DEF Carries, Entries
<1>8. \A i \in 1..u : Accounted(i)'
  BY <1>4, <1>6, <1>7 DEF Batch
<1>9. k.shown > 0 => Content(k.shown)'
  <2>1. CASE shown
    BY <1>5, <2>1
  <2>2. CASE ~shown
    <3>1. k.shown > 0 => k.shown \in Entries /\ Content(k.shown)
      BY <1>2, <1>4, <1>5, <1>7, <2>2, Sizes DEF Sound, Entries, CursorAt
    <3> QED
      BY <1>6, <3>1
  <2> QED
    BY <2>1, <2>2
<1>10. Sound(cursor)'
  BY <1>2, <1>5, <1>8, <1>9 DEF Sound
<1> QED
  BY <1>2, <1>5, <1>10, Step DEF Inv, Types

\* What was taken is in flight as soon as the cursor is moved over it.
LEMMA TakenInv ==
    ASSUME Inv, NEW p \in Hooks \cup Readers, NEW shown, Write(p, shown, Holding(p)),
           shown => Shows(p), UNCHANGED <<inbox, mode, delegate, fate>>
    PROVE  Inv'
<1>1. PICK r, u, b : r = Holding(p) /\ u = run[p].upto /\ b = run[p].cur
  OBVIOUS
<1>2. p \in Procs /\ p # client /\ Types /\ run[p].pc = "write" /\ Go(p, r)
  BY <1>1, ProcsAssumption DEF Procs, Inv, Write
<1>3. run[p] \in RunAt(Len(inbox)) /\ Carries(run[p]) /\ Local(p, run[p]) /\ Len(inbox) \in Nat
  BY <1>2, Sizes DEF Inv
<1>4. b \in 0..Len(inbox) /\ u \in 0..Len(inbox) /\ b < u
  BY <1>1, <1>2, <1>3 DEF RunAt, Local
<1>5. /\ r \in RunAt(Len(inbox)) /\ r.pc = "emit" /\ r.event = run[p].event /\ r.cur = b
      /\ r.upto = u /\ r.old = NoCursor
  <2>1. run[p].event \in HookEvent \cup {None}
    BY <1>3 DEF RunAt
  <2> QED
    BY <1>1, <1>3, <1>4, <2>1, AtRest DEF Holding, Idle, RunAt, HookPlaces
<1>6. Local(p, r)
  BY <1>2, <1>5 DEF Local, HookPlaces, WaitPlaces
<1>7. Carries(r)
  <2>1. NoCursor.count = 0 /\ NoCursor.shown = 0
    BY DEF NoCursor
  <2> QED
    BY <1>1, <1>3, <1>5, <2>1 DEF Carries, Sound
<1>8. FatesGrow(p)
  BY <1>2 DEF FatesGrow
<1>9. run'[p] = r
  BY <1>2, Others
<1>10. \A i \in b + 1..u : i \in Batch(p)'
  BY <1>5, <1>9 DEF Batch
<1>11. \A i \in Batch(p) : Accounted(i)'
  <2>1. Batch(p) = b + 1..u
    BY <1>1 DEF Batch
  <2> QED
    BY <1>5, <1>9, <1>10, <2>1 DEF Accounted, InFlight
<1>12. shown => u > 0 /\ Content(u)'
  <2>1. u \in Batch(p)' /\ u > 0
    BY <1>4, <1>10
  <2>2. shown => Shows(p)'
    BY <1>5, <1>9 DEF Shows
  <2> QED
    BY <1>5, <1>9, <2>1, <2>2 DEF Content
<1>13. fate' \in [Entries -> SUBSET Fates]
  BY <1>2 DEF Types
<1>14. Write(p, shown, r)
  BY <1>1
<1> QED
  BY <1>1, <1>2, <1>5, <1>6, <1>7, <1>8, <1>11, <1>12, <1>13, <1>14, WriteStep

\* Marking an entry adds to its fate.
LEMMA Marked ==
    ASSUME Types, NEW batch, NEW what \in Fates, Mark(batch, what)
    PROVE  /\ fate' \in [Entries -> SUBSET Fates]
           /\ \A i \in Entries : fate[i] \subseteq fate'[i]
           /\ \A i \in Entries : i \in batch => what \in fate'[i]
  BY DEF Mark, Types

\* What a process has in its hands is among the entries.
LEMMA InHand ==
    ASSUME Types, NEW p \in Procs
    PROVE  Batch(p) \subseteq Entries
<1>1. run[p] \in RunAt(Len(inbox)) /\ Len(inbox) \in Nat /\ MaxInbox \in Nat /\ Len(inbox) <= MaxInbox
  BY Sizes
<1>2. run[p].cur \in 0..Len(inbox) /\ run[p].upto \in 0..Len(inbox)
  BY <1>1 DEF RunAt
<1> QED
  BY <1>1, <1>2 DEF Batch, Entries

\* A process hands over what it has, or dies with it, and is done.
LEMMA EndsInv ==
    ASSUME Inv, NEW p \in Procs, Go(p, Idle), FatesGrow(p), fate' \in [Entries -> SUBSET Fates],
           UNCHANGED <<inbox, cursor, mode, delegate>>
    PROVE  Inv'
<1>1. Len(inbox) \in Nat
  BY Sizes DEF Inv
<1>2. Idle \in RunAt(Len(inbox)) /\ Idle.pc = "idle" /\ Idle.cur = 0 /\ Idle.old = NoCursor
  BY <1>1, AtRest
<1>3. Local(p, Idle) /\ Carries(Idle)
  BY <1>2, NothingCarried DEF Local, HookPlaces, WaitPlaces, ClientPlaces
<1> QED
  BY <1>2, <1>3, Step DEF Inv, Types

-----------------------------------------------------------------------------
(* The steps, one by one *)

\* The process is somewhere else, with what it had.
LEMMA MovesInv ==
    ASSUME Inv, NEW p \in Procs, NEW r, Go(p, r), UNCHANGED Files,
           p = client \/ run[p].pc # "emit",
           r \in RunAt(Len(inbox)), r.cur = run[p].cur, r.old = run[p].old, Local(p, r)
    PROVE  Inv'
<1>1. Carries(r)
  BY DEF Inv, Carries
<1> QED
  BY <1>1, QuietStep

\* The process begins again, or ends.
LEMMA RestartsInv ==
    ASSUME Inv, NEW p \in Procs, NEW r, Go(p, r), UNCHANGED Files,
           p = client \/ run[p].pc # "emit",
           r \in RunAt(Len(inbox)), r.cur = 0, r.old = NoCursor, Local(p, r)
    PROVE  Inv'
<1>1. Carries(r)
  BY NothingCarried
<1> QED
  BY <1>1, QuietStep

LEMMA StopsInv ==
    ASSUME Inv, NEW p \in Procs, Go(p, Idle), UNCHANGED Files, run[p].pc # "emit"
    PROVE  Inv'
<1>1. FatesGrow(p)
  BY DEF FatesGrow, Files
<1> QED
  BY <1>1, EndsInv DEF Inv, Types, Files

\* The cursor is read.
LEMMA ReadsInv ==
    ASSUME Inv, NEW p \in Procs, NEW r, Go(p, r), UNCHANGED Files,
           p = client \/ run[p].pc # "emit",
           r \in RunAt(Len(inbox)), r.cur = cursor.count, r.old = run[p].old, Local(p, r)
    PROVE  Inv'
<1>1. Carries(r)
  BY DEF Inv, Carries, Sound
<1> QED
  BY <1>1, QuietStep

LEMMA ReadCursorInv ==
    ASSUME Inv, NEW p \in Procs, ReadCursor(p)
    PROVE  Inv'
<1> DEFINE r == [run[p] EXCEPT !.pc = "entries", !.cur = cursor.count]
<1>1. /\ run[p] \in RunAt(Len(inbox)) /\ cursor \in CursorAt(Len(inbox)) /\ Local(p, run[p])
      /\ run[p].pc = "cursor"
  BY Sizes DEF Inv, Types, ReadCursor
<1>2. /\ r \in RunAt(Len(inbox)) /\ r.pc = "entries" /\ r.cur = cursor.count /\ r.old = run[p].old
      /\ r.next = run[p].next
  BY <1>1 DEF RunAt, CursorAt, HookPlaces
<1>3. Go(p, r) /\ UNCHANGED Files
  BY DEF ReadCursor
<1> HIDE DEF r
<1>4. Local(p, r)
  BY <1>1, <1>2 DEF Local, HookPlaces, WaitPlaces, ClientPlaces
<1> QED
  BY <1>1, <1>2, <1>3, <1>4, ReadsInv

\* The comparison of the cursor and the copy made of it.
LEMMA CopiesInv ==
    ASSUME Inv, NEW p \in Procs, NEW r, Go(p, r), UNCHANGED Files,
           p = client \/ run[p].pc # "emit",
           r \in RunAt(Len(inbox)), r.cur = run[p].cur, r.old = cursor, Local(p, r)
    PROVE  Inv'
<1>1. Carries(r)
  BY DEF Inv, Carries
<1> QED
  BY <1>1, QuietStep

\* markNudged, of a hook or of the client.
LEMMA NudgeCheckInv ==
    ASSUME Inv, NEW p \in Procs, NEW after, NudgeCheck(p, after),
           (p \in Hooks /\ after = "emitNudge") \/ (p = client /\ after = "set")
    PROVE  Inv'
<1>1. /\ run[p] \in RunAt(Len(inbox)) /\ cursor \in CursorAt(Len(inbox)) /\ Local(p, run[p])
      /\ run[p].pc = "nudgeCheck" /\ Len(inbox) \in Nat /\ UNCHANGED Files
  BY Sizes DEF Inv, Types, NudgeCheck
<1>2. CASE Unmoved(p)
  <2> DEFINE r == [run[p] EXCEPT !.pc = "nudgeWrite", !.old = cursor]
  <2>1. /\ r \in RunAt(Len(inbox)) /\ r.pc = "nudgeWrite" /\ r.old = cursor /\ r.cur = run[p].cur
        /\ r.next = run[p].next
    BY <1>1 DEF RunAt, HookPlaces
  <2>2. Go(p, r)
    BY <1>2 DEF NudgeCheck
  <2> HIDE DEF r
  <2>3. Local(p, r)
    BY <1>1, <2>1, ProcsAssumption DEF Local, HookPlaces, ClientPlaces
  <2> QED
    BY <1>1, <2>1, <2>2, <2>3, CopiesInv
<1>3. CASE ~Unmoved(p)
  <2> DEFINE r == [Idle EXCEPT !.pc = after, !.next = run[p].next]
  <2>1. /\ r \in RunAt(Len(inbox)) /\ r.pc = after /\ r.old = NoCursor /\ r.cur = 0
        /\ r.next = run[p].next
    BY <1>1, AtRest, ZenonT(60) DEF Idle, RunAt, HookPlaces, ClientPlaces
  <2>2. Go(p, r)
    BY <1>3 DEF NudgeCheck
  <2> HIDE DEF r
  <2>3. Local(p, r)
    BY <1>1, <2>1, ProcsAssumption DEF Local, HookPlaces, ClientPlaces
  <2> QED
    BY <1>1, <2>1, <2>2, <2>3, RestartsInv
<1> QED
  BY <1>2, <1>3

LEMMA NudgeWriteInv ==
    ASSUME Inv, NEW p \in Procs, NEW after, NudgeWrite(p, after),
           (p \in Hooks /\ after = "emitNudge") \/ (p = client /\ after = "set")
    PROVE  Inv'
<1> DEFINE r == [Idle EXCEPT !.pc = after, !.next = run[p].next]
           c == [run[p].old EXCEPT !.nudged = run[p].size]
<1>1. /\ run[p] \in RunAt(Len(inbox)) /\ Local(p, run[p]) /\ Carries(run[p])
      /\ run[p].pc = "nudgeWrite" /\ Len(inbox) \in Nat
  BY Sizes DEF Inv, NudgeWrite
<1>2. /\ r \in RunAt(Len(inbox)) /\ r.pc = after /\ r.old = NoCursor /\ r.cur = 0
      /\ r.next = run[p].next
  BY <1>1, AtRest, ZenonT(60) DEF Idle, RunAt, HookPlaces, ClientPlaces
<1>3. /\ run[p].old \in CursorAt(Len(inbox)) /\ run[p].size \in 0..Len(inbox)
  BY <1>1 DEF RunAt
<1>4. /\ c \in CursorAt(Len(inbox)) /\ c.count = run[p].old.count /\ c.shown = run[p].old.shown
  BY <1>3 DEF CursorAt
<1>5. Go(p, r) /\ cursor' = c /\ UNCHANGED <<inbox, mode, delegate, fate>>
  BY DEF NudgeWrite
<1> HIDE DEF r, c
<1>6. Local(p, r) /\ Carries(r)
  BY <1>1, <1>2, ProcsAssumption, NothingCarried DEF Local, HookPlaces, ClientPlaces
<1>7. FatesGrow(p)
  BY <1>1, <1>5 DEF FatesGrow
<1>8. PICK k : k = c
  OBVIOUS
<1>9. Sound(k)
  BY <1>1, <1>4, <1>8 DEF Carries, Sound
<1>10. Sound(k)'
  BY <1>4, <1>5, <1>7, <1>8, <1>9, AccountedStays, SoundStays DEF Inv
<1>11. Sound(cursor)' /\ cursor' \in CursorAt(Len(inbox))
  BY <1>4, <1>5, <1>8, <1>10 DEF Sound
<1>12. mode' \in ModeFile /\ delegate' \in BOOLEAN /\ fate' \in [Entries -> SUBSET Fates]
  BY <1>5 DEF Inv, Types
<1> QED
  BY <1>2, <1>5, <1>6, <1>7, <1>11, <1>12, Step

-----------------------------------------------------------------------------
(* A hook *)

LEMMA HookFacts ==
    ASSUME Inv, NEW h \in Hooks
    PROVE  /\ h \in Procs /\ h # client /\ h \notin Readers
           /\ run[h] \in RunAt(Len(inbox)) /\ run[h].pc \in HookPlaces
           /\ cursor \in CursorAt(Len(inbox)) /\ Len(inbox) \in Nat /\ Len(inbox) \in 0..Len(inbox)
  BY ProcsAssumption, Sizes DEF Inv, Types, Procs, Local

\* What the steps of a hook need most often.
LEMMA HookRun ==
    ASSUME Inv, NEW h \in Hooks
    PROVE  run[h] \in RunAt(Len(inbox)) /\ cursor \in CursorAt(Len(inbox))
  BY HookFacts

LEMMA HookBeginInv ==
    ASSUME Inv, NEW h \in Hooks, NEW e \in HookEvents, HookBegin(h, e)
    PROVE  Inv'
<1> DEFINE r == [Idle EXCEPT !.pc = "lease", !.event = e, !.mode = EffectiveMode(mode)]
<1>1. EffectiveMode(mode) \in Modes \cup {"mute"} /\ e \in HookEvent
  BY ProcsAssumption DEF Inv, Types, ModeFile, EffectiveMode
<1>2. r \in RunAt(Len(inbox)) /\ r.pc = "lease" /\ r.cur = 0 /\ r.old = NoCursor
  BY <1>1, HookFacts, AtRest DEF Idle, RunAt, HookPlaces
<1>3. Go(h, r) /\ UNCHANGED Files /\ run[h].pc = "idle"
  BY DEF HookBegin
<1> HIDE DEF r
<1>4. Local(h, r)
  BY <1>2, HookFacts DEF Local, HookPlaces
<1> QED
  BY <1>2, <1>3, <1>4, HookFacts, RestartsInv

LEMMA HookLeaseInv ==
    ASSUME Inv, NEW h \in Hooks, HookLease(h)
    PROVE  Inv'
<1>1. run[h].pc = "lease" /\ UNCHANGED Files
  BY DEF HookLease
<1> DEFINE r == [run[h] EXCEPT !.pc = "nudge", !.need = {"cursor", "entries"}]
           s == [run[h] EXCEPT !.pc = "cursor"]
<1>2. Go(h, Idle) \/ Go(h, r) \/ Go(h, s)
  BY DEF HookLease, To
<1>3. /\ r \in RunAt(Len(inbox)) /\ r.pc = "nudge" /\ r.cur = run[h].cur /\ r.old = run[h].old
      /\ s \in RunAt(Len(inbox)) /\ s.pc = "cursor" /\ s.cur = run[h].cur /\ s.old = run[h].old
  BY HookRun, Places, ZenonT(60) DEF RunAt
<1> HIDE DEF r, s
<1>4. Local(h, r) /\ Local(h, s)
  BY <1>3, HookFacts DEF Local, HookPlaces
<1> QED
  BY <1>1, <1>2, <1>3, <1>4, HookFacts, StopsInv, MovesInv

LEMMA HookNudgeInv ==
    ASSUME Inv, NEW h \in Hooks, HookNudge(h)
    PROVE  Inv'
<1>1. run[h].pc = "nudge" /\ UNCHANGED Files
  BY DEF HookNudge
<1>2. PICK what \in run[h].need :
        LET read == IF what = "cursor"
                    THEN [run[h] EXCEPT !.cur = cursor.count, !.start = WakeStart(cursor)]
                    ELSE [run[h] EXCEPT !.size = Len(inbox)]
            r == [read EXCEPT !.need = @ \ {what}]
        IN  Go(h, r) \/ Go(h, [Idle EXCEPT !.pc = "nudgeCheck", !.cur = r.cur, !.size = r.size]) \/ Go(h, Idle)
  BY DEF HookNudge
<1> DEFINE read == IF what = "cursor"
                   THEN [run[h] EXCEPT !.cur = cursor.count, !.start = WakeStart(cursor)]
                   ELSE [run[h] EXCEPT !.size = Len(inbox)]
           r == [read EXCEPT !.need = @ \ {what}]
           s == [Idle EXCEPT !.pc = "nudgeCheck", !.cur = r.cur, !.size = r.size]
<1>3. Go(h, r) \/ Go(h, s) \/ Go(h, Idle)
  BY <1>2
<1>4. WakeStart(cursor) \in 0..Len(inbox) /\ cursor.count \in 0..Len(inbox) /\ Len(inbox) \in 0..Len(inbox)
  BY HookFacts DEF WakeStart, CursorAt
<1>5. /\ read \in RunAt(Len(inbox)) /\ read.pc = "nudge" /\ read.old = run[h].old
      /\ read.cur = cursor.count \/ read.cur = run[h].cur
  BY <1>1, <1>4, HookRun, ZenonT(60) DEF RunAt
<1> HIDE DEF read
<1>6. /\ r \in RunAt(Len(inbox)) /\ r.pc = "nudge" /\ r.old = run[h].old
      /\ r.cur = cursor.count \/ r.cur = run[h].cur
  BY <1>5 DEF RunAt
<1> HIDE DEF r
<1>7. r.cur \in 0..Len(inbox) /\ r.size \in 0..Len(inbox)
  BY <1>6 DEF RunAt
<1>8. s \in RunAt(Len(inbox)) /\ s.pc = "nudgeCheck" /\ s.old = NoCursor /\ s.cur = r.cur
  BY <1>7, HookFacts, AtRest DEF Idle, RunAt, HookPlaces
<1> HIDE DEF s
<1>9. Local(h, r) /\ Local(h, s)
  BY <1>6, <1>8, HookFacts DEF Local, HookPlaces
<1>10. Carries(r)
  BY <1>6, HookFacts DEF Inv, Carries, Sound
<1>11. Carries(s)
  <2>1. NoCursor.count = 0 /\ NoCursor.shown = 0
    BY DEF NoCursor
  <2> QED
    BY <1>8, <1>10, <2>1 DEF Carries, Sound
<1> QED
  BY <1>1, <1>3, <1>6, <1>8, <1>9, <1>10, <1>11, HookFacts, StopsInv, QuietStep

LEMMA HookEntriesInv ==
    ASSUME Inv, NEW h \in Hooks, HookEntries(h)
    PROVE  Inv'
<1> DEFINE from == run[h].cur
           upto == IF from + FrameSize < Len(inbox) THEN from + FrameSize ELSE Len(inbox)
           r == [run[h] EXCEPT !.pc = "check", !.upto = upto]
<1>1. run[h].pc = "entries" /\ UNCHANGED Files
  BY DEF HookEntries
<1>2. (Pending(from) # {} /\ Go(h, r)) \/ Go(h, Idle)
  BY DEF HookEntries
<1>3. CASE Go(h, Idle)
  BY <1>1, <1>3, HookFacts, StopsInv
<1>4. CASE Pending(from) # {} /\ Go(h, r)
  <2>1. from \in 0..Len(inbox) /\ Len(inbox) \in Nat /\ FrameSize \in Nat /\ FrameSize > 0
    BY HookFacts, BoundsAssumption DEF RunAt
  <2>2. from < Len(inbox)
    BY <1>4, <2>1 DEF Pending
  <2>3. upto \in 0..Len(inbox) /\ from < upto
    BY <2>1, <2>2
  <2> HIDE DEF upto
  <2>4. /\ r \in RunAt(Len(inbox)) /\ r.pc = "check" /\ r.cur = from /\ r.old = run[h].old
        /\ r.upto = upto
    BY <2>3, HookRun, Places DEF RunAt
  <2> HIDE DEF r
  <2>5. Local(h, r)
    BY <2>3, <2>4, HookFacts DEF Local, HookPlaces
  <2> QED
    BY <1>1, <1>4, <2>4, <2>5, HookFacts, MovesInv
<1> QED
  BY <1>2, <1>3, <1>4

LEMMA HookCheckInv ==
    ASSUME Inv, NEW h \in Hooks, HookCheck(h)
    PROVE  Inv'
<1> DEFINE r == [run[h] EXCEPT !.pc = "write", !.old = cursor]
           s == [run[h] EXCEPT !.pc = "cursor", !.tries = 1]
<1>1. run[h].pc = "check" /\ UNCHANGED Files /\ run[h].cur < run[h].upto
  BY HookFacts DEF HookCheck, Inv, Local
<1>2. Go(h, r) \/ Go(h, s) \/ Go(h, Idle)
  BY DEF HookCheck
<1>3. /\ r \in RunAt(Len(inbox)) /\ r.pc = "write" /\ r.cur = run[h].cur /\ r.old = cursor
      /\ r.upto = run[h].upto
  BY HookRun, Places DEF RunAt
<1>4. /\ s \in RunAt(Len(inbox)) /\ s.pc = "cursor" /\ s.cur = run[h].cur /\ s.old = run[h].old
  BY HookRun, Places, ZenonT(60) DEF RunAt
<1> HIDE DEF r, s
<1>5. Local(h, r) /\ Local(h, s)
  BY <1>1, <1>3, <1>4, HookFacts DEF Local, HookPlaces
<1> QED
  BY <1>1, <1>2, <1>3, <1>4, <1>5, HookFacts, StopsInv, MovesInv, CopiesInv

LEMMA HookWriteInv ==
    ASSUME Inv, NEW h \in Hooks, HookWrite(h)
    PROVE  Inv'
  BY TakenInv DEF HookWrite, Shows

LEMMA HookEmitInv ==
    ASSUME Inv, NEW h \in Hooks, HookEmit(h)
    PROVE  Inv'
<1>1. UNCHANGED <<inbox, cursor, mode, delegate>> /\ Go(h, Idle) /\ Types
  BY DEF HookEmit, Inv
<1>2. CASE run[h].pc = "emit"
  <2>1. PICK what \in Fates : Mark(Batch(h), what) /\ (run[h].event.shown => what = "shown")
    BY <1>2 DEF HookEmit, Fates
  <2>2. FatesGrow(h) /\ fate' \in [Entries -> SUBSET Fates]
    BY <1>1, <2>1, HookFacts, InHand, Marked DEF FatesGrow, Shows, Seen
  <2> QED
    BY <1>1, <2>2, HookFacts, EndsInv
<1>3. CASE run[h].pc # "emit"
  <2>1. UNCHANGED fate
    BY <1>3 DEF HookEmit
  <2>2. FatesGrow(h) /\ fate' \in [Entries -> SUBSET Fates]
    BY <1>1, <1>3, <2>1 DEF FatesGrow, Types
  <2> QED
    BY <1>1, <2>2, HookFacts, EndsInv
<1> QED
  BY <1>2, <1>3

-----------------------------------------------------------------------------
(* A background agent that waits *)

LEMMA WaitFacts ==
    ASSUME Inv, NEW g \in Readers
    PROVE  /\ g \in Procs /\ g # client /\ g \notin Hooks
           /\ run[g] \in RunAt(Len(inbox)) /\ run[g].pc \in WaitPlaces
           /\ cursor \in CursorAt(Len(inbox)) /\ Len(inbox) \in Nat /\ Len(inbox) \in 0..Len(inbox)
  BY ProcsAssumption, Sizes DEF Inv, Types, Procs, Local

\* What the steps of a waiting reader need most often.
LEMMA WaitRun ==
    ASSUME Inv, NEW g \in Readers
    PROVE  run[g] \in RunAt(Len(inbox)) /\ cursor \in CursorAt(Len(inbox))
  BY WaitFacts

LEMMA WaitBeginInv ==
    ASSUME Inv, NEW g \in Readers, WaitBegin(g)
    PROVE  Inv'
<1> DEFINE r == [run[g] EXCEPT !.pc = "mode"]
<1>1. /\ Go(g, r) /\ UNCHANGED <<inbox, cursor, mode, fate>> /\ delegate' \in BOOLEAN
      /\ run[g].pc = "idle"
  BY DEF WaitBegin, To
<1>2. r \in RunAt(Len(inbox)) /\ r.pc = "mode" /\ r.cur = run[g].cur /\ r.old = run[g].old
  BY WaitFacts DEF RunAt, WaitPlaces
<1> HIDE DEF r
<1>3. Local(g, r)
  BY <1>2, WaitFacts DEF Local, WaitPlaces
<1>4. Carries(r)
  BY <1>2, WaitFacts DEF Inv, Carries
<1>5. FatesGrow(g)
  BY <1>1 DEF FatesGrow
<1> QED
  BY <1>1, <1>2, <1>3, <1>4, <1>5, WaitFacts, Step DEF Inv, Types

LEMMA WaitModeInv ==
    ASSUME Inv, NEW g \in Readers, WaitMode(g)
    PROVE  Inv'
<1> DEFINE r == [run[g] EXCEPT !.pc = "cursor", !.mode = EffectiveMode(mode)]
<1>1. Go(g, r) /\ UNCHANGED Files /\ run[g].pc = "mode"
  BY DEF WaitMode
<1>2. EffectiveMode(mode) \in Modes \cup {"mute"}
  BY DEF Inv, Types, ModeFile, EffectiveMode
<1>3. r \in RunAt(Len(inbox)) /\ r.pc = "cursor" /\ r.cur = run[g].cur /\ r.old = run[g].old
  BY <1>2, WaitRun, Places, ZenonT(60) DEF RunAt
<1> HIDE DEF r
<1>4. Local(g, r)
  BY <1>3, WaitFacts DEF Local, WaitPlaces
<1> QED
  BY <1>1, <1>3, <1>4, WaitFacts, MovesInv

LEMMA WaitAgainInv ==
    ASSUME Inv, NEW g \in Readers, WaitAgain(g), UNCHANGED Files, run[g].pc # "emit"
    PROVE  Inv'
<1> DEFINE r == [Idle EXCEPT !.pc = "mode"]
<1>1. Go(g, r) \/ Go(g, Idle)
  BY DEF WaitAgain
<1>2. r \in RunAt(Len(inbox)) /\ r.pc = "mode" /\ r.cur = 0 /\ r.old = NoCursor
  BY WaitFacts, AtRest DEF Idle, RunAt, WaitPlaces
<1> HIDE DEF r
<1>3. Local(g, r)
  BY <1>2, WaitFacts DEF Local, WaitPlaces
<1> QED
  BY <1>1, <1>2, <1>3, WaitFacts, RestartsInv, StopsInv

LEMMA WaitEntriesInv ==
    ASSUME Inv, NEW g \in Readers, WaitEntries(g)
    PROVE  Inv'
<1> DEFINE r == [run[g] EXCEPT !.pc = "check", !.upto = Len(inbox)]
<1>1. run[g].pc = "entries" /\ UNCHANGED Files
  BY DEF WaitEntries
<1>2. CASE \E i \in Pending(run[g].cur) : Wakes(run[g].mode, inbox[i])
  <2>1. run[g].cur \in 0..Len(inbox) /\ Len(inbox) \in Nat /\ Len(inbox) \in 0..Len(inbox)
    BY WaitFacts DEF RunAt
  <2>2. run[g].cur < Len(inbox)
    BY <1>2, <2>1 DEF Pending
  <2>3. /\ r \in RunAt(Len(inbox)) /\ r.pc = "check" /\ r.cur = run[g].cur /\ r.old = run[g].old
        /\ r.upto = Len(inbox)
    BY WaitRun, <2>1, Places, ZenonT(60) DEF RunAt
  <2>4. Go(g, r)
    BY <1>2 DEF WaitEntries
  <2> HIDE DEF r
  <2>5. Local(g, r)
    BY <2>2, <2>3, WaitFacts DEF Local, WaitPlaces
  <2> QED
    BY <1>1, <2>3, <2>4, <2>5, WaitFacts, MovesInv
<1>3. CASE WaitAgain(g)
  BY <1>1, <1>3, WaitAgainInv
<1> QED
  BY <1>2, <1>3 DEF WaitEntries

LEMMA WaitCheckInv ==
    ASSUME Inv, NEW g \in Readers, WaitCheck(g)
    PROVE  Inv'
<1> DEFINE r == [run[g] EXCEPT !.pc = "write", !.old = cursor]
<1>1. run[g].pc = "check" /\ UNCHANGED Files /\ run[g].cur < run[g].upto
  BY WaitFacts DEF WaitCheck, Inv, Local
<1>2. CASE Go(g, r)
  <2>1. /\ r \in RunAt(Len(inbox)) /\ r.pc = "write" /\ r.cur = run[g].cur /\ r.old = cursor
        /\ r.upto = run[g].upto
    BY WaitRun, Places DEF RunAt
  <2> HIDE DEF r
  <2>2. Local(g, r)
    BY <1>1, <2>1, WaitFacts DEF Local, WaitPlaces
  <2> QED
    BY <1>1, <1>2, <2>1, <2>2, WaitFacts, CopiesInv
<1>3. CASE WaitAgain(g)
  BY <1>1, <1>3, WaitAgainInv
<1> QED
  BY <1>2, <1>3 DEF WaitCheck

LEMMA WaitWriteInv ==
    ASSUME Inv, NEW g \in Readers, WaitWrite(g)
    PROVE  Inv'
  BY TakenInv DEF WaitWrite, Shows

LEMMA WaitPageInv ==
    ASSUME Inv, NEW g \in Readers, WaitPage(g)
    PROVE  Inv'
<1>1. UNCHANGED <<inbox, cursor, mode, delegate>> /\ Go(g, Idle) /\ Types
  BY DEF WaitPage, Inv
<1>2. PICK page : fate' = [i \in Entries |->
                             IF i \in page THEN fate[i] \cup {"shown"}
                             ELSE IF i \in Batch(g) THEN fate[i] \cup {"unseen"} ELSE fate[i]]
  BY DEF WaitPage
<1>3. fate' \in [Entries -> SUBSET Fates]
  BY <1>1, <1>2 DEF Types, Fates
<1>4. FatesGrow(g)
  BY <1>1, <1>2, WaitFacts, InHand DEF FatesGrow, Seen
<1> QED
  BY <1>1, <1>3, <1>4, WaitFacts, EndsInv

-----------------------------------------------------------------------------
(* The client *)

LEMMA ClientFacts ==
    ASSUME Inv
    PROVE  /\ client \in Procs /\ client \notin Hooks \cup Readers
           /\ run[client] \in RunAt(Len(inbox)) /\ Local(client, run[client])
           /\ cursor \in CursorAt(Len(inbox)) /\ Len(inbox) \in Nat /\ Len(inbox) \in 0..Len(inbox)
  BY ProcsAssumption, Sizes DEF Inv, Types, Procs

LEMMA ChangeInv ==
    ASSUME Inv, NEW next \in ModeFile, NEW step \in {"cursor", "pingCursor", "set"}, Change(next, step)
    PROVE  Inv'
<1> DEFINE r == [Idle EXCEPT !.pc = step, !.next = next]
<1>1. Go(client, r) /\ UNCHANGED <<inbox, cursor, mode, delegate, fate>>
  BY DEF Change
<1>2. /\ r \in RunAt(Len(inbox)) /\ r.pc = step /\ r.next = next /\ r.cur = 0 /\ r.old = NoCursor
  BY ClientFacts, AtRest, ZenonT(60) DEF Idle, RunAt, ClientPlaces
<1> HIDE DEF r
<1>3. Local(client, r) /\ Carries(r)
  BY <1>2, ClientFacts, NothingCarried DEF Local, ClientPlaces
<1>4. FatesGrow(client)
  BY <1>1 DEF FatesGrow
<1> QED
  BY <1>1, <1>2, <1>3, <1>4, ClientFacts, Step DEF Inv, Types

LEMMA AppliesInv ==
    ASSUME Inv, \/ \E m \in Modes, keep \in BOOLEAN : ApplyListeningMode(m, keep)
                \/ \E flag \in BOOLEAN : ApplyArchived(flag)
    PROVE  Inv'
<1>1. mode \in ModeFile
  BY DEF Inv, Types
<1>2. ASSUME NEW m \in Modes, NEW keep \in BOOLEAN, ApplyListeningMode(m, keep)
      PROVE  Inv'
  <2>1. PICK step \in {"cursor", "pingCursor", "set"} : Change([mode EXCEPT !.mode = m], step)
    BY <1>2 DEF ApplyListeningMode
  <2>2. [mode EXCEPT !.mode = m] \in ModeFile
    BY <1>1 DEF ModeFile
  <2> QED
    BY <2>1, <2>2, ChangeInv
<1>3. ASSUME NEW flag \in BOOLEAN, ApplyArchived(flag)
      PROVE  Inv'
  <2>1. PICK step \in {"cursor", "pingCursor", "set"} : Change([mode EXCEPT !.archived = flag], step)
    BY <1>3 DEF ApplyArchived
  <2>2. [mode EXCEPT !.archived = flag] \in ModeFile
    BY <1>1 DEF ModeFile
  <2> QED
    BY <2>1, <2>2, ChangeInv
<1> QED
  BY <1>2, <1>3

\* A step of the client that keeps what is to be set.
LEMMA ClientMoves ==
    ASSUME Inv, NEW r, Go(client, r), UNCHANGED Files, run[client].pc # "idle",
           r \in RunAt(Len(inbox)), r.pc \in ClientPlaces, r.next = run[client].next,
           r.cur = run[client].cur \/ r.cur = cursor.count, r.old = run[client].old \/ r.old = cursor
    PROVE  Inv'
<1>1. Local(client, r)
  BY ClientFacts DEF Local
<1>2. Carries(r)
  BY ClientFacts DEF Inv, Carries, Sound
<1> QED
  BY <1>1, <1>2, ClientFacts, QuietStep

LEMMA SkipEntriesInv ==
    ASSUME Inv, SkipEntries
    PROVE  Inv'
<1> DEFINE r == [run[client] EXCEPT !.pc = "check", !.upto = Len(inbox)]
<1>1. Go(client, r) /\ UNCHANGED Files /\ run[client].pc # "idle"
  BY DEF SkipEntries
<1>2. /\ r \in RunAt(Len(inbox)) /\ r.pc \in ClientPlaces /\ r.next = run[client].next
      /\ r.cur = run[client].cur /\ r.old = run[client].old
  BY ClientFacts DEF RunAt, ClientPlaces
<1> HIDE DEF r
<1> QED
  BY <1>1, <1>2, ClientMoves

LEMMA SkipCheckInv ==
    ASSUME Inv, SkipCheck
    PROVE  Inv'
<1>1. run[client].pc = "check" /\ UNCHANGED Files
  BY DEF SkipCheck
<1>2. CASE Unmoved(client)
  <2>1. PICK step \in {"set", "write"} : Go(client, [run[client] EXCEPT !.pc = step, !.old = cursor])
    BY <1>2 DEF SkipCheck
  <2> DEFINE r == [run[client] EXCEPT !.pc = step, !.old = cursor]
  <2>2. /\ r \in RunAt(Len(inbox)) /\ r.pc \in ClientPlaces /\ r.next = run[client].next
        /\ r.cur = run[client].cur /\ r.old = cursor
    BY ClientFacts DEF RunAt, ClientPlaces
  <2>3. Go(client, r)
    BY <2>1
  <2> HIDE DEF r
  <2> QED
    BY <1>1, <2>2, <2>3, ClientMoves
<1>3. CASE ~Unmoved(client)
  <2> DEFINE r == [run[client] EXCEPT !.pc = "cursor", !.tries = 1]
  <2>1. Go(client, r) \/ Go(client, Idle)
    BY <1>3 DEF SkipCheck
  <2>2. /\ r \in RunAt(Len(inbox)) /\ r.pc \in ClientPlaces /\ r.next = run[client].next
        /\ r.cur = run[client].cur /\ r.old = run[client].old
    BY ClientFacts DEF RunAt, ClientPlaces
  <2> HIDE DEF r
  <2> QED
    BY <1>1, <2>1, <2>2, ClientFacts, ClientMoves, StopsInv
<1> QED
  BY <1>2, <1>3

LEMMA SkipWriteInv ==
    ASSUME Inv, SkipWrite
    PROVE  Inv'
<1>1. PICK r, u : r = [Idle EXCEPT !.pc = "set", !.next = run[client].next] /\ u = run[client].upto
  OBVIOUS
<1>2. /\ Write(client, FALSE, r) /\ Mark(Batch(client), "skipped") /\ Types
      /\ run[client].pc = "write" /\ UNCHANGED <<inbox, mode, delegate>>
  BY <1>1 DEF SkipWrite, Write, Inv
<1>3. run[client].next \in ModeFile
  BY <1>2, ClientFacts DEF Local
<1>4. /\ r \in RunAt(Len(inbox)) /\ r.pc = "set" /\ r.next = run[client].next
      /\ r.cur = 0 /\ r.old = NoCursor
  BY <1>1, <1>3, ClientFacts, AtRest DEF Idle, RunAt, ClientPlaces
<1>5. Local(client, r) /\ Carries(r)
  BY <1>3, <1>4, ClientFacts, NothingCarried DEF Local, ClientPlaces
<1>6. /\ fate' \in [Entries -> SUBSET Fates] /\ FatesGrow(client)
      /\ \A i \in Batch(client) : fate'[i] # {}
  BY <1>2, ClientFacts, InHand, Marked DEF FatesGrow, Fates
<1>7. \A i \in Batch(client) : Accounted(i)'
  BY <1>6 DEF Accounted
<1> QED
  BY <1>1, <1>2, <1>4, <1>5, <1>6, <1>7, ClientFacts, WriteStep

LEMMA PingsInv ==
    ASSUME Inv, PingCursor \/ PingEntries
    PROVE  Inv'
<1> DEFINE r == [run[client] EXCEPT !.pc = "pingEntries", !.cur = cursor.count]
           s == [run[client] EXCEPT !.pc = "nudgeCheck", !.size = Len(inbox)]
<1>1. UNCHANGED Files /\ run[client].pc # "idle" /\ (Go(client, r) \/ Go(client, s))
  BY DEF PingCursor, PingEntries
<1>2. /\ r \in RunAt(Len(inbox)) /\ r.pc \in ClientPlaces /\ r.next = run[client].next
      /\ r.cur = cursor.count /\ r.old = run[client].old
  BY ClientFacts DEF RunAt, CursorAt, ClientPlaces
<1>3. /\ s \in RunAt(Len(inbox)) /\ s.pc \in ClientPlaces /\ s.next = run[client].next
      /\ s.cur = run[client].cur /\ s.old = run[client].old
  BY ClientFacts DEF RunAt, ClientPlaces
<1> HIDE DEF r, s
<1> QED
  BY <1>1, <1>2, <1>3, ClientMoves

LEMMA SetModeInv ==
    ASSUME Inv, SetMode
    PROVE  Inv'
<1>1. Go(client, Idle) /\ mode' \in ModeFile /\ UNCHANGED <<inbox, cursor, delegate, fate>>
  BY ClientFacts DEF SetMode, Local
<1>2. Idle \in RunAt(Len(inbox)) /\ Idle.pc = "idle" /\ Idle.cur = 0 /\ Idle.old = NoCursor
  BY ClientFacts, AtRest
<1>3. Local(client, Idle) /\ Carries(Idle)
  BY <1>2, ClientFacts, NothingCarried DEF Local, ClientPlaces
<1>4. FatesGrow(client)
  BY <1>1 DEF FatesGrow
<1> QED
  BY <1>1, <1>2, <1>3, <1>4, ClientFacts, Step DEF Inv, Types

-----------------------------------------------------------------------------
(* Entries arrive, processes die, the lease ends *)

\* What is read stays where it is when the inbox grows.
LEMMA Append1Inv ==
    ASSUME Inv, NEW k \in Kinds, Append1(k)
    PROVE  Inv'
<1>1. /\ inbox' = Append(inbox, k) /\ Len(inbox) < MaxInbox
      /\ UNCHANGED <<cursor, mode, delegate, run, fate>>
  BY DEF Append1
<1>2. Len(inbox) \in Nat /\ MaxInbox \in Nat
  BY Sizes DEF Inv
<1>3. inbox' \in Seq(Kinds) /\ Len(inbox') = Len(inbox) + 1
  BY <1>1, AppendProperties DEF Inv, Types
<1>4. CursorAt(Len(inbox)) \subseteq CursorAt(Len(inbox')) /\ RunAt(Len(inbox)) \subseteq RunAt(Len(inbox'))
  BY <1>2, <1>3, Larger
<1>5. Types'
  BY <1>1, <1>2, <1>3, <1>4 DEF Inv, Types
<1>6. Sound(cursor)' /\ \A p \in Procs : Local(p, run[p])' /\ Carries(run[p])'
  BY <1>1 DEF Inv, Sound, Local, Carries, Accounted, Content, InFlight, Shows, Batch
<1> QED
  BY <1>5, <1>6 DEF Inv

LEMMA DiesInv ==
    ASSUME Inv, NEW p \in Procs, Dies(p)
    PROVE  Inv'
<1>1. UNCHANGED <<inbox, cursor, mode, delegate>> /\ Go(p, Idle) /\ Types
  BY DEF Dies, Inv
<1>2. CASE run[p].pc = "emit"
  <2>1. Mark(Batch(p), "lost") /\ "lost" \in Fates
    BY <1>2 DEF Dies, Fates
  <2>2. FatesGrow(p) /\ fate' \in [Entries -> SUBSET Fates]
    BY <1>1, <2>1, InHand, Marked DEF FatesGrow, Seen
  <2> QED
    BY <1>1, <2>2, EndsInv
<1>3. CASE run[p].pc # "emit"
  <2>1. UNCHANGED fate
    BY <1>3 DEF Dies
  <2>2. FatesGrow(p) /\ fate' \in [Entries -> SUBSET Fates]
    BY <1>1, <1>3, <2>1 DEF FatesGrow, Types
  <2> QED
    BY <1>1, <2>2, EndsInv
<1> QED
  BY <1>2, <1>3

\* The processes and what is in the files beside the lease stay as they are.
LEMMA LeaseOnly ==
    ASSUME Inv, UNCHANGED <<inbox, cursor, mode, run, fate>>, delegate' \in BOOLEAN
    PROVE  Inv'
<1>1. Types'
  BY DEF Inv, Types
<1>2. Sound(cursor)' /\ \A p \in Procs : Local(p, run[p])' /\ Carries(run[p])'
  BY DEF Inv, Sound, Local, Carries, Accounted, Content, InFlight, Shows, Batch
<1> QED
  BY <1>1, <1>2 DEF Inv

-----------------------------------------------------------------------------
(* The invariant holds in every behaviour *)

LEMMA InvInit == Init => Inv
<1> SUFFICES ASSUME Init PROVE Inv
  OBVIOUS
<1>1. inbox \in Seq(Kinds) /\ Len(inbox) = 0 /\ 0 \in Nat /\ MaxInbox \in Nat
  BY BoundsAssumption DEF Init
<1>2. /\ Idle \in RunAt(0) /\ NoCursor \in CursorAt(0) /\ Idle.pc = "idle" /\ Idle.cur = 0
      /\ Idle.old = NoCursor
      /\ NoCursor.count = 0 /\ NoCursor.shown = 0
  BY <1>1, AtRest
<1>3. cursor = NoCursor /\ run = [p \in Procs |-> Idle] /\ mode \in ModeFile /\ delegate \in BOOLEAN
      /\ fate \in [Entries -> SUBSET Fates]
  BY DEF Init, ModeFile
<1>4. Types
  <2>1. run \in [Procs -> RunAt(0)]
    BY <1>2, <1>3
  <2> QED
    BY <1>1, <1>2, <1>3, <2>1 DEF Types
<1>5. Sound(cursor)
  BY <1>2, <1>3 DEF Sound
<1>6. ASSUME NEW p \in Procs PROVE Local(p, run[p]) /\ Carries(run[p])
  <2>1. run[p] = Idle
    BY <1>3
  <2>2. Local(p, Idle)
    BY <1>2 DEF Local, HookPlaces, WaitPlaces, ClientPlaces
  <2> QED
    BY <1>2, <2>1, <2>2, NothingCarried
<1> QED
  BY <1>4, <1>5, <1>6 DEF Inv

LEMMA InvStep == Inv /\ [Next]_vars => Inv'
<1> SUFFICES ASSUME Inv, [Next]_vars PROVE Inv'
  OBVIOUS
<1>1. ASSUME NEW h \in Hooks, HookStep(h) \/ \E e \in HookEvents : HookBegin(h, e)
      PROVE  Inv'
  BY <1>1, HookFacts, HookBeginInv, HookLeaseInv, HookNudgeInv, NudgeCheckInv, NudgeWriteInv,
     ReadCursorInv, HookEntriesInv, HookCheckInv, HookWriteInv, HookEmitInv DEF HookStep
<1>2. ASSUME NEW g \in Readers, WaitBegin(g) \/ WaitStep(g)
      PROVE  Inv'
  BY <1>2, WaitFacts, WaitBeginInv, WaitModeInv, ReadCursorInv, WaitEntriesInv, WaitCheckInv,
     WaitWriteInv, WaitPageInv DEF WaitStep
<1>3. CASE ClientStep
  BY <1>3, ClientFacts, ReadCursorInv, SkipEntriesInv, SkipCheckInv, SkipWriteInv, PingsInv,
     NudgeCheckInv, NudgeWriteInv, SetModeInv DEF ClientStep
<1>4. CASE \/ \E m \in Modes, keep \in BOOLEAN : ApplyListeningMode(m, keep)
           \/ \E flag \in BOOLEAN : ApplyArchived(flag)
  BY <1>4, AppliesInv
<1>5. CASE LeaseEnds
  BY <1>5, LeaseOnly DEF LeaseEnds
<1>6. CASE UNCHANGED vars
  BY <1>6, LeaseOnly DEF vars, Inv, Types
<1> QED
  BY <1>1, <1>2, <1>3, <1>4, <1>5, <1>6, Append1Inv, DiesInv DEF Next

LEMMA InvAlways == Spec => []Inv
<1> QED
  BY InvInit, InvStep, PTL DEF Spec

-----------------------------------------------------------------------------
(* The theorems *)

\* The cursor never points past the inbox, nor does any copy of it that a process is about to
\* write back (inbox.ts), and the client sets only modes that it was asked for.
THEOREM TypeCorrect == Spec => []TypeOK
<1>1. Inv => TypeOK
  <2> SUFFICES ASSUME Inv PROVE TypeOK
    OBVIOUS
  <2>1. Types /\ Len(inbox) \in Nat /\ MaxInbox \in Nat /\ Len(inbox) <= MaxInbox
    BY Sizes DEF Inv
  <2>2. \A c \in CursorAt(Len(inbox)) :
           c \in Cursor /\ c.count <= Len(inbox) /\ c.nudged <= Len(inbox) /\ c.shown <= Len(inbox)
    BY <2>1 DEF CursorAt, Cursor
  <2>3. ASSUME NEW p \in Procs
        PROVE  /\ run[p].cur \in 0..MaxInbox /\ run[p].old \in Cursor
               /\ {run[p].upto, run[p].size, run[p].start} \subseteq 0..Len(inbox)
    <3>1. run[p] \in RunAt(Len(inbox))
      BY <2>1, Sizes
    <3> QED
      BY <2>1, <2>2, <3>1 DEF RunAt
  <2> QED
    BY <2>1, <2>2, <2>3 DEF Types, TypeOK
<1> QED
  BY <1>1, InvAlways, PTL

\* What lies behind the cursor of inbox.ts was handed over, skipped, lost with a process or is in
\* the hands of one, for any number of overlapping hooks and readers and whatever updates of the
\* cursor are lost.
THEOREM NothingPassed == Spec => []NothingPassedOver
<1>1. Inv => NothingPassedOver
  BY DEF Inv, Sound, Accounted, NothingPassedOver
<1> QED
  BY <1>1, InvAlways, PTL

\* shownEventId, from which the read receipt follows, is never that of an entry which only a fixed
\* nudge or a skipped backlog has passed.
THEOREM ReceiptsEarned == Spec => []ReceiptsFollowContent
<1>1. Inv => ReceiptsFollowContent
  BY DEF Inv, Sound, Content, Seen, InFlight, ReceiptsFollowContent
<1> QED
  BY <1>1, InvAlways, PTL
=============================================================================
