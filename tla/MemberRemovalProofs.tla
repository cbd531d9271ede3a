------------------------ MODULE MemberRemovalProofs -------------------------
(***************************************************************************)
(* Proofs about MemberRemoval, for any number of removals, admissions,      *)
(* agents and faults.                                                       *)
(*                                                                         *)
(* A run takes the membership lease once and never again, so a run that     *)
(* holds it has held it since it began: what it read since then and only    *)
(* lease holders change is still so (`RemoverOK`, `AdmitterOK`).  A confirm  *)
(* holds no lease; what protects a removal from it is the generation it     *)
(* compares after it minted its token (`Escaped`).                          *)
(***************************************************************************)
EXTENDS MemberRemoval, TLAPS

-----------------------------------------------------------------------------
(* The inductive invariant *)

\* A confirm that got past its check of the removals although the removal at hand is
\* newer than its session, which is still live.
Escaped(a) ==
    /\ con[a].pc \in {"memberAfter", "own", "sealed", "invited"}
    /\ removal.entry.gen > token[a].gen
    /\ token[a].live

\* A removal that is going to be recorded has a generation to take.
RoomForGen == removal.gen < MaxGen \/ ~removal.entry.complete

\* What a removal that holds the lease knows.
RemoverKnows(p) ==
    /\ rem[p].pc = "roster" => RoomForGen
    /\ rem[p].pc \in {"bindings", "collect", "record"} =>
          /\ RoomForGen
          /\ rem[p].human <=> human = "join"
          /\ rem[p].human \/ ~removal.entry.complete
    /\ rem[p].pc = "ban" => ~removal.entry.complete /\ (human = "join" => rem[p].human)
    /\ rem[p].pc \in {"recollect", "rerecord", "revoke"} =>
          ~removal.entry.complete /\ human # "join"
    /\ rem[p].pc = "rerecord" => inRoom \subseteq rem[p].agents \cap rem[p].members
    /\ rem[p].pc = "revoke" =>
          /\ inRoom \subseteq rem[p].todo \cap rem[p].members
          /\ rem[p].gen = removal.entry.gen
          /\ \A a \in removal.entry.agents \ rem[p].todo : ~Escaped(a)

RemoverOK == \A p \in Removers : lease = p => RemoverKnows(p)

\* What an admission that holds the lease knows when it joins the human.
AdmitterOK ==
    \A p \in Admits : lease = p /\ adm[p].pc = "join" => AdmissionRemovalAllowed(adm[p].link)

\* A session carries the generation its confirm read; an agent is invited after it is owned.
ConfirmOK ==
    \A a \in Agents :
        /\ con[a].pc \in {"after", "memberAfter", "own", "sealed", "invited"} =>
              token[a].gen = con[a].gen
        /\ con[a].pc \in {"sealed", "invited"} => a \in owned
        /\ a \in inRoom => a \in owned

\* A completed removal let none of its agents escape.
NoneEscaped == removal.entry.complete => \A a \in removal.entry.agents : ~Escaped(a)

Inv ==
    /\ TypeOK
    /\ removal.entry.gen = removal.gen
    /\ RemoverOK
    /\ AdmitterOK
    /\ ConfirmOK
    /\ NoneEscaped
    /\ OldLinksStayDead
    /\ AgentsLeaveWithHuman
-----------------------------------------------------------------------------
(* What holds of the runs that do not take a step *)

Removal == [gen : Gens, entry : [gen : Gens, agents : SUBSET Agents, complete : BOOLEAN]]
Remover == [pc : RemoveSteps, human : BOOLEAN, agents : SUBSET Agents,
            members : SUBSET Agents, todo : SUBSET Agents, gen : Gens]
Admitter == [pc : AdmitSteps, link : Links]
Confirmer == [pc : ConfirmSteps, gen : Gens]

\* The type invariant with the runs' records named.
LEMMA Types ==
    ASSUME Inv
    PROVE  /\ removal \in Removal
           /\ rem \in [Removers -> Remover]
           /\ adm \in [Admits -> Admitter]
           /\ con \in [Agents -> Confirmer]
  BY DEF Inv, TypeOK, Removal, Remover, Admitter, Confirmer

\* A step adds no agent to the room unless the human is there, and lets none escape.
Harmless ==
    /\ inRoom' \subseteq inRoom \/ human = "join"
    /\ \A a \in Agents : Escaped(a)' => Escaped(a)

\* What the runs other than q may count on: only the lease holder acts on the removal
\* and on the human, and nobody but q gets the lease.
StepOf(q) ==
    /\ lease' \in {lease, None, q}
    /\ lease # q => UNCHANGED <<human, removal>> /\ Harmless

\* A removal that holds the lease knows what it knew before another run's step.
LEMMA RemoversKept ==
    ASSUME Inv, NEW q, StepOf(q), \A p \in Removers \ {q} : rem'[p] = rem[p]
    PROVE  \A p \in Removers \ {q} : lease' = p => RemoverKnows(p)'
<1> SUFFICES ASSUME NEW p \in Removers, p # q, lease' = p
             PROVE  RemoverKnows(p)'
  OBVIOUS
<1>1. lease = p /\ lease # q
  BY NoneAssumption DEF StepOf
<1>2. UNCHANGED <<human, removal>> /\ Harmless
  BY <1>1 DEF StepOf
<1>3. RemoverKnows(p) /\ rem'[p] = rem[p]
  BY <1>1 DEF Inv, RemoverOK
<1>4. removal.entry.agents \subseteq Agents
  BY DEF Inv, TypeOK
<1>5. \A a \in removal.entry.agents \ rem[p].todo : ~Escaped(a) => ~Escaped(a)'
  BY <1>2, <1>4 DEF Harmless
<1> HIDE DEF Escaped
<1> QED
  BY <1>2, <1>3, <1>5 DEF RemoverKnows, RoomForGen, Harmless

\* So does an admission.
LEMMA AdmittersKept ==
    ASSUME Inv, NEW q, StepOf(q), \A p \in Admits \ {q} : adm'[p] = adm[p]
    PROVE  \A p \in Admits \ {q} :
              lease' = p /\ adm'[p].pc = "join" => AdmissionRemovalAllowed(adm[p].link)'
<1> SUFFICES ASSUME NEW p \in Admits, p # q, lease' = p, adm'[p].pc = "join"
             PROVE  AdmissionRemovalAllowed(adm[p].link)'
  OBVIOUS
<1>1. lease = p /\ lease # q
  BY NoneAssumption DEF StepOf
<1>2. removal' = removal
  BY <1>1 DEF StepOf
<1>3. AdmissionRemovalAllowed(adm[p].link) /\ adm'[p] = adm[p]
  BY <1>1 DEF Inv, AdmitterOK
<1> QED
  BY <1>2, <1>3 DEF AdmissionRemovalAllowed, Removed

\* The promises survive a step that leaves the removal and the human alone.
LEMMA PromisesKept ==
    ASSUME Inv, UNCHANGED <<human, removal, admitted>>, Harmless
    PROVE  NoneEscaped' /\ OldLinksStayDead' /\ AgentsLeaveWithHuman'
<1>1. removal.entry.agents \subseteq Agents /\ removal.entry.gen \in Gens /\ admitted.gen \in Gens
  BY DEF Inv, TypeOK, Links
<1>2. NoneEscaped'
  BY <1>1 DEF Inv, NoneEscaped, Harmless
<1>3. OldLinksStayDead'
  BY DEF Inv, OldLinksStayDead, Removed
<1>4. AgentsLeaveWithHuman'
  BY <1>1 DEF Inv, OldLinksStayDead, AgentsLeaveWithHuman, Removed, Harmless, Gens
<1> QED
  BY <1>2, <1>3, <1>4

\* A step that touches no confirm and adds no agent to the room.
LEMMA ConfirmsKept ==
    ASSUME Inv, UNCHANGED <<con, owned>>, inRoom' \subseteq inRoom,
           \A a \in Agents : token'[a].gen = token[a].gen
    PROVE  ConfirmOK'
  BY DEF Inv, ConfirmOK

-----------------------------------------------------------------------------
(* removeHuman *)

\* A removal's step that leaves the removal record, the human, the room and the tokens alone.
LEMMA RemoverQuiet ==
    ASSUME Inv, NEW p \in Removers, NEW x \in Remover, rem' = [rem EXCEPT ![p] = x],
           UNCHANGED <<human, inRoom, registered, removal, bound, owned, token, adm, con, admitted>>,
           faults' \in 0..MaxFaults,
           lease' \in {lease, None, p},
           lease' = p => RemoverKnows(p)'
    PROVE  Inv'
<1>1. rem'[p] = x /\ (\A q \in Removers \ {p} : rem'[q] = rem[q])
      /\ rem' \in [Removers -> Remover]
  BY DEF Inv, TypeOK, Remover
<1>2. TypeOK'
  BY <1>1 DEF Inv, TypeOK, Remover
<1>3. Harmless /\ StepOf(p)
  BY DEF Harmless, StepOf, Escaped
<1>4. RemoverOK'
  BY <1>1, <1>3, RemoversKept DEF RemoverOK
<1>5. AdmitterOK'
  BY <1>3, AdmittersKept, RunsAssumption DEF AdmitterOK
<1>6. ConfirmOK'
  BY ConfirmsKept
<1>7. NoneEscaped' /\ OldLinksStayDead' /\ AgentsLeaveWithHuman'
  BY <1>3, PromisesKept
<1> QED
  BY <1>2, <1>4, <1>5, <1>6, <1>7 DEF Inv

LEMMA IdleRemoverType == IdleRemover \in Remover /\ IdleRemover.pc = "idle"
  BY BoundsAssumption DEF IdleRemover, Remover, RemoveSteps, Gens

\* A removal that ends without another word.
LEMMA RemoverEnds ==
    ASSUME Inv, NEW p \in Removers, rem' = [rem EXCEPT ![p] = IdleRemover],
           lease' \in {lease, None}, faults' \in 0..MaxFaults,
           UNCHANGED <<human, inRoom, registered, removal, bound, owned, token, adm, con, admitted>>
    PROVE  Inv'
<1>1. rem'[p].pc = "idle"
  BY IdleRemoverType DEF Inv, TypeOK
<1>2. RemoverKnows(p)'
  BY <1>1 DEF RemoverKnows
<1> QED
  BY <1>2, IdleRemoverType, RemoverQuiet

LEMMA LeaseLostInv ==
    ASSUME Inv, NEW p \in Removers, LeaseLost(p)
    PROVE  Inv'
<1>1. faults' \in 0..MaxFaults /\ lease' \in {lease, None}
  BY DEF LeaseLost, RemoveOnly, RemoveReturns, Release, Inv, TypeOK
<1> QED
  BY <1>1, RemoverEnds DEF LeaseLost, RemoveOnly, RemoveReturns

LEMMA RemoveFailsInv ==
    ASSUME Inv, NEW p \in Removers, RemoveFails(p)
    PROVE  Inv'
<1>1. faults' \in 0..MaxFaults /\ lease' \in {lease, None}
  BY BoundsAssumption DEF RemoveFails, Fault, Release, Inv, TypeOK
<1> QED
  BY <1>1, RemoverEnds DEF RemoveFails

LEMMA RemoveBeginInv ==
    ASSUME Inv, NEW p \in Removers, RemoveBegin(p)
    PROVE  Inv'
<1> DEFINE x == [rem[p] EXCEPT !.pc = "roster"]
<1>1. x \in Remover /\ x.pc = "roster"
  BY Types DEF Remover, RemoveSteps
<1>2. rem' = [rem EXCEPT ![p] = x] /\ rem'[p] = x
  <2>1. rem' = [rem EXCEPT ![p] = x]
    BY DEF RemoveBegin, RemoveTo
  <2> QED
    BY <2>1 DEF Inv, TypeOK
<1>3. RemoverKnows(p)'
  BY <1>1, <1>2 DEF RemoveBegin, RemoverKnows, RoomForGen
<1> HIDE DEF x
<1>4. faults' \in 0..MaxFaults
  BY DEF RemoveBegin, RemoveOnly, Inv, TypeOK
<1> QED
  BY <1>1, <1>2, <1>3, <1>4, RemoverQuiet DEF RemoveBegin, RemoveOnly, Acquire

\* The roster tells whether the human is there; with the lease, it stays so.
LEMMA RemoveRosterInv ==
    ASSUME Inv, NEW p \in Removers, RemoveRoster(p)
    PROVE  Inv'
<1>1. faults' \in 0..MaxFaults
  BY DEF RemoveRoster, RemoveOnly, Inv, TypeOK
<1>2. CASE human # "join" /\ removal.entry.complete
  <2>1. lease' \in {lease, None}
    BY <1>2 DEF RemoveRoster, RemoveReturns, Release
  <2> QED
    BY <1>1, <1>2, <2>1, RemoverEnds DEF RemoveRoster, RemoveOnly, RemoveReturns
<1>3. CASE ~(human # "join" /\ removal.entry.complete)
  <2> DEFINE x == [rem[p] EXCEPT !.pc = "bindings", !.human = (human = "join"), !.members = inRoom]
  <2>1. x \in Remover /\ x.pc = "bindings" /\ x.human = (human = "join")
    <3>1. inRoom \in SUBSET Agents /\ rem[p] \in Remover
      BY Types DEF Inv, TypeOK
    <3> QED
      BY <3>1 DEF Remover, RemoveSteps
  <2>2. rem' = [rem EXCEPT ![p] = x] /\ rem'[p] = x
    <3>1. rem' = [rem EXCEPT ![p] = x]
      BY <1>3 DEF RemoveRoster
    <3> QED
      BY <3>1 DEF Inv, TypeOK
  <2> HIDE DEF x
  <2>3. lease' = p => RemoverKnows(p)'
    BY <1>3, <2>1, <2>2 DEF RemoveRoster, RemoverKnows, RoomForGen, Inv, RemoverOK
  <2> QED
    BY <1>1, <1>3, <2>1, <2>2, <2>3, RemoverQuiet DEF RemoveRoster, RemoveOnly
<1> QED
  BY <1>2, <1>3

LEMMA RemoveBindingsInv ==
    ASSUME Inv, NEW p \in Removers, RemoveBindings(p)
    PROVE  Inv'
<1> DEFINE x == [rem[p] EXCEPT !.pc = "collect", !.agents = bound]
<1>1. x \in Remover /\ x.pc = "collect" /\ x.human = rem[p].human
  <2>1. bound \in SUBSET Agents /\ rem[p] \in Remover
    BY Types DEF Inv, TypeOK
  <2> QED
    BY <2>1 DEF Remover, RemoveSteps
<1>2. rem' = [rem EXCEPT ![p] = x] /\ rem'[p] = x
  <2>1. rem' = [rem EXCEPT ![p] = x]
    BY DEF RemoveBindings
  <2> QED
    BY <2>1 DEF Inv, TypeOK
<1> HIDE DEF x
<1>3. lease' = p => RemoverKnows(p)'
  BY <1>1, <1>2 DEF RemoveBindings, RemoverKnows, RoomForGen, Inv, RemoverOK
<1>4. faults' \in 0..MaxFaults
  BY DEF RemoveBindings, RemoveOnly, Inv, TypeOK
<1> QED
  BY <1>1, <1>2, <1>3, <1>4, RemoverQuiet DEF RemoveBindings, RemoveOnly

\* Collected after the ban, the agents are all that are in the room: each is owned.
LEMMA RemoveCollectInv ==
    ASSUME Inv, NEW p \in Removers, RemoveCollect(p)
    PROVE  Inv'
<1> DEFINE members == rem[p].members \cup inRoom
           next == IF rem[p].pc = "collect" THEN "record" ELSE "rerecord"
           x == [rem[p] EXCEPT !.pc = next, !.members = members,
                               !.agents = rem[p].agents \cup (members \cap owned)]
<1>1. x \in Remover /\ x.pc = next /\ x.human = rem[p].human /\ x.members = members
      /\ x.agents = rem[p].agents \cup (members \cap owned)
  <2>1. rem[p] \in Remover
    BY Types
  <2>2. members \in SUBSET Agents /\ rem[p].agents \cup (members \cap owned) \in SUBSET Agents
    BY <2>1 DEF Inv, TypeOK, Remover
  <2> HIDE DEF members
  <2> QED
    BY <2>1, <2>2 DEF Remover, RemoveSteps
<1>2. rem' = [rem EXCEPT ![p] = x] /\ rem'[p] = x
  <2>1. rem' = [rem EXCEPT ![p] = x]
    BY DEF RemoveCollect
  <2> QED
    BY <2>1 DEF Inv, TypeOK
<1> HIDE DEF x
<1>3. inRoom \subseteq x.agents \cap x.members
  BY <1>1 DEF Inv, ConfirmOK, TypeOK
<1>4. lease' = p => RemoverKnows(p)'
  BY <1>1, <1>2, <1>3 DEF RemoveCollect, RemoverKnows, RoomForGen, Inv, RemoverOK
<1>5. faults' \in 0..MaxFaults
  BY DEF RemoveCollect, RemoveOnly, Inv, TypeOK
<1> QED
  BY <1>1, <1>2, <1>4, <1>5, RemoverQuiet DEF RemoveCollect, RemoveOnly

\* What the holder of the lease does, it does alone.
LEMMA RemoverActs ==
    ASSUME Inv, NEW p \in Removers, lease = p, lease' \in {p, None},
           NEW x \in Remover, rem' = [rem EXCEPT ![p] = x],
           UNCHANGED <<registered, bound, owned, adm, con, admitted, faults>>,
           human' \in {"join", "leave", "ban"},
           removal' \in Removal, removal'.entry.gen = removal'.gen,
           inRoom' \subseteq inRoom,
           token' \in [Agents -> [gen : Gens, live : BOOLEAN]],
           \A a \in Agents : token'[a].gen = token[a].gen,
           lease' = p => RemoverKnows(p)',
           NoneEscaped', OldLinksStayDead', AgentsLeaveWithHuman'
    PROVE  Inv'
<1>1. (\A q \in Removers \ {p} : rem'[q] = rem[q]) /\ rem' \in [Removers -> Remover]
  BY Types
<1>2. TypeOK'
  BY <1>1 DEF Inv, TypeOK, Remover, Removal
<1>3. StepOf(p)
  BY DEF StepOf
<1>4. RemoverOK'
  BY <1>1, <1>3, RemoversKept DEF RemoverOK
<1>5. AdmitterOK'
  BY <1>3, AdmittersKept, RunsAssumption DEF AdmitterOK
<1>6. ConfirmOK'
  BY ConfirmsKept
<1> QED
  BY <1>2, <1>4, <1>5, <1>6 DEF Inv

\* A recorded removal is under way, with all agents recorded so far; it has the next
\* generation, or the one of the removal that was under way.
LEMMA Recorded ==
    ASSUME Inv, NEW S \in SUBSET Agents, RecordRemoval(S), RoomForGen
    PROVE  /\ removal' \in Removal
           /\ removal'.entry.gen = removal'.gen
           /\ ~removal'.entry.complete
           /\ S \subseteq removal'.entry.agents
<1>1. removal \in Removal /\ removal.gen \in Nat /\ removal.gen \in 0..MaxGen
      /\ removal.entry.gen \in 0..MaxGen
  BY Types DEF Removal, Gens
<1>2. removal.entry.complete => ~(Removed /\ ~removal.entry.complete)
  OBVIOUS
<1>3. ~removal.entry.complete => Removed
  BY DEF Removed, NoEntry
<1> DEFINE gen == IF Removed /\ ~removal.entry.complete THEN removal.entry.gen ELSE removal.gen + 1
           all == removal.entry.agents \cup S
<1>4. gen \in Gens
  BY <1>1, <1>2, <1>3, BoundsAssumption DEF RoomForGen, Gens
<1>5. all \in SUBSET Agents
  BY <1>1 DEF Removal
<1>6. removal' = [gen |-> gen, entry |-> [gen |-> gen, complete |-> FALSE, agents |-> all]]
  BY DEF RecordRemoval
<1>7. S \subseteq all
  OBVIOUS
<1> HIDE DEF gen, all
<1> QED
  BY <1>4, <1>5, <1>6, <1>7 DEF Removal

\* Nothing is promised of a removal that is under way.
LEMMA UnderWay ==
    ASSUME ~removal'.entry.complete
    PROVE  NoneEscaped' /\ OldLinksStayDead' /\ AgentsLeaveWithHuman'
  BY DEF NoneEscaped, OldLinksStayDead, AgentsLeaveWithHuman

LEMMA RemoveRecordInv ==
    ASSUME Inv, NEW p \in Removers, RemoveRecord(p)
    PROVE  Inv'
<1>1. CASE LeaseLost(p)
  BY <1>1, LeaseLostInv
<1>2. CASE ~LeaseLost(p)
  <2> DEFINE x == [rem[p] EXCEPT !.pc = "ban"]
  <2>1. rem[p].pc = "record" /\ lease = p /\ lease' = p
        /\ UNCHANGED <<registered, bound, owned, adm, con, admitted, faults, human, inRoom, token>>
    BY <1>2 DEF RemoveRecord, Holds, RemoveOnly
  <2>2. rem' = [rem EXCEPT ![p] = x]
    BY <1>2 DEF RemoveRecord, RemoveTo
  <2>3. rem[p] \in Remover /\ x \in Remover /\ x.pc = "ban" /\ x.human = rem[p].human
    BY Types DEF Remover, RemoveSteps
  <2> HIDE DEF x
  <2>4. rem'[p] = x
    BY <2>2, Types
  <2>5. RemoverKnows(p)
    BY <2>1 DEF Inv, RemoverOK
  <2>6. removal' \in Removal /\ removal'.entry.gen = removal'.gen /\ ~removal'.entry.complete
    <3>1. CASE rem[p].human
      <4>1. RecordRemoval(rem[p].agents) /\ RoomForGen /\ rem[p].agents \in SUBSET Agents
        BY <1>2, <2>1, <2>3, <2>5, <3>1 DEF RemoveRecord, RemoverKnows, Remover
      <4> QED
        BY <4>1, Recorded
    <3>2. CASE ~rem[p].human
      BY <1>2, <2>1, <2>5, <3>2, Types DEF RemoveRecord, RemoverKnows, Inv
    <3> QED
      BY <3>1, <3>2
  <2>7. RemoverKnows(p)'
    BY <2>1, <2>3, <2>4, <2>5, <2>6 DEF RemoverKnows
  <2>8. NoneEscaped' /\ OldLinksStayDead' /\ AgentsLeaveWithHuman'
    BY <2>6, UnderWay
  <2> QED
    BY <2>1, <2>2, <2>3, <2>6, <2>7, <2>8, RemoverActs DEF Inv, TypeOK
<1> QED
  BY <1>1, <1>2

\* The ban, of a human whom the roster had.
LEMMA RemoveBanInv ==
    ASSUME Inv, NEW p \in Removers, RemoveBan(p)
    PROVE  Inv'
<1>1. CASE LeaseLost(p)
  BY <1>1, LeaseLostInv
<1>2. CASE ~LeaseLost(p)
  <2> DEFINE x == [rem[p] EXCEPT !.pc = "recollect"]
  <2>1. /\ rem[p].pc = "ban" /\ lease' = lease /\ (rem[p].human => lease = p)
        /\ human' = IF rem[p].human THEN "ban" ELSE human
        /\ UNCHANGED <<registered, bound, owned, adm, con, admitted, faults, inRoom, removal, token>>
    BY <1>2 DEF RemoveBan, Holds, RemoveOnly
  <2>2. rem' = [rem EXCEPT ![p] = x]
    BY <1>2 DEF RemoveBan, RemoveTo
  <2>3. rem[p] \in Remover /\ x \in Remover /\ x.pc = "recollect"
    BY Types DEF Remover, RemoveSteps
  <2> HIDE DEF x
  <2>4. rem'[p] = x
    BY <2>2, Types
  <2>5. lease = p => RemoverKnows(p) /\ RemoverKnows(p)'
    BY <2>1, <2>3, <2>4 DEF Inv, RemoverOK, RemoverKnows
  <2>6. CASE lease = p
    <3>1. ~removal'.entry.complete
      BY <2>1, <2>5, <2>6 DEF RemoverKnows
    <3>2. human' \in {"join", "leave", "ban"}
      BY <2>1 DEF Inv, TypeOK
    <3>3. NoneEscaped' /\ OldLinksStayDead' /\ AgentsLeaveWithHuman'
      BY <3>1, UnderWay
    <3>4. removal' \in Removal /\ removal'.entry.gen = removal'.gen
      BY <2>1, Types DEF Inv
    <3> QED
      BY <2>1, <2>2, <2>3, <2>5, <2>6, <3>2, <3>3, <3>4, RemoverActs DEF Inv, TypeOK
  <2>7. CASE lease # p
    <3>1. human' = human
      BY <2>1, <2>7
    <3>2. faults' \in 0..MaxFaults
      BY <2>1 DEF Inv, TypeOK
    <3> QED
      BY <2>1, <2>2, <2>3, <2>7, <3>1, <3>2, RemoverQuiet
  <2> QED
    BY <2>6, <2>7
<1> QED
  BY <1>1, <1>2

\* The agents to revoke are all of the record's, those in the room among them.
LEMMA RemoveRerecordInv ==
    ASSUME Inv, NEW p \in Removers, RemoveRerecord(p)
    PROVE  Inv'
<1>1. CASE LeaseLost(p)
  BY <1>1, LeaseLostInv
<1>2. CASE ~LeaseLost(p)
  <2> DEFINE x == [rem[p] EXCEPT !.pc = "revoke", !.todo = removal'.entry.agents,
                                 !.gen = removal'.entry.gen]
  <2>1. /\ rem[p].pc = "rerecord" /\ lease = p /\ lease' = p
        /\ RecordRemoval(rem[p].agents)
        /\ UNCHANGED <<registered, bound, owned, adm, con, admitted, faults, human, inRoom, token>>
    BY <1>2 DEF RemoveRerecord, Holds, RemoveOnly
  <2>2. RemoverKnows(p) /\ rem[p] \in Remover
    BY <2>1, Types DEF Inv, RemoverOK
  <2>3. rem[p].agents \in SUBSET Agents /\ RoomForGen
    BY <2>1, <2>2 DEF Remover, RemoverKnows, RoomForGen
  <2>4. /\ removal' \in Removal /\ removal'.entry.gen = removal'.gen
        /\ ~removal'.entry.complete /\ rem[p].agents \subseteq removal'.entry.agents
    BY <2>1, <2>3, Recorded
  <2>5. removal'.entry.agents \in SUBSET Agents /\ removal'.entry.gen \in Gens
    BY <2>4 DEF Removal
  <2>6. /\ x \in Remover /\ x.pc = "revoke" /\ x.todo = removal'.entry.agents
        /\ x.gen = removal'.entry.gen /\ x.members = rem[p].members
    BY <2>2, <2>5 DEF Remover, RemoveSteps
  <2>7. rem' = [rem EXCEPT ![p] = x]
    BY <1>2 DEF RemoveRerecord
  <2> HIDE DEF x
  <2>8. rem'[p] = x
    BY <2>7, Types
  <2>9. RemoverKnows(p)'
    BY <2>1, <2>2, <2>4, <2>6, <2>8 DEF RemoverKnows
  <2>10. NoneEscaped' /\ OldLinksStayDead' /\ AgentsLeaveWithHuman'
    BY <2>4, UnderWay
  <2> QED
    BY <2>1, <2>4, <2>6, <2>7, <2>9, <2>10, RemoverActs DEF Inv, TypeOK
<1> QED
  BY <1>1, <1>2

\* A revoked agent is out of the room and has no live session that escaped.
LEMMA RemoveRevokeInv ==
    ASSUME Inv, NEW p \in Removers, RemoveRevoke(p)
    PROVE  Inv'
<1>1. CASE LeaseLost(p)
  BY <1>1, LeaseLostInv
<1>2. CASE ~LeaseLost(p)
  <2>1. /\ rem[p].pc = "revoke" /\ lease = p
        /\ UNCHANGED <<registered, bound, owned, adm, con, admitted, faults, human, removal>>
    BY <1>2 DEF RemoveRevoke, Holds, RemoveOnly
  <2>2. RemoverKnows(p) /\ rem[p] \in Remover
    BY <2>1, Types DEF Inv, RemoverOK
  <2>3. PICK a \in rem[p].todo :
          \/ /\ inRoom' = inRoom \ (rem[p].members \cap {a})
             /\ token' = [token EXCEPT ![a].live = FALSE]
             /\ rem' = [rem EXCEPT ![p].todo = @ \ {a}]
             /\ lease' = lease
          \/ /\ inRoom' \subseteq inRoom
             /\ RemoveReturns(p) /\ token' = token
    BY <1>2 DEF RemoveRevoke
  <2>4. a \in Agents
    BY <2>2 DEF Remover
  <2>5. inRoom' \subseteq inRoom
    BY <2>3
  <2>6. /\ token' \in [Agents -> [gen : Gens, live : BOOLEAN]]
        /\ \A b \in Agents : token'[b].gen = token[b].gen
    <3>1. token \in [Agents -> [gen : Gens, live : BOOLEAN]]
      BY DEF Inv, TypeOK
    <3>2. CASE token' = token
      BY <3>1, <3>2
    <3>3. CASE token' = [token EXCEPT ![a].live = FALSE]
      <4>1. token' = [token EXCEPT ![a] = [token[a] EXCEPT !.live = FALSE]]
        BY <3>3
      <4>2. [token[a] EXCEPT !.live = FALSE] \in [gen : Gens, live : BOOLEAN]
            /\ [token[a] EXCEPT !.live = FALSE].gen = token[a].gen
        BY <2>4, <3>1
      <4> QED
        BY <2>4, <3>1, <4>1, <4>2
    <3> QED
      BY <2>3, <3>2, <3>3
  <2>7. ~removal'.entry.complete /\ removal' \in Removal /\ removal'.entry.gen = removal'.gen
    BY <2>1, <2>2, Types DEF RemoverKnows, Inv
  <2>8. NoneEscaped' /\ OldLinksStayDead' /\ AgentsLeaveWithHuman'
    BY <2>7, UnderWay
  <2>9. human' \in {"join", "leave", "ban"}
    BY <2>1 DEF Inv, TypeOK
  <2>10. CASE RemoveReturns(p)
    <3>1. rem' = [rem EXCEPT ![p] = IdleRemover] /\ lease' = None
      BY <2>1, <2>10 DEF RemoveReturns, Release
    <3>2. lease' # p
      BY <3>1, NoneAssumption
    <3> QED
      BY <2>1, <2>5, <2>6, <2>7, <2>8, <2>9, <3>1, <3>2, IdleRemoverType, RemoverActs
  <2>11. CASE ~RemoveReturns(p)
    <3> DEFINE x == [rem[p] EXCEPT !.todo = rem[p].todo \ {a}]
    <3>1. /\ inRoom' = inRoom \ (rem[p].members \cap {a})
          /\ token' = [token EXCEPT ![a].live = FALSE]
          /\ rem' = [rem EXCEPT ![p] = x]
          /\ lease' = lease
      BY <2>3, <2>11
    <3>2. /\ x \in Remover /\ x.pc = "revoke" /\ x.todo = rem[p].todo \ {a}
          /\ x.gen = rem[p].gen /\ x.members = rem[p].members
      BY <2>1, <2>2 DEF Remover
    <3> HIDE DEF x
    <3>3. rem'[p] = x
      BY <3>1, Types
    <3>4. inRoom' \subseteq x.todo \cap x.members
      BY <2>1, <2>2, <3>1, <3>2 DEF RemoverKnows
    <3>5. ASSUME NEW b \in removal'.entry.agents \ x.todo
          PROVE  ~Escaped(b)'
      <4>1. b \in Agents
        BY <2>1, Types DEF Removal
      <4>2. CASE b = a
        <5>1. token'[a].live = FALSE
          BY <2>4, <3>1 DEF Inv, TypeOK
        <5> QED
          BY <4>2, <5>1 DEF Escaped
      <4>3. CASE b # a
        <5>1. ~Escaped(b)
          BY <2>1, <2>2, <3>2, <4>3 DEF RemoverKnows
        <5>2. token'[b] = token[b]
          BY <2>4, <3>1, <4>1, <4>3 DEF Inv, TypeOK
        <5> QED
          BY <2>1, <5>1, <5>2 DEF Escaped
      <4> QED
        BY <4>2, <4>3
    <3>6. RemoverKnows(p)'
      BY <2>1, <2>2, <3>2, <3>3, <3>4, <3>5 DEF RemoverKnows
    <3> QED
      BY <2>1, <2>5, <2>6, <2>7, <2>8, <2>9, <3>1, <3>2, <3>6, RemoverActs
  <2> QED
    BY <2>10, <2>11
<1> QED
  BY <1>1, <1>2

\* When nobody is left to revoke, the removal keeps its promises.
LEMMA RemoveCompleteInv ==
    ASSUME Inv, NEW p \in Removers, RemoveComplete(p)
    PROVE  Inv'
<1>1. CASE LeaseLost(p)
  BY <1>1, LeaseLostInv
<1>2. CASE ~LeaseLost(p)
  <2>1. /\ rem[p].pc = "revoke" /\ rem[p].todo = {} /\ lease = p
        /\ UNCHANGED <<registered, bound, owned, adm, con, admitted, faults, human, inRoom, token>>
    BY <1>2 DEF RemoveComplete, Holds, RemoveOnly
  <2>2. RemoverKnows(p) /\ rem[p] \in Remover
    BY <2>1, Types DEF Inv, RemoverOK
  <2>3. rem' = [rem EXCEPT ![p] = IdleRemover] /\ lease' = None /\ lease' # p
    BY <1>2, <2>1, NoneAssumption DEF RemoveComplete, RemoveReturns, Release
  <2>4. removal' = [removal EXCEPT !.entry.complete = TRUE]
    BY <1>2, <2>1, <2>2 DEF RemoveComplete, RemoverKnows
  <2>5. /\ removal' \in Removal
        /\ removal'.gen = removal.gen /\ removal'.entry.gen = removal.entry.gen
        /\ removal'.entry.agents = removal.entry.agents
    BY <2>4, Types DEF Removal
  <2>6. human # "join" /\ inRoom = {}
    BY <2>1, <2>2 DEF RemoverKnows
  <2>7. \A a \in removal.entry.agents : ~Escaped(a)
    BY <2>1, <2>2 DEF RemoverKnows
  <2>8. NoneEscaped'
    BY <2>1, <2>5, <2>7 DEF NoneEscaped, Escaped
  <2>9. OldLinksStayDead' /\ AgentsLeaveWithHuman'
    BY <2>1, <2>6 DEF OldLinksStayDead, AgentsLeaveWithHuman
  <2>10. removal'.entry.gen = removal'.gen
    BY <2>5 DEF Inv
  <2> QED
    BY <2>1, <2>3, <2>5, <2>8, <2>9, <2>10, IdleRemoverType, RemoverActs DEF Inv, TypeOK
<1> QED
  BY <1>1, <1>2

LEMMA RemoveInv ==
    ASSUME Inv, NEW p \in Removers, Remove(p) \/ RemoveFails(p)
    PROVE  Inv'
  BY RemoveBeginInv, RemoveRosterInv, RemoveBindingsInv, RemoveCollectInv, RemoveRecordInv,
     RemoveBanInv, RemoveRerecordInv, RemoveRevokeInv, RemoveCompleteInv, RemoveFailsInv
     DEF Remove

-----------------------------------------------------------------------------
(* gateway.admit *)

\* An admission's step that leaves the human alone.
LEMMA AdmitterQuiet ==
    ASSUME Inv, NEW p \in Admits, AdmitOnly, UNCHANGED <<human, admitted>>,
           NEW x \in Admitter, adm' = [adm EXCEPT ![p] = x],
           lease' \in {lease, None, p}, faults' \in 0..MaxFaults,
           lease' = p /\ x.pc = "join" => AdmissionRemovalAllowed(x.link)
    PROVE  Inv'
<1>1. adm'[p] = x /\ (\A q \in Admits \ {p} : adm'[q] = adm[q]) /\ adm' \in [Admits -> Admitter]
  BY Types
<1>2. TypeOK'
  BY <1>1 DEF AdmitOnly, Inv, TypeOK, Admitter
<1>3. Harmless /\ StepOf(p)
  BY DEF AdmitOnly, Harmless, StepOf, Escaped
<1>4. RemoverOK'
  BY <1>3, RemoversKept, RunsAssumption DEF AdmitOnly, RemoverOK
<1>5. AdmissionRemovalAllowed(x.link) => AdmissionRemovalAllowed(adm[p].link)'
  BY <1>1 DEF AdmitOnly, AdmissionRemovalAllowed, Removed
<1>6. AdmitterOK'
  <2> SUFFICES ASSUME NEW q \in Admits, lease' = q, adm'[q].pc = "join"
               PROVE  AdmissionRemovalAllowed(adm[q].link)'
    BY DEF AdmitterOK
  <2>1. CASE q = p
    BY <1>1, <1>5, <2>1
  <2>2. CASE q # p
    BY <1>1, <1>3, <2>2, AdmittersKept
  <2> QED
    BY <2>1, <2>2
<1>7. ConfirmOK'
  BY ConfirmsKept DEF AdmitOnly
<1>8. NoneEscaped' /\ OldLinksStayDead' /\ AgentsLeaveWithHuman'
  BY <1>3, PromisesKept DEF AdmitOnly
<1>9. removal'.entry.gen = removal'.gen
  BY DEF AdmitOnly, Inv
<1> QED
  BY <1>2, <1>4, <1>6, <1>7, <1>8, <1>9 DEF Inv

\* What an admission that holds the lease does to the human, it does alone.
LEMMA AdmitterActs ==
    ASSUME Inv, NEW p \in Admits, lease = p, lease' \in {p, None}, AdmitOnly,
           NEW x \in Admitter, adm' = [adm EXCEPT ![p] = x],
           human' \in {"join", "leave", "ban"}, admitted' \in Links, faults' = faults,
           x.pc = "join" => AdmissionRemovalAllowed(x.link),
           human' = "join" => AdmissionRemovalAllowed(admitted'),
           admitted' # admitted => human' = "join"
    PROVE  Inv'
<1>1. adm'[p] = x /\ (\A q \in Admits \ {p} : adm'[q] = adm[q]) /\ adm' \in [Admits -> Admitter]
  BY Types
<1>2. TypeOK'
  BY <1>1 DEF AdmitOnly, Inv, TypeOK, Admitter
<1>3. StepOf(p)
  BY DEF StepOf
<1>4. RemoverOK'
  BY <1>3, RemoversKept, RunsAssumption DEF AdmitOnly, RemoverOK
<1>5. AdmissionRemovalAllowed(x.link) => AdmissionRemovalAllowed(adm[p].link)'
  BY <1>1 DEF AdmitOnly, AdmissionRemovalAllowed, Removed
<1>6. AdmitterOK'
  <2> SUFFICES ASSUME NEW q \in Admits, lease' = q, adm'[q].pc = "join"
               PROVE  AdmissionRemovalAllowed(adm[q].link)'
    BY DEF AdmitterOK
  <2>1. CASE q = p
    BY <1>1, <1>5, <2>1
  <2>2. CASE q # p
    BY <1>1, <1>3, <2>2, AdmittersKept
  <2> QED
    BY <2>1, <2>2
<1>7. ConfirmOK'
  BY ConfirmsKept DEF AdmitOnly
<1>8. NoneEscaped'
  BY DEF AdmitOnly, Inv, NoneEscaped, Escaped
<1>9. OldLinksStayDead'
  BY DEF AdmitOnly, AdmissionRemovalAllowed, OldLinksStayDead, Removed
<1>10. AgentsLeaveWithHuman'
  <2>1. removal.entry.gen \in Nat /\ admitted'.gen \in Nat
    BY BoundsAssumption DEF Inv, TypeOK, Links, Gens
  <2>2. CASE human' = "join"
    BY <2>1, <2>2 DEF AdmitOnly, AdmissionRemovalAllowed, AgentsLeaveWithHuman, Removed
  <2>3. CASE human' # "join"
    BY <2>3 DEF AdmitOnly, AgentsLeaveWithHuman, Inv, Removed
  <2> QED
    BY <2>2, <2>3
<1>11. removal'.entry.gen = removal'.gen
  BY DEF AdmitOnly, Inv
<1> QED
  BY <1>2, <1>4, <1>6, <1>7, <1>8, <1>9, <1>10, <1>11 DEF Inv

\* An admission moves to another step with the link it has.
LEMMA AdmitMoves ==
    ASSUME Inv, NEW p \in Admits, NEW step \in AdmitSteps, AdmitTo(p, step)
    PROVE  \E x \in Admitter :
              adm' = [adm EXCEPT ![p] = x] /\ x.pc = step /\ x.link = adm[p].link
<1> DEFINE x == [adm[p] EXCEPT !.pc = step]
<1>1. x \in Admitter /\ x.pc = step /\ x.link = adm[p].link
  BY Types DEF Admitter
<1>2. adm' = [adm EXCEPT ![p] = x]
  BY DEF AdmitTo
<1> HIDE DEF x
<1> QED
  BY <1>1, <1>2

\* An admission that moves to a step other than the join, and does nothing else.
LEMMA AdmitterMovesOn ==
    ASSUME Inv, NEW p \in Admits, AdmitOnly, UNCHANGED <<human, admitted>>,
           NEW step \in AdmitSteps \ {"join"}, AdmitTo(p, step),
           lease' \in {lease, None}, faults' \in 0..MaxFaults
    PROVE  Inv'
<1>1. PICK x \in Admitter :
         adm' = [adm EXCEPT ![p] = x] /\ x.pc = step /\ x.link = adm[p].link
  BY AdmitMoves
<1> QED
  BY <1>1, AdmitterQuiet

LEMMA AdmitBeginInv ==
    ASSUME Inv, NEW p \in Admits, AdmitBegin(p)
    PROVE  Inv'
<1>1. PICK link \in Links : adm' = [adm EXCEPT ![p] = [pc |-> "check", link |-> link]]
  BY DEF AdmitBegin
<1> DEFINE x == [pc |-> "check", link |-> link]
<1>2. x \in Admitter /\ x.pc = "check"
  BY DEF Admitter, AdmitSteps
<1>3. adm' = [adm EXCEPT ![p] = x]
  BY <1>1
<1> HIDE DEF x
<1>4. faults' \in 0..MaxFaults /\ lease' = p /\ UNCHANGED <<human, admitted>> /\ AdmitOnly
  BY DEF AdmitBegin, Acquire, Inv, TypeOK
<1> QED
  BY <1>2, <1>3, <1>4, AdmitterQuiet

\* An admission goes on to the join only by a link that may be used.
LEMMA AdmitCheckInv ==
    ASSUME Inv, NEW p \in Admits, AdmitCheck(p)
    PROVE  Inv'
<1>1. AdmitOnly /\ UNCHANGED <<human, admitted>> /\ faults' \in 0..MaxFaults
  BY DEF AdmitCheck, Inv, TypeOK
<1>2. CASE \E answer \in {"forbidden", "joined"} : AdmitReturns(p, answer)
  <2>1. PICK answer \in {"forbidden", "joined"} : AdmitReturns(p, answer)
    BY <1>2
  <2>2. AdmitTo(p, answer) /\ lease' \in {lease, None} /\ answer \in AdmitSteps \ {"join"}
    BY <2>1 DEF AdmitReturns, Release, AdmitSteps
  <2> QED
    BY <1>1, <2>2, AdmitterMovesOn
<1>3. CASE ~\E answer \in {"forbidden", "joined"} : AdmitReturns(p, answer)
  <2>1. PICK step \in {"unban", "join"} : AdmitTo(p, step)
    BY <1>3 DEF AdmitCheck
  <2>2. AdmissionRemovalAllowed(adm[p].link) /\ lease' = lease /\ step \in AdmitSteps
    BY <1>3 DEF AdmitCheck, AdmitSteps
  <2>3. PICK x \in Admitter :
           adm' = [adm EXCEPT ![p] = x] /\ x.pc = step /\ x.link = adm[p].link
    BY <2>1, <2>2, AdmitMoves
  <2> QED
    BY <1>1, <2>2, <2>3, AdmitterQuiet
<1> QED
  BY <1>2, <1>3

LEMMA AdmitUnbanInv ==
    ASSUME Inv, NEW p \in Admits, AdmitUnban(p)
    PROVE  Inv'
<1>1. AdmitOnly /\ UNCHANGED <<admitted, faults>> /\ faults' \in 0..MaxFaults
  BY DEF AdmitUnban, Inv, TypeOK
<1>2. CASE /\ human' = human
           /\ \E answer \in {"forbidden", "unavailable"} : AdmitReturns(p, answer)
  <2>1. PICK answer \in {"forbidden", "unavailable"} : AdmitReturns(p, answer)
    BY <1>2
  <2>2. AdmitTo(p, answer) /\ lease' \in {lease, None} /\ answer \in AdmitSteps \ {"join"}
    BY <2>1 DEF AdmitReturns, Release, AdmitSteps
  <2> QED
    BY <1>1, <1>2, <2>2, AdmitterMovesOn
<1>3. CASE /\ AdmissionRemovalAllowed(adm[p].link) /\ Holds(p)
           /\ human' = "leave" /\ AdmitTo(p, "join") /\ UNCHANGED lease
  <2>1. PICK x \in Admitter :
           adm' = [adm EXCEPT ![p] = x] /\ x.pc = "join" /\ x.link = adm[p].link
    BY <1>3, AdmitMoves DEF AdmitSteps
  <2>2. admitted' \in Links
    BY <1>1 DEF Inv, TypeOK
  <2> QED
    BY <1>1, <1>3, <2>1, <2>2, AdmitterActs DEF Holds
<1> QED
  BY <1>2, <1>3 DEF AdmitUnban, AdmitLeaseLost

\* The human joins by a link that may be used, since the lease was held from the check on.
LEMMA AdmitJoinInv ==
    ASSUME Inv, NEW p \in Admits, AdmitJoin(p)
    PROVE  Inv'
<1>1. AdmitOnly /\ faults' = faults /\ faults' \in 0..MaxFaults
  BY DEF AdmitJoin, AdmitLeaseLost, Inv, TypeOK
<1>2. CASE /\ UNCHANGED <<human, admitted>>
           /\ \E answer \in {"forbidden", "unavailable"} : AdmitReturns(p, answer)
  <2>1. PICK answer \in {"forbidden", "unavailable"} : AdmitReturns(p, answer)
    BY <1>2
  <2>2. AdmitTo(p, answer) /\ lease' \in {lease, None} /\ answer \in AdmitSteps \ {"join"}
    BY <2>1 DEF AdmitReturns, Release, AdmitSteps
  <2> QED
    BY <1>1, <1>2, <2>2, AdmitterMovesOn
<1>3. CASE /\ Holds(p) /\ human' = "join" /\ admitted' = adm[p].link
           /\ AdmitTo(p, "recheck") /\ UNCHANGED lease
  <2>1. PICK x \in Admitter :
           adm' = [adm EXCEPT ![p] = x] /\ x.pc = "recheck" /\ x.link = adm[p].link
    BY <1>3, AdmitMoves DEF AdmitSteps
  <2>2. admitted' \in Links
    BY <1>3, Types DEF Admitter
  <2>3. AdmissionRemovalAllowed(admitted')
    BY <1>3 DEF AdmitJoin, Holds, Inv, AdmitterOK
  <2> QED
    BY <1>1, <1>3, <2>1, <2>2, <2>3, AdmitterActs DEF Holds
<1> QED
  BY <1>2, <1>3 DEF AdmitJoin, AdmitLeaseLost

LEMMA AdmitRecheckInv ==
    ASSUME Inv, NEW p \in Admits, AdmitRecheck(p)
    PROVE  Inv'
<1>1. AdmitOnly /\ UNCHANGED <<human, admitted>>
  BY DEF AdmitRecheck
<1>2. faults' \in 0..MaxFaults
  BY BoundsAssumption DEF AdmitRecheck, Fault, Inv, TypeOK
<1>3. PICK step \in {"joined", "undo"} : AdmitTo(p, step) /\ lease' \in {lease, None}
  BY DEF AdmitRecheck, AdmitReturns, Release
<1>4. step \in AdmitSteps \ {"join"}
  BY DEF AdmitSteps
<1> QED
  BY <1>1, <1>2, <1>3, <1>4, AdmitterMovesOn

LEMMA AdmitUndoInv ==
    ASSUME Inv, NEW p \in Admits, AdmitUndo(p)
    PROVE  Inv'
<1>1. AdmitOnly /\ UNCHANGED <<admitted, faults>> /\ faults' \in 0..MaxFaults
  BY DEF AdmitUndo, AdmitLeaseLost, Inv, TypeOK
<1>2. CASE AdmitLeaseLost(p)
  <2>1. AdmitTo(p, "unavailable") /\ lease' \in {lease, None} /\ human' = human
        /\ "unavailable" \in AdmitSteps \ {"join"}
    BY <1>2 DEF AdmitLeaseLost, AdmitReturns, Release, AdmitSteps
  <2> QED
    BY <1>1, <2>1, AdmitterMovesOn
<1>3. CASE Holds(p) /\ human' = "ban" /\ AdmitReturns(p, "forbidden")
  <2>1. AdmitTo(p, "forbidden") /\ lease = p /\ lease' = None
    BY <1>3 DEF AdmitReturns, Release, Holds
  <2>2. PICK x \in Admitter :
           adm' = [adm EXCEPT ![p] = x] /\ x.pc = "forbidden" /\ x.link = adm[p].link
    BY <2>1, AdmitMoves DEF AdmitSteps
  <2>3. admitted' \in Links
    BY <1>1 DEF Inv, TypeOK
  <2> QED
    BY <1>1, <1>3, <2>1, <2>2, <2>3, AdmitterActs
<1> QED
  BY <1>2, <1>3 DEF AdmitUndo

LEMMA AdmitFailsInv ==
    ASSUME Inv, NEW p \in Admits, AdmitFails(p)
    PROVE  Inv'
<1>1. AdmitOnly /\ UNCHANGED <<human, admitted>> /\ AdmitTo(p, "unavailable")
  BY DEF AdmitFails
<1>2. faults' \in 0..MaxFaults /\ lease' \in {lease, None}
  BY BoundsAssumption DEF AdmitFails, Fault, Release, Inv, TypeOK
<1>3. "unavailable" \in AdmitSteps \ {"join"}
  BY DEF AdmitSteps
<1> QED
  BY <1>1, <1>2, <1>3, AdmitterMovesOn

LEMMA AdmitInv ==
    ASSUME Inv, NEW p \in Admits, Admit(p) \/ AdmitFails(p)
    PROVE  Inv'
  BY AdmitBeginInv, AdmitCheckInv, AdmitUnbanInv, AdmitJoinInv, AdmitRecheckInv, AdmitUndoInv,
     AdmitFailsInv DEF Admit

-----------------------------------------------------------------------------
(* confirm *)

\* What has to be shown of a step that a confirm takes.
LEMMA ConfirmerActs ==
    ASSUME Inv, NEW a \in Agents, NEW x \in Confirmer, con' = [con EXCEPT ![a] = x],
           UNCHANGED <<human, removal, lease, rem, adm, admitted>>,
           faults' \in 0..MaxFaults,
           registered' \subseteq Agents, bound' \subseteq Agents, owned' \subseteq Agents,
           owned \subseteq owned', inRoom' \subseteq inRoom \cup owned,
           inRoom' \subseteq inRoom \/ human = "join",
           token' \in [Agents -> [gen : Gens, live : BOOLEAN]],
           \A b \in Agents \ {a} : token'[b] = token[b],
           Escaped(a)' => Escaped(a),
           x.pc \in {"after", "memberAfter", "own", "sealed", "invited"} => token'[a].gen = x.gen,
           x.pc \in {"sealed", "invited"} => a \in owned'
    PROVE  Inv'
<1>1. con'[a] = x /\ (\A b \in Agents \ {a} : con'[b] = con[b]) /\ con' \in [Agents -> Confirmer]
  BY Types
<1>2. TypeOK'
  BY <1>1 DEF Inv, TypeOK, Confirmer
<1>3. Harmless
  <2>1. \A b \in Agents \ {a} : Escaped(b)' => Escaped(b)
    BY <1>1 DEF Escaped
  <2> HIDE DEF Escaped
  <2> QED
    BY <2>1 DEF Harmless
<1>4. StepOf(None)
  BY <1>3 DEF StepOf
<1>5. RemoverOK'
  BY <1>4, RemoversKept, NoneAssumption DEF RemoverOK
<1>6. AdmitterOK'
  BY <1>4, AdmittersKept, NoneAssumption DEF AdmitterOK
<1>7. NoneEscaped' /\ OldLinksStayDead' /\ AgentsLeaveWithHuman'
  BY <1>3, PromisesKept
<1>8. ConfirmOK'
  <2> SUFFICES ASSUME NEW b \in Agents
               PROVE  /\ con'[b].pc \in {"after", "memberAfter", "own", "sealed", "invited"} =>
                            token'[b].gen = con'[b].gen
                      /\ con'[b].pc \in {"sealed", "invited"} => b \in owned'
                      /\ b \in inRoom' => b \in owned'
    BY DEF ConfirmOK
  <2>1. b \in inRoom' => b \in owned'
    BY DEF Inv, ConfirmOK
  <2>2. CASE b = a
    BY <1>1, <2>1, <2>2
  <2>3. CASE b # a
    BY <1>1, <2>1, <2>3 DEF Inv, ConfirmOK
  <2> QED
    BY <2>2, <2>3
<1> QED
  BY <1>2, <1>5, <1>6, <1>7, <1>8 DEF Inv

\* A confirm moves to another step with the generation it has.
LEMMA ConfirmMoves ==
    ASSUME Inv, NEW a \in Agents, NEW step \in ConfirmSteps, ConfirmTo(a, step)
    PROVE  \E x \in Confirmer :
              con' = [con EXCEPT ![a] = x] /\ x.pc = step /\ x.gen = con[a].gen /\ con'[a] = x
<1> DEFINE x == [con[a] EXCEPT !.pc = step]
<1>1. x \in Confirmer /\ x.pc = step /\ x.gen = con[a].gen
  BY Types DEF Confirmer
<1>2. con' = [con EXCEPT ![a] = x]
  BY DEF ConfirmTo
<1> HIDE DEF x
<1>3. con'[a] = x
  BY <1>2, Types
<1> QED
  BY <1>1, <1>2, <1>3

\* The steps that only move on, none of them past the check of the removals.
LEMMA ConfirmerMovesOn ==
    ASSUME Inv, NEW a \in Agents, NEW step \in ConfirmSteps, ConfirmTo(a, step),
           step \notin {"memberAfter", "own", "sealed", "invited", "after"},
           UNCHANGED <<human, removal, lease, rem, adm, admitted, inRoom, registered, owned, token>>,
           bound' \subseteq Agents, faults' \in 0..MaxFaults
    PROVE  Inv'
<1>1. PICK x \in Confirmer :
         con' = [con EXCEPT ![a] = x] /\ x.pc = step /\ x.gen = con[a].gen /\ con'[a] = x
  BY ConfirmMoves
<1>2. ~Escaped(a)'
  BY <1>1 DEF Escaped
<1> QED
  BY <1>1, <1>2, ConfirmerActs DEF Inv, TypeOK

LEMMA ConfirmMemberInv ==
    ASSUME Inv, NEW a \in Agents, ConfirmMember(a)
    PROVE  Inv'
<1>1. PICK step \in {"before", "not_member"} : ConfirmTo(a, step)
  BY DEF ConfirmMember
<1>2. step \in ConfirmSteps
  BY DEF ConfirmSteps
<1> QED
  BY <1>1, <1>2, ConfirmerMovesOn DEF ConfirmMember, ConfirmOnly, Inv, TypeOK

LEMMA ConfirmBeforeInv ==
    ASSUME Inv, NEW a \in Agents, ConfirmBefore(a)
    PROVE  Inv'
<1> DEFINE x == IF removal.entry.complete THEN [pc |-> "bind", gen |-> removal.gen]
                ELSE [pc |-> "unavailable", gen |-> 0]
<1>1. x \in Confirmer /\ x.pc \in {"bind", "unavailable"}
  BY BoundsAssumption DEF Confirmer, ConfirmSteps, Inv, TypeOK, Gens
<1>2. con' = [con EXCEPT ![a] = x]
  BY DEF ConfirmBefore
<1> HIDE DEF x
<1>3. con'[a] = x
  BY <1>2, Types
<1>4. ~Escaped(a)'
  BY <1>1, <1>3 DEF Escaped
<1> QED
  BY <1>1, <1>2, <1>4, ConfirmerActs DEF ConfirmBefore, ConfirmOnly, Inv, TypeOK

LEMMA ConfirmBindInv ==
    ASSUME Inv, NEW a \in Agents, ConfirmBind(a)
    PROVE  Inv'
<1>1. "provision" \in ConfirmSteps /\ bound' \subseteq Agents
  BY DEF ConfirmBind, ConfirmSteps, Inv, TypeOK
<1> QED
  BY <1>1, ConfirmerMovesOn DEF ConfirmBind, ConfirmOnly, Inv, TypeOK

\* The session is issued under the generation that the confirm read.
LEMMA ConfirmProvisionInv ==
    ASSUME Inv, NEW a \in Agents, ConfirmProvision(a)
    PROVE  Inv'
<1>1. PICK x \in Confirmer :
         con' = [con EXCEPT ![a] = x] /\ x.pc = "after" /\ x.gen = con[a].gen /\ con'[a] = x
  BY ConfirmMoves DEF ConfirmProvision, ConfirmSteps
<1>2. ~Escaped(a)'
  BY <1>1 DEF Escaped
<1> DEFINE t == [gen |-> con[a].gen, live |-> TRUE]
<1>3. t \in [gen : Gens, live : BOOLEAN] /\ t.gen = con[a].gen
  BY Types DEF Confirmer
<1>4. token' = [token EXCEPT ![a] = t]
  BY DEF ConfirmProvision
<1> HIDE DEF t
<1>5. /\ token' \in [Agents -> [gen : Gens, live : BOOLEAN]] /\ token'[a] = t
      /\ \A b \in Agents \ {a} : token'[b] = token[b]
  BY <1>3, <1>4 DEF Inv, TypeOK
<1>6. registered' \subseteq Agents
  BY DEF ConfirmProvision, Inv, TypeOK
<1> QED
  BY <1>1, <1>2, <1>3, <1>5, <1>6, ConfirmerActs DEF ConfirmProvision, ConfirmOnly, Inv, TypeOK

\* The check after the token was minted: who goes on has a session of this removal or a
\* later one, so it has not escaped.
LEMMA ConfirmAfterInv ==
    ASSUME Inv, NEW a \in Agents, ConfirmAfter(a)
    PROVE  Inv'
<1>1. /\ UNCHANGED <<human, inRoom, registered, removal, lease, bound, owned, token, rem, adm, admitted>>
      /\ con[a].pc = "after"
  BY DEF ConfirmAfter, RecheckTo
<1>2. faults' \in 0..MaxFaults
  BY BoundsAssumption DEF ConfirmAfter, RecheckTo, Fault, Inv, TypeOK
<1>3. CASE ConfirmTo(a, "refuse")
  BY <1>1, <1>2, <1>3, ConfirmerMovesOn DEF ConfirmSteps, Inv, TypeOK
<1>4. CASE ~(removal.entry.gen > con[a].gen) /\ ConfirmTo(a, "memberAfter")
  <2>1. PICK x \in Confirmer :
           con' = [con EXCEPT ![a] = x] /\ x.pc = "memberAfter" /\ x.gen = con[a].gen /\ con'[a] = x
    BY <1>4, ConfirmMoves DEF ConfirmSteps
  <2>2. token'[a].gen = con[a].gen
    BY <1>1 DEF Inv, ConfirmOK
  <2>3. ~Escaped(a)'
    BY <1>1, <1>4, <2>2 DEF Escaped
  <2> QED
    BY <1>1, <1>2, <2>1, <2>2, <2>3, ConfirmerActs DEF Inv, TypeOK
<1> QED
  BY <1>3, <1>4 DEF ConfirmAfter, RecheckTo

LEMMA ConfirmMemberAfterInv ==
    ASSUME Inv, NEW a \in Agents, ConfirmMemberAfter(a)
    PROVE  Inv'
<1>1. /\ UNCHANGED <<human, inRoom, registered, removal, lease, bound, owned, token, rem, adm, admitted>>
      /\ con[a].pc = "memberAfter"
  BY DEF ConfirmMemberAfter, RecheckTo
<1>2. faults' \in 0..MaxFaults
  BY BoundsAssumption DEF ConfirmMemberAfter, RecheckTo, Fault, Inv, TypeOK
<1>3. CASE ConfirmTo(a, "refuse")
  BY <1>1, <1>2, <1>3, ConfirmerMovesOn DEF ConfirmSteps, Inv, TypeOK
<1>4. CASE ConfirmTo(a, "own")
  <2>1. PICK x \in Confirmer :
           con' = [con EXCEPT ![a] = x] /\ x.pc = "own" /\ x.gen = con[a].gen /\ con'[a] = x
    BY <1>4, ConfirmMoves DEF ConfirmSteps
  <2>2. token'[a].gen = con[a].gen
    BY <1>1 DEF Inv, ConfirmOK
  <2>3. Escaped(a)' => Escaped(a)
    BY <1>1 DEF Escaped
  <2> QED
    BY <1>1, <1>2, <2>1, <2>2, <2>3, ConfirmerActs DEF Inv, TypeOK
<1> QED
  BY <1>3, <1>4 DEF ConfirmMemberAfter, RecheckTo

LEMMA ConfirmRefuseInv ==
    ASSUME Inv, NEW a \in Agents, ConfirmRefuse(a)
    PROVE  Inv'
<1>1. PICK x \in Confirmer :
         con' = [con EXCEPT ![a] = x] /\ x.pc = "not_member" /\ x.gen = con[a].gen /\ con'[a] = x
  BY ConfirmMoves DEF ConfirmRefuse, ConfirmSteps
<1>2. ~Escaped(a)'
  BY <1>1 DEF Escaped
<1> DEFINE t == [token[a] EXCEPT !.live = FALSE]
<1>3. t \in [gen : Gens, live : BOOLEAN]
  BY ZenonT(60) DEF Inv, TypeOK
<1>4. token' = [token EXCEPT ![a] = t]
  BY DEF ConfirmRefuse
<1> HIDE DEF t
<1>5. /\ token' \in [Agents -> [gen : Gens, live : BOOLEAN]]
      /\ \A b \in Agents \ {a} : token'[b] = token[b]
  BY <1>3, <1>4 DEF Inv, TypeOK
<1> QED
  BY <1>1, <1>2, <1>5, ConfirmerActs DEF ConfirmRefuse, ConfirmOnly, Inv, TypeOK

LEMMA ConfirmOwnInv ==
    ASSUME Inv, NEW a \in Agents, ConfirmOwn(a)
    PROVE  Inv'
<1>1. PICK x \in Confirmer :
         con' = [con EXCEPT ![a] = x] /\ x.pc = "sealed" /\ x.gen = con[a].gen /\ con'[a] = x
  BY ConfirmMoves DEF ConfirmOwn, ConfirmSteps
<1>2. Escaped(a)' => Escaped(a)
  BY DEF Escaped, ConfirmOwn, ConfirmOnly
<1>3. owned' \subseteq Agents /\ owned \subseteq owned' /\ a \in owned'
  BY DEF ConfirmOwn, Inv, TypeOK
<1>4. token'[a].gen = con[a].gen
  BY DEF ConfirmOwn, Inv, ConfirmOK
<1> QED
  BY <1>1, <1>2, <1>3, <1>4, ConfirmerActs DEF ConfirmOwn, ConfirmOnly, Inv, TypeOK

\* An agent is invited while the human is in the room.
LEMMA ReadyInvitesInv ==
    ASSUME Inv, NEW a \in Agents, ReadyInvites(a)
    PROVE  Inv'
<1>1. PICK x \in Confirmer :
         con' = [con EXCEPT ![a] = x] /\ x.pc = "invited" /\ x.gen = con[a].gen /\ con'[a] = x
  BY ConfirmMoves DEF ReadyInvites, ConfirmSteps
<1>2. Escaped(a)' => Escaped(a)
  BY DEF Escaped, ReadyInvites, ConfirmOnly
<1>3. a \in owned /\ token'[a].gen = con[a].gen
  BY DEF ReadyInvites, Inv, ConfirmOK
<1>4. inRoom' \subseteq inRoom \cup owned /\ human = "join"
  BY <1>3 DEF ReadyInvites
<1> QED
  BY <1>1, <1>2, <1>3, <1>4, ConfirmerActs DEF ReadyInvites, ConfirmOnly, Inv, TypeOK

LEMMA ConfirmFailsInv ==
    ASSUME Inv, NEW a \in Agents, ConfirmFails(a)
    PROVE  Inv'
<1>1. faults' \in 0..MaxFaults /\ "unavailable" \in ConfirmSteps
  BY BoundsAssumption DEF ConfirmFails, Fault, ConfirmSteps, Inv, TypeOK
<1> QED
  BY <1>1, ConfirmerMovesOn DEF ConfirmFails, Inv, TypeOK

LEMMA AgentLeavesInv ==
    ASSUME Inv, NEW a \in Agents, AgentLeaves(a)
    PROVE  Inv'
<1>1. con[a] \in Confirmer /\ con' = [con EXCEPT ![a] = con[a]]
  BY Types DEF AgentLeaves
<1>2. Escaped(a)' => Escaped(a)
  BY DEF Escaped, AgentLeaves, ConfirmOnly
<1>3. /\ con[a].pc \in {"after", "memberAfter", "own", "sealed", "invited"} =>
            token'[a].gen = con[a].gen
      /\ con[a].pc \in {"sealed", "invited"} => a \in owned'
  BY DEF AgentLeaves, Inv, ConfirmOK
<1>4. inRoom' \subseteq inRoom
  BY DEF AgentLeaves
<1> QED
  BY <1>1, <1>2, <1>3, <1>4, ConfirmerActs DEF AgentLeaves, ConfirmOnly, Inv, TypeOK

LEMMA ConfirmInv ==
    ASSUME Inv, NEW a \in Agents, Confirm(a) \/ ConfirmFails(a) \/ AgentLeaves(a)
    PROVE  Inv'
  BY ConfirmMemberInv, ConfirmBeforeInv, ConfirmBindInv, ConfirmProvisionInv, ConfirmAfterInv,
     ConfirmMemberAfterInv, ConfirmRefuseInv, ConfirmOwnInv, ReadyInvitesInv, ConfirmFailsInv,
     AgentLeavesInv DEF Confirm

-----------------------------------------------------------------------------
(* The lease runs out, or nothing happens *)

LEMMA LeaseInv ==
    ASSUME Inv, LeaseExpires \/ LeaseOutlived \/ UNCHANGED vars
    PROVE  Inv'
<1>1. /\ UNCHANGED <<human, inRoom, registered, removal, bound, owned, token, rem, adm, con, admitted>>
      /\ lease' \in {lease, None}
  BY DEF LeaseExpires, LeaseOutlived, LeaseOnly, vars
<1>2. faults' \in 0..MaxFaults
  BY BoundsAssumption DEF LeaseExpires, LeaseOutlived, Fault, vars, Inv, TypeOK
<1>3. TypeOK'
  BY <1>1, <1>2 DEF Inv, TypeOK
<1>4. Harmless /\ StepOf(None)
  BY <1>1 DEF Harmless, StepOf, Escaped
<1>5. RemoverOK' /\ AdmitterOK'
  BY <1>1, <1>4, RemoversKept, AdmittersKept, NoneAssumption DEF RemoverOK, AdmitterOK
<1>6. ConfirmOK'
  BY <1>1, ConfirmsKept
<1>7. NoneEscaped' /\ OldLinksStayDead' /\ AgentsLeaveWithHuman'
  BY <1>1, <1>4, PromisesKept
<1> QED
  BY <1>1, <1>3, <1>5, <1>6, <1>7 DEF Inv

-----------------------------------------------------------------------------
(* The theorems *)

LEMMA InvInit ==
    ASSUME Init
    PROVE  Inv
<1>1. removal = [gen |-> 0, entry |-> NoEntry] /\ ~Removed /\ removal.entry.agents = {}
      /\ removal.entry.gen = removal.gen /\ removal \in Removal
  BY BoundsAssumption DEF Init, NoEntry, Removed, Removal, Gens
<1>2. 0 \in Gens /\ FirstLink \in Links
  BY BoundsAssumption DEF FirstLink, Links, Gens
<1>3. TypeOK
  <2>1. rem \in [Removers -> Remover]
    BY IdleRemoverType DEF Init
  <2>2. adm \in [Admits -> Admitter]
    BY <1>2 DEF Init, Admitter, AdmitSteps
  <2>3. con \in [Agents -> Confirmer]
    BY <1>2 DEF Init, Confirmer, ConfirmSteps
  <2>4. token \in [Agents -> [gen : Gens, live : BOOLEAN]]
    BY <1>2 DEF Init
  <2>5. faults \in 0..MaxFaults
    BY BoundsAssumption DEF Init
  <2> QED
    BY <1>1, <1>2, <2>1, <2>2, <2>3, <2>4, <2>5
       DEF Init, TypeOK, Remover, Admitter, Confirmer, Removal
<1>4. RemoverOK /\ AdmitterOK
  BY NoneAssumption DEF Init, RemoverOK, AdmitterOK
<1>5. ConfirmOK
  <2>1. inRoom = {} /\ \A a \in Agents : con[a].pc = "member"
    BY DEF Init
  <2> QED
    BY <2>1 DEF ConfirmOK
<1>6. NoneEscaped
  BY <1>1 DEF NoneEscaped
<1>7. OldLinksStayDead /\ AgentsLeaveWithHuman
  BY <1>1 DEF OldLinksStayDead, AgentsLeaveWithHuman
<1> QED
  BY <1>1, <1>3, <1>4, <1>5, <1>6, <1>7 DEF Inv

LEMMA InvStep ==
    ASSUME Inv, [Next]_vars
    PROVE  Inv'
  BY RemoveInv, AdmitInv, ConfirmInv, LeaseInv DEF Next

LEMMA InvAlways == Spec => []Inv
<1>1. Init => Inv
  BY InvInit
<1>2. Inv /\ [Next]_vars => Inv'
  BY InvStep
<1> QED
  BY <1>1, <1>2, PTL DEF Spec

(* Memberships, the removal record and the runs stay well formed, and no     *)
(* retry of a removal (recordRemoval) takes a generation of its own: there   *)
(* are never more generations than removals begun.                           *)
THEOREM TypeCorrect == Spec => []TypeOK
<1>1. Inv => TypeOK
  BY DEF Inv
<1> QED
  BY <1>1, InvAlways, PTL

(* Old invites do not readmit a removed human: admissionRemovalAllowed is    *)
(* checked under the lease that the join is made under, and recordRemoval    *)
(* needs that lease.                                                         *)
THEOREM LinksStayDead == Spec => []OldLinksStayDead
<1>1. Inv => OldLinksStayDead
  BY DEF Inv
<1> QED
  BY <1>1, InvAlways, PTL

(* A completed removal leaves no agent of the human in the channel: who is   *)
(* invited before the ban is collected after it (collectAgents), and nobody  *)
(* is invited after it.                                                      *)
THEOREM AgentsLeave == Spec => []AgentsLeaveWithHuman
<1>1. Inv => AgentsLeaveWithHuman
  BY DEF Inv
<1> QED
  BY <1>1, InvAlways, PTL

(* A completed removal leaves no session of an agent it lists: a token that  *)
(* is minted behind revokeAgent's back carries an older generation, which    *)
(* its confirm notices before it hands the token out.                        *)
THEOREM SessionsEnd == Spec => []ListedSessionsEnd
<1>1. Inv => ListedSessionsEnd
  <2> SUFFICES ASSUME Inv, removal.entry.complete, NEW a \in Agents,
                      con[a].pc \in {"sealed", "invited"}, ToldRemoved(a)
               PROVE  ~token[a].live
    BY DEF ListedSessionsEnd
  <2>1. ~Escaped(a)
    BY DEF Inv, NoneEscaped, ToldRemoved
  <2> QED
    BY <2>1 DEF Escaped, ToldRemoved
<1> QED
  BY <1>1, InvAlways, PTL
=============================================================================
