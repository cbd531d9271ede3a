------------------------------ MODULE CasStore ------------------------------
(***************************************************************************)
(* What the `ControlStore` port promises its callers (packages/contracts/   *)
(* src/messaging/control-store.ts): a compare-and-set register per key, and *)
(* an operation ID that names one write for ever.  No caller, no request,   *)
(* no failure is visible here: only what is stored, and the log of the      *)
(* writes that took effect, each with the revision its caller expected.     *)
(***************************************************************************)
EXTENDS Naturals

CONSTANTS Keys, Ops, Contents, None

VARIABLES
    records,    \* the current revision of every key, or None
    ledger,     \* the one write an operation ID names, or None
    passed,     \* the contents whose expiry time has passed
    nextEtag,   \* the next revision the provider hands out
    landed      \* every write that took effect

vars == <<records, ledger, passed, nextEtag, landed>>

Init ==
    /\ records = [k \in Keys |-> None]
    /\ ledger = [o \in Ops |-> None]
    /\ passed = {}
    /\ nextEtag = 1
    /\ landed = {}

\* isRecordLive: a record authorises reads only before its expiry.
Live(r) == r # None /\ r.content \notin passed

(* An operation ID is bound once, to one key and one content. *)
Bind(o) ==
    /\ ledger[o] = None
    /\ \E k \in Keys, c \in Contents :
          ledger' = [ledger EXCEPT ![o] = [key |-> k, content |-> c, etag |-> nextEtag]]
    /\ nextEtag' = nextEtag + 1
    /\ UNCHANGED <<records, passed, landed>>

(* `expected` is what the caller believed it was replacing: exactly the     *)
(* record that is there, or nothing, when nothing live is there.            *)
Replaces(k, expected) ==
    \/ expected # None /\ records[k] # None /\ records[k].etag = expected
    \/ expected = None /\ ~Live(records[k])

Write(k, o, c, expected) ==
    /\ ledger[o] # None /\ ledger[o].key = k /\ ledger[o].content = c
    /\ Replaces(k, expected)
    /\ records' = [records EXCEPT ![k] = [op |-> o, content |-> c, etag |-> nextEtag]]
    /\ nextEtag' = nextEtag + 1
    /\ landed' = landed \cup {[key |-> k, op |-> o, content |-> c,
                               expected |-> expected, etag |-> nextEtag]}
    /\ UNCHANGED <<ledger, passed>>

(* Time passes the expiry of a content; it never comes back. *)
Expire ==
    /\ \E c \in Contents \ passed : passed' = passed \cup {c}
    /\ UNCHANGED <<records, ledger, nextEtag, landed>>

Next ==
    \/ \E o \in Ops : Bind(o)
    \/ \E k \in Keys, o \in Ops, c \in Contents, e \in (1..nextEtag) \cup {None} :
          Write(k, o, c, e)
    \/ Expire

Spec == Init /\ [][Next]_vars
=============================================================================
