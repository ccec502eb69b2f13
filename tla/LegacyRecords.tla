---------------------------- MODULE LegacyRecords ---------------------------
(***************************************************************************)
(* Records that are written as texts joined by a separator: the addresses  *)
(* of AddressBook (logorrhythm/legacy/addressing.py) and the checkpoints   *)
(* of CheckpointStore (fault_tolerance.py), whose process may lose its     *)
(* store and restore it from what it wrote.  A text is a sequence of       *)
(* tokens; a number, which has no separator in it, is one token.           *)
(***************************************************************************)
EXTENDS Integers, Sequences, SequencesExt, FiniteSetsExt, Functions

CONSTANTS Labels,                 \* names of regions, nodes and models
          Tasks, Owners, States,  \* of checkpoints
          Steps,                  \* their steps, in digits
          MaxCalls                \* bound: calls that change something

ASSUME RecordAssumption ==
  Labels \cup Tasks \cup Owners \cup States \cup Steps \subseteq Seq(STRING)

VARIABLES book,        \* AddressBook: the texts, in the order of their ids
          registered,  \* history: the addresses that were registered, with their ids
          resolved,    \* the last resolve: [id, got]
          store,       \* CheckpointStore._store
          snapshots,   \* the checkpoints snapshot wrote, with their texts
          restored,    \* the last restore: [saved, got]
          calls

recordVars == <<book, registered, resolved, store, snapshots, restored, calls>>

Rejected    == [ok |-> FALSE]
Returned(x) == [ok |-> TRUE, value |-> x]

RecordInit ==
  /\ book = <<>> /\ registered = {} /\ resolved = <<>>
  /\ store = <<>> /\ snapshots = {} /\ restored = <<>> /\ calls = 0

Join(fields, sep) ==
  FlattenSeq([i \in DOMAIN fields |-> IF i = 1 THEN fields[i] ELSE <<sep>> \o fields[i]])

Separators(text, sep, i) == Cardinality({j \in 1..i : text[j] = sep})

\* The pieces between the first n separators.
Fields(text, sep, n) ==
  LET at(k) == CHOOSE i \in DOMAIN text : text[i] = sep /\ Separators(text, sep, i) = k
      cut   == [k \in 0..n + 1 |-> IF k = 0 THEN 0 ELSE IF k > n THEN Len(text) + 1 ELSE at(k)]
  IN  [k \in 1..n + 1 |-> SubSeq(text, cut[k - 1] + 1, cut[k] - 1)]

\* Mutant: every separator splits.
SplitAll(text, sep, most) == Fields(text, sep, Separators(text, sep, Len(text)))

Split(text, sep, most) == Fields(text, sep, Min({most, Separators(text, sep, Len(text))}))

Call == calls < MaxCalls /\ calls' = calls + 1
-----------------------------------------------------------------------------
\* <region>/<node>/<model>/<shard>/<agent>, with shard and agent 0
EncodeAddress(a) == Join(<<a[1], a[2], a[3], <<"0">>, <<"0">>>>, "/")

DecodeAddress(text) ==
  LET parts == Split(text, "/", Len(text))
  IN  IF Len(parts) # 5 THEN Rejected ELSE Returned(SubSeq(parts, 1, 3))

Register(a) ==
  LET text == EncodeAddress(a)
  IN  /\ book' = IF text \in Range(book) THEN book ELSE Append(book, text)
      /\ registered' = registered \cup
           {[address |-> a, id |-> CHOOSE i \in DOMAIN book' : book'[i] = text]}

RegisterCall(a) ==
  /\ Call /\ Register(a)
  /\ UNCHANGED <<resolved, store, snapshots, restored>>

Resolve(i) ==
  /\ i \in DOMAIN book
  /\ resolved' = [id |-> i, got |-> DecodeAddress(book[i])]
  /\ UNCHANGED <<book, registered, store, snapshots, restored, calls>>
-----------------------------------------------------------------------------
Keep(cp) == [t \in DOMAIN store \cup {cp.task} |-> IF t = cp.task THEN cp ELSE store[t]]

Snapshot(cp) ==
  /\ Call /\ store' = Keep(cp)
  /\ snapshots' = snapshots \cup
       {[saved |-> cp, text |-> Join(<<cp.task, cp.owner, cp.step, cp.state>>, "|")]}
  /\ UNCHANGED <<book, registered, resolved, restored>>

\* The first three separators count; a step that is no number raises.
Restore(w) ==
  LET parts == Split(w.text, "|", 3)
      ok    == Len(parts) = 4 /\ parts[3] \in Steps
      cp    == [task |-> parts[1], owner |-> parts[2], step |-> parts[3], state |-> parts[4]]
  IN  /\ Call
      /\ store' = IF ok THEN Keep(cp) ELSE store
      /\ restored' = [saved |-> w.saved, got |-> IF ok THEN Returned(cp) ELSE Rejected]
      /\ UNCHANGED <<book, registered, resolved, snapshots>>

Reassign(t, owner) ==
  /\ Call /\ t \in DOMAIN store
  /\ store' = [store EXCEPT ![t].owner = owner]
  /\ UNCHANGED <<book, registered, resolved, snapshots, restored>>

Restart ==
  /\ Call /\ store' = <<>>
  /\ UNCHANGED <<book, registered, resolved, snapshots, restored>>

RecordNext ==
  \/ \E region, node, model \in Labels : RegisterCall(<<region, node, model>>)
  \/ \E i \in DOMAIN book : Resolve(i)
  \/ \E t \in Tasks, o \in Owners, n \in Steps, s \in States :
       Snapshot([task |-> t, owner |-> o, step |-> n, state |-> s])
  \/ \E w \in snapshots : Restore(w)
  \/ \E t \in DOMAIN store, o \in Owners : Reassign(t, o)
  \/ Restart

RecordSpec == RecordInit /\ [][RecordNext]_recordVars
-----------------------------------------------------------------------------
\* The limit of both formats: nothing keeps a separator out of the fields, only the
\* state, which comes last, may hold one.
WithoutSeparators ==
  /\ \A x \in Labels : "/" \notin Range(x)
  /\ \A x \in Tasks \cup Owners \cup Steps : "|" \notin Range(x)

\* What is read back is what was written: resolve returns the address that was
\* registered under the id, restore the checkpoint that was saved, whatever its
\* state holds and whatever became of the store since.
ReadsBack ==
  /\ resolved # <<>> => \E r \in registered : resolved = [id |-> r.id, got |-> Returned(r.address)]
  /\ restored # <<>> => restored.got = Returned(restored.saved)
=============================================================================
