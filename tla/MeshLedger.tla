----------------------------- MODULE MeshLedger -----------------------------
(***************************************************************************)
(* event_mesh.py: coordinators (processes) with an event bus and a node    *)
(* registry each, which share one ledger file.                             *)
(*                                                                         *)
(* Dispatch is synchronous: publish calls the handlers, and those of joins,*)
(* leaves and task results append to the ledger before publish returns.    *)
(* An append reads the whole file and writes it back in place; a file which*)
(* is missing, truncated or half written, or which cannot be read, reads as*)
(* the empty list.  An entry does not say who wrote it.                    *)
(***************************************************************************)
EXTENDS Integers, Sequences, FiniteSets, SequencesExt

CONSTANTS
  Coords,        \* processes with a MeshCoordinator
  Nodes,         \* node ids
  MaxEntries,    \* GitHubLedger's max_entries
  MaxHistory,    \* EventBus's _max_history
  MaxEvents      \* bound of the model: events published

ASSUME MeshAssumption ==
  MaxEntries \in Nat \ {0} /\ MaxHistory \in Nat \ {0} /\ MaxEvents \in Nat

Membership == {"node_joined", "node_left"}
\* "task_ended" stands for task_completed and task_failed, which are appended alike.
Actions == Membership \union {"task_ended"}

VARIABLES
  ledger,        \* what the ledger file reads as
  registry,      \* _nodes of each coordinator
  history,       \* _history of each coordinator's bus, as event ids
  stage,         \* where each coordinator is in an append
  draft,         \* the list it is going to write
  published,     \* events published so far
  appended,      \* history: the entries whose append has returned, until crossed or spoiled
  crossed,       \* history: an append has read the file during another one, or a clear
  spoiled,       \* history: a read has failed, or a write has been cut short
  lossy,         \* history: coordinators which crashed, or lost an append
  speakers,      \* history: coordinators which have registered or deregistered the node
  forged         \* history: nodes whose join or leave has been emitted as a plain event

meshVars == <<ledger, registry, history, stage, draft, published, appended, crossed, spoiled, lossy,
              speakers, forged>>
book == <<ledger, appended, crossed, spoiled, lossy, speakers, forged>>

LastN(s, n) == IF Len(s) > n THEN SubSeq(s, Len(s) - n + 1, Len(s)) ELSE s
Entry(n, action) == [id |-> published + 1, node |-> n, action |-> action]
Writing == {p \in Coords : stage[p] \in {"open", "write"}}
Up(p) == stage[p] # "down"

MeshInit ==
  /\ ledger = <<>> /\ appended = <<>> /\ crossed = FALSE /\ spoiled = FALSE
  /\ registry = [p \in Coords |-> {}]
  /\ history = [p \in Coords |-> <<>>]
  /\ stage = [p \in Coords |-> "idle"] /\ draft = [p \in Coords |-> <<>>]
  /\ published = 0 /\ lossy = {} /\ speakers = [n \in Nodes |-> {}] /\ forged = {}

----------------------------------------------------------------------------
(* EventBus.publish and GitHubLedger.append.                                *)

\* An event enters the bus: its id into the bounded history.
Publish(p) ==
  /\ stage[p] = "idle" /\ published < MaxEvents
  /\ published' = published + 1
  /\ history' = [history EXCEPT ![p] = LastN(Append(@, published + 1), MaxHistory)]

\* Mutants of Draft: a full ledger takes no more; a new entry goes to the front.
Draft_Full(entries, entry) == IF Len(entries) < MaxEntries THEN Append(entries, entry) ELSE entries
Draft_Front(entries, entry) == LastN(<<entry>> \o entries, MaxEntries)

\* What append is going to write, from what it has read.
Draft(entries, entry) == LastN(Append(entries, entry), MaxEntries)

\* The handler of the event reads the ledger; an OSError reads as nothing.
Record(p, entry) ==
  \E entries \in {ledger, <<>>} :
    /\ draft' = [draft EXCEPT ![p] = Draft(entries, entry)]
    /\ spoiled' = (spoiled \/ entries # ledger)
    /\ stage' = [stage EXCEPT ![p] = "open"]
    /\ crossed' = (crossed \/ Writing # {})

OpenLedger(p) ==
  /\ stage[p] = "open"
  /\ ledger' = <<>> /\ stage' = [stage EXCEPT ![p] = "write"]
  /\ UNCHANGED <<registry, history, draft, published, appended, crossed, spoiled, lossy, speakers, forged>>

\* The append returns; its entry is the last one of the draft.  Over what another one has
\* written since the file was opened, the text may be no JSON.
WriteLedger(p) ==
  /\ stage[p] = "write"
  /\ \/ ledger' = draft[p]
     \/ crossed /\ ledger' = <<>>
  /\ appended' = IF crossed \/ spoiled THEN appended ELSE Append(appended, Last(draft[p]))
  /\ stage' = [stage EXCEPT ![p] = "idle"] /\ draft' = [draft EXCEPT ![p] = <<>>]
  /\ UNCHANGED <<registry, history, published, crossed, spoiled, lossy, speakers, forged>>

\* OSError, when opening or when writing: publish swallows it.
AppendFails(p) ==
  /\ stage[p] \in {"open", "write"}
  /\ spoiled' = (spoiled \/ stage[p] = "write") /\ lossy' = lossy \union {p}
  /\ stage' = [stage EXCEPT ![p] = "idle"] /\ draft' = [draft EXCEPT ![p] = <<>>]
  /\ UNCHANGED <<ledger, registry, history, published, appended, crossed, speakers, forged>>

Clear(p) ==
  /\ stage[p] = "idle" /\ ledger # <<>>
  /\ ledger' = <<>> /\ crossed' = TRUE
  /\ UNCHANGED <<registry, history, stage, draft, published, appended, spoiled, lossy, speakers, forged>>

----------------------------------------------------------------------------
(* MeshCoordinator.                                                         *)

Speak(p, n) == speakers' = [speakers EXCEPT ![n] = @ \union {p}]

RegisterNode(p, n) ==
  /\ Publish(p) /\ Speak(p, n)
  /\ registry' = [registry EXCEPT ![p] = @ \union {n}]
  /\ Record(p, Entry(n, "node_joined"))
  /\ UNCHANGED <<ledger, appended, lossy, forged>>

\* Mutant of DeregisterNode: the node stays in the registry.
DeregisterNode_Kept(p, n) ==
  /\ Publish(p) /\ Speak(p, n)
  /\ Record(p, Entry(n, "node_left"))
  /\ UNCHANGED <<ledger, registry, appended, lossy, forged>>

\* Published for a node it does not know too.
DeregisterNode(p, n) ==
  /\ Publish(p) /\ Speak(p, n)
  /\ registry' = [registry EXCEPT ![p] = @ \ {n}]
  /\ Record(p, Entry(n, "node_left"))
  /\ UNCHANGED <<ledger, appended, lossy, forged>>

\* emit_task_completed, emit_task_failed, and emit, which takes an event of any type: the
\* handlers of joins and leaves append an entry and leave the registry alone.
Emit(p, n, action) ==
  /\ Publish(p)
  /\ forged' = IF action \in Membership THEN forged \union {n} ELSE forged
  /\ Record(p, Entry(n, action))
  /\ UNCHANGED <<ledger, registry, appended, lossy, speakers>>

\* heartbeat, emit_task_claimed, and emit of an event whose handler, if it has one, leaves
\* the registry and the ledger alone.
EmitOther(p) ==
  /\ Publish(p)
  /\ UNCHANGED <<registry, stage, draft, book>>

----------------------------------------------------------------------------
(* A process ends, anywhere, and another one takes its place.               *)

CoordinatorCrash(p) ==
  /\ Up(p)
  /\ spoiled' = (spoiled \/ stage[p] = "write") /\ lossy' = lossy \union {p}
  /\ stage' = [stage EXCEPT ![p] = "down"] /\ draft' = [draft EXCEPT ![p] = <<>>]
  /\ registry' = [registry EXCEPT ![p] = {}]
  /\ history' = [history EXCEPT ![p] = <<>>]
  /\ UNCHANGED <<ledger, published, appended, crossed, speakers, forged>>

CoordinatorRestart(p) ==
  /\ stage[p] = "down"
  /\ stage' = [stage EXCEPT ![p] = "idle"]
  /\ UNCHANGED <<ledger, registry, history, draft, published, appended, crossed, spoiled, lossy, speakers, forged>>

MeshStep(p) ==
  \/ OpenLedger(p) \/ WriteLedger(p) \/ AppendFails(p) \/ Clear(p) \/ CoordinatorCrash(p) \/ CoordinatorRestart(p)
  \/ \E n \in Nodes : RegisterNode(p, n) \/ DeregisterNode(p, n)
  \/ \E n \in Nodes, action \in Actions : Emit(p, n, action)
  \/ EmitOther(p)

MeshNext == \E p \in Coords : MeshStep(p)
MeshSpec == MeshInit /\ [][MeshNext]_meshVars

----------------------------------------------------------------------------
(* Properties.                                                              *)

EntryType == [id : 1..MaxEvents, node : Nodes, action : Actions]

\* Every variable keeps its type.
MeshTypeOK ==
  /\ ledger \in Seq(EntryType) /\ appended \in Seq(EntryType)
  /\ draft \in [Coords -> Seq(EntryType)]
  /\ registry \in [Coords -> SUBSET Nodes]
  /\ history \in [Coords -> Seq(1..MaxEvents)]
  /\ stage \in [Coords -> {"idle", "open", "write", "down"}]
  /\ published \in 0..MaxEvents /\ lossy \subseteq Coords
  /\ crossed \in BOOLEAN /\ spoiled \in BOOLEAN
  /\ speakers \in [Nodes -> SUBSET Coords] /\ forged \subseteq Nodes

LedgerIsTail ==
  ~crossed /\ ~spoiled /\ (\A p \in Coords : stage[p] # "write") => ledger = LastN(appended, MaxEntries)

\* Entries of events which a coordinator's bus remembers stand in the order of the events.
InOrder(entries, p) ==
  \A i, j \in DOMAIN entries :
    i < j /\ {entries[i].id, entries[j].id} \subseteq Range(history[p]) => entries[i].id < entries[j].id

BusOrderKept == \A p \in Coords : InOrder(ledger, p)

\* The last one of the entries about n which tells of its membership is a join.
SaysMember(entries, n) ==
  \E i \in DOMAIN entries :
    /\ entries[i].node = n /\ entries[i].action = "node_joined"
    /\ \A j \in DOMAIN entries : j > i /\ entries[j].node = n => entries[j].action # "node_left"

LedgerTellsMembership ==
  ~crossed /\ ~spoiled /\ Writing = {} /\ Len(appended) <= MaxEntries =>
    \A p \in Coords \ lossy, n \in Nodes \ forged :
      speakers[n] \subseteq {p} => (n \in registry[p] <=> SaysMember(ledger, n))

\* As long as appends do not overlap, no read fails and none is cut short, no entry is lost
\* but the oldest ones: the file is the last MaxEntries entries whose append has returned.
\* Whatever overlaps, fails or crashes, the entries of the events in a coordinator's
\* history stand in the ledger in the order of the events, and none stands in it twice.
\* And without faults, until entries are dropped, the ledger tells whether a node is
\* registered, if one coordinator alone registers and deregisters it, that one has neither
\* crashed nor lost an append, of which its caller is not told, and nobody emits joins and
\* leaves of the node as plain events.  And every variable keeps its type.
LedgerSound == MeshTypeOK /\ LedgerIsTail /\ BusOrderKept /\ LedgerTellsMembership

=============================================================================
