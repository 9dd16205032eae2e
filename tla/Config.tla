------------------------------- MODULE Config -------------------------------
(***************************************************************************)
(* Configuration variables (config.h, config.cc): a registry of variables  *)
(* by name, set by threads or from a YAML document, with listeners.        *)
(*                                                                         *)
(* setValue compares and tells the listeners under the read lock, lets go  *)
(* of it and stores the value under the write lock: several threads may    *)
(* announce at once, and store in another order.  Writers hold the lock    *)
(* for one step.  Variables are looked up, that is created, while the      *)
(* program has one thread (static initialisation); the lock of Lookup is   *)
(* commented out.                                                          *)
(***************************************************************************)
EXTENDS Integers, Sequences, SequencesExt, FiniteSetsExt

CONSTANTS
  Threads, Names, Types, Values, None,
  Listeners,     \* listeners, by the ids that addListener hands out
  Default,       \* the value Lookup is given
  Throwing(_, _),\* whether a listener throws at a value
  Legal,         \* names with characters Lookup accepts
  LegalYaml,     \* keys with characters ListAllMember accepts: no capitals
  Lower(_),      \* a key in lower case
  Docs,          \* YAML documents: their nodes in order, each with its key, the
                 \* keys of the maps around it and its text
  Convert(_, _), \* LexicalCast of a text to a type, or None when it throws
  MaxSets        \* bound: calls of setValue and LoadFromYaml

ASSUME ConfigAssumption ==
  /\ IsFiniteSet(Threads) /\ IsFiniteSet(Names) /\ Listeners \subseteq Nat
  /\ Legal \subseteq Names /\ None \notin Names /\ None \notin Types /\ None \notin Values
  /\ MaxSets \in Nat /\ Default \in Values

VARIABLES
  type,       \* the type of each variable, None before its Lookup
  val, cbs,   \* m_val, m_cbs
  readers,    \* threads that hold the read lock of a variable
  th,         \* what each thread does
  load,       \* the document a thread loads, and the nodes still to do
  heard,      \* history: the value a listener knows
  unheard,    \* history: variables whose listeners may have missed a change
  touched,    \* history: variables somebody else has set during a load
  before,     \* history: the values when the load began
  sets

vars == <<type, val, cbs, readers, th, load, heard, unheard, touched, before, sets>>

Idle == [pc |-> "idle", var |-> None, new |-> None, old |-> None, left |-> {}]
NoLoad == [todo |-> <<>>, doc |-> <<>>]

Init ==
  /\ type = [n \in Names |-> None] /\ val = [n \in Names |-> None]
  /\ cbs = [n \in Names |-> {}] /\ readers = [n \in Names |-> {}]
  /\ th = [t \in Threads |-> Idle] /\ load = [t \in Threads |-> NoLoad]
  /\ heard = [l \in Listeners |-> None]
  /\ unheard = {} /\ touched = {} /\ sets = 0 /\ before = val

Setting(n) == {t \in Threads : th[t].var = n /\ th[t].pc \in {"notify", "store"}}
Loaded(t) == load[t].doc # <<>>

(* Where a thread goes when setValue or fromString is over. *)
Done(t) == [th EXCEPT ![t] = IF Loaded(t) THEN [Idle EXCEPT !.pc = "load"] ELSE Idle]

(* Faults: wrong versions of the definitions named. *)

(* MayStore: the write lock does not wait for readers. *)
MayStoreAlways(t) == TRUE
(* ToTell: the first listener is not told. *)
ToTellRest(n) == {l \in cbs[n] : \E k \in cbs[n] : k < l}
(* Unlocked: an exception leaves the read lock held. *)
UnlockedNot(t) == readers
(* ListAllMember: nodes below a bad name are kept. *)
ListAllMemberDeep(doc) == SelectSeq(doc, LAMBDA n : n.key \in LegalYaml \/ n.within # {})

----------------------------------------------------------------------------
(* Lookup(name, default): an existing variable is left alone, whatever its *)
(* type; a name with other characters throws.                              *)
NoThreads == \A t \in Threads : th[t] = Idle /\ sets = 0
Create(n) == [val EXCEPT ![n] = Default]
Lookup(n, ty) ==
  /\ NoThreads /\ type[n] = None /\ n \in Legal
  /\ type' = [type EXCEPT ![n] = ty]
  /\ val' = Create(n)
  /\ UNCHANGED <<cbs, readers, th, load, heard, unheard, touched, before, sets>>

(* addListener, delListener, clearListener: under the write lock.  The     *)
(* program that adds a listener has just read the value.  Ids come from a  *)
(* counter shared by the variables of a type, each under its own lock:     *)
(* adding to two of them at once is a data race that may set the counter   *)
(* back.  So ids are handed out in any order, not only the order of the    *)
(* calls; an id given again replaces the listener that has it, which is    *)
(* DelListeners followed by AddListener.                                   *)
CanWrite(n) == type[n] # None /\ readers[n] = {}
AddListener(n, l) ==
  /\ CanWrite(n)
  /\ \A m \in Names : l \notin cbs[m]
  /\ heard[l] = None
  /\ cbs' = [cbs EXCEPT ![n] = @ \cup {l}]
  /\ heard' = [heard EXCEPT ![l] = val[n]]
  /\ unheard' = IF Setting(n) # {} THEN unheard \cup {n} ELSE unheard
  /\ UNCHANGED <<type, val, readers, th, load, touched, before, sets>>
DelListeners(n, ls) ==
  /\ CanWrite(n) /\ ls # {} /\ ls \subseteq cbs[n]
  /\ cbs' = [cbs EXCEPT ![n] = @ \ ls]
  /\ UNCHANGED <<type, val, readers, th, load, heard, unheard, touched, before, sets>>

----------------------------------------------------------------------------
(* setValue. *)

CallSet(t, n, v) ==
  /\ th[t] = Idle /\ type[n] # None /\ sets < MaxSets
  /\ sets' = sets + 1
  /\ th' = [th EXCEPT ![t] = [Idle EXCEPT !.pc = "lock", !.var = n, !.new = v]]
  /\ touched' = touched \cup {n}
  /\ UNCHANGED <<type, val, cbs, readers, load, heard, unheard, before>>

(* The read lock, and the comparison. *)
ToTell(n) == cbs[n]
Lock(t) ==
  /\ th[t].pc = "lock"
  /\ LET n == th[t].var
     IN IF th[t].new = val[n]
        THEN th' = Done(t) /\ UNCHANGED <<readers, unheard>>
        ELSE /\ readers' = [readers EXCEPT ![n] = @ \cup {t}]
             /\ th' = [th EXCEPT ![t].pc = "notify", ![t].left = ToTell(n), ![t].old = val[n]]
             /\ unheard' = IF Setting(n) # {} THEN unheard \cup {n} ELSE unheard
  /\ UNCHANGED <<type, val, cbs, load, heard, touched, before, sets>>

Unlocked(t) == [readers EXCEPT ![th[t].var] = @ \ {t}]
(* One listener after the other, by id.  One that throws ends setValue:    *)
(* those before it have been told of a value that is not stored.           *)
Notify(t) ==
  /\ th[t].pc = "notify"
  /\ \E l \in th[t].left :
       /\ \A k \in th[t].left : l <= k
       /\ IF Throwing(l, th[t].new)
          THEN /\ th' = Done(t)
               /\ readers' = Unlocked(t)
               /\ unheard' = unheard \cup {th[t].var}
               /\ UNCHANGED heard
          ELSE /\ heard' = [heard EXCEPT ![l] = th[t].new]
               /\ th' = [th EXCEPT ![t].left = @ \ {l}]
               /\ UNCHANGED <<readers, unheard>>
  /\ UNCHANGED <<type, val, cbs, load, touched, before, sets>>
Notified(t) ==
  /\ th[t].pc = "notify" /\ th[t].left = {}
  /\ readers' = Unlocked(t)
  /\ th' = [th EXCEPT ![t].pc = "store"]
  /\ UNCHANGED <<type, val, cbs, load, heard, unheard, touched, before, sets>>

MayStore(t) == readers[th[t].var] = {}
Store(t) ==
  /\ th[t].pc = "store" /\ MayStore(t)
  /\ val' = [val EXCEPT ![th[t].var] = th[t].new]
  /\ th' = Done(t)
  /\ UNCHANGED <<type, cbs, readers, load, heard, unheard, touched, before, sets>>

----------------------------------------------------------------------------
(* LoadFromYaml: ListAllMember leaves out a node with a bad name and all   *)
(* that is below it; the others are set if there is such a variable and    *)
(* their text can be converted.                                            *)
ListAllMember(doc) == SelectSeq(doc, LAMBDA n : {n.key} \cup n.within \subseteq LegalYaml)

LoadFromYaml(t, doc) ==
  /\ th[t] = Idle /\ sets < MaxSets /\ \A s \in Threads : ~Loaded(s)
  /\ sets' = sets + 1
  /\ th' = [th EXCEPT ![t] = [Idle EXCEPT !.pc = "load"]]
  /\ load' = [load EXCEPT ![t] = [todo |-> ListAllMember(doc), doc |-> doc]]
  /\ touched' = {th[s].var : s \in Threads \ {t}}
  /\ before' = val
  /\ UNCHANGED <<type, val, cbs, readers, heard, unheard>>

FromString(n, text) ==
  IF n \notin Names THEN None ELSE IF type[n] = None THEN None ELSE Convert(text, type[n])
LoadNext(t) ==
  /\ th[t].pc = "load" /\ load[t].todo # <<>>
  /\ LET node == Head(load[t].todo)
         n == Lower(node.key)
         v == FromString(n, node.text)
     IN th' = IF v \notin Values THEN th
              ELSE [th EXCEPT ![t] = [Idle EXCEPT !.pc = "lock", !.var = n, !.new = v]]
  /\ load' = [load EXCEPT ![t].todo = Tail(@)]
  /\ UNCHANGED <<type, val, cbs, readers, heard, unheard, touched, before, sets>>
LoadEnd(t) ==
  /\ th[t].pc = "load" /\ load[t].todo = <<>>
  /\ th' = [th EXCEPT ![t] = Idle]
  /\ load' = [load EXCEPT ![t] = NoLoad]
  /\ UNCHANGED <<type, val, cbs, readers, heard, unheard, touched, before, sets>>

----------------------------------------------------------------------------
ThreadStep(t) == Lock(t) \/ Notify(t) \/ Notified(t) \/ Store(t) \/ LoadNext(t) \/ LoadEnd(t)

Next ==
  \/ \E n \in Names, ty \in Types : Lookup(n, ty)
  \/ \E n \in Names, l \in Listeners : AddListener(n, l)
  \/ \E n \in Names, ls \in SUBSET Listeners : DelListeners(n, ls)
  \/ \E t \in Threads, n \in Names, v \in Values : CallSet(t, n, v)
  \/ \E t \in Threads, doc \in Docs : LoadFromYaml(t, doc)
  \/ \E t \in Threads : ThreadStep(t)

Spec == Init /\ [][Next]_vars
FairSpec == Spec /\ \A t \in Threads : WF_vars(ThreadStep(t))

----------------------------------------------------------------------------
(* Properties. *)

ThreadState == [pc : {"idle", "lock", "notify", "store", "load"}, var : Names \cup {None},
                new : Values \cup {None}, old : Values \cup {None}, left : SUBSET Listeners]

TypeOK ==
  /\ type \in [Names -> Types \cup {None}]
  /\ val \in [Names -> Values \cup {None}]
  /\ \A n \in Names : type[n] # None => val[n] \in Values
  /\ cbs \in [Names -> SUBSET Listeners] /\ readers \in [Names -> SUBSET Threads]
  /\ heard \in [Listeners -> Values \cup {None}]
  /\ th \in [Threads -> ThreadState]
  /\ \A t \in Threads : th[t].pc \in {"lock", "notify", "store"}
                           => th[t].var \in Names /\ th[t].new \in Values

(* A thread holds the read lock of a variable exactly while it tells that  *)
(* variable's listeners: no lock is left behind, not even by an exception, *)
(* and none is given up early (ConfigVar::setValue).                       *)
ReadersExact ==
  \A n \in Names : readers[n] = {t \in Threads : th[t].pc = "notify" /\ th[t].var = n}

(* Every listener of one announcement is told the same old value, and it   *)
(* is the value the variable has: nobody stores while somebody tells.      *)
OldValueCurrent == \A t \in Threads : th[t].pc = "notify" => val[th[t].var] = th[t].old

(* Listeners are told under the read lock, so that the old value they hear *)
(* stays the variable's until the last of them has been told.              *)
ToldUnderLock == TypeOK /\ ReadersExact /\ OldValueCurrent

(* When nobody sets a variable, its listeners know its value, provided     *)
(* that no two threads set it at once, no listener was added between the   *)
(* announcement and the store, and none threw.                             *)
ListenersAgree ==
  \A n \in Names : Setting(n) = {} /\ n \notin unheard =>
    \A l \in cbs[n] : heard[l] = val[n]

(* When a document has been loaded, each variable that it names with legal *)
(* keys has the value of its last text that could be converted, unless     *)
(* others set it meanwhile or a listener threw; and a variable that only   *)
(* illegal keys name has not been changed by it.                           *)
Texts(doc, n) ==
  SelectSeq(doc, LAMBDA d : /\ {d.key} \cup d.within \subseteq LegalYaml
                            /\ Lower(d.key) = n /\ FromString(n, d.text) # None)
LoadApplies ==
  [][\A t \in Threads, n \in Names :
       th[t].pc = "load" /\ th'[t] = Idle /\ n \notin touched \cup unheard =>
         LET ts == Texts(load[t].doc, n)
         IN val[n] = IF ts = <<>> THEN before[n] ELSE FromString(n, ts[Len(ts)].text)]_vars

(* setValue and LoadFromYaml return: no thread waits for a lock for ever,  *)
(* whatever the listeners throw.                                           *)
SetReturns == \A t \in Threads : th[t] # Idle ~> th[t] = Idle
============================================================================
