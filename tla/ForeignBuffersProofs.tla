------------------------ MODULE ForeignBuffersProofs ------------------------
(***************************************************************************)
(* What the C and JNI interfaces promise their hosts, for any number of    *)
(* tasks, threads, addresses, allocations and calls.                       *)
(*                                                                         *)
(* 1. Every variable keeps its type (TypeHolds).                           *)
(* 2. A message a host reads is about its own call (ErrorIsOwnHolds): the  *)
(*    slot of a thread belongs to the only task that has a call on it.     *)
(* 3. An address has as many references as handouts to be freed, and what  *)
(*    a host holds stays valid.  OneBufferEach carries both: no two live   *)
(*    buffers share an address, so all references under one address are    *)
(*    references to one buffer, and popping any of them is popping the     *)
(*    right one.                                                           *)
(***************************************************************************)
EXTENDS ForeignBuffers, FiniteSetTheorems, SequenceTheorems, TLAPS

\* The buffers the registry refers to under address a.
Refs(a) == ToSet(References(a))

\* Which tasks hold a reference of their own, and which have made a call.
Phases ==
    /\ \A k \in Tasks : pc[k] \in {"answered", "wrap"} => local[k] \in Buffers
    /\ \A k \in Tasks : pc[k] \notin {"answered", "wrap"} => local[k] = None
    /\ \A k \in Tasks : pc[k] # "idle" => call[k] >= 1

Types == TypeOK /\ Phases

-----------------------------------------------------------------------------
(***************************************************************************)
(* Sequences of references.                                                *)
(***************************************************************************)
\* A sequence without its last element.
LEMMA FrontFacts ==
    ASSUME NEW S, NEW s \in Seq(S), s # <<>>
    PROVE  /\ Front(s) \in Seq(S)
           /\ Len(Front(s)) = Len(s) - 1
           /\ ToSet(Front(s)) \subseteq ToSet(s)
<1> DEFINE n == Len(s) - 1
           f == SubSeq(s, 1, n)
<1>1. Len(s) \in Nat \ {0} /\ n \in Int /\ n >= 0
  BY EmptySeq, LenProperties
<1>2. \A i \in 1..n : s[i] \in S
  BY <1>1, ElementOfSeq
<1>3. f \in Seq(S) /\ Len(f) = n /\ \A i \in 1..n : f[i] = s[i]
  <2> HIDE DEF n
  <2>1. 1 \in Int
    OBVIOUS
  <2>2. \A i \in 1..n : s[i] \in S
    BY <1>2
  <2>3. /\ f \in Seq(S)
        /\ Len(f) = IF 1 <= n THEN n - 1 + 1 ELSE 0
        /\ \A i \in 1..n - 1 + 1 : f[i] = s[1 + i - 1]
    BY <2>1, <1>1, <2>2, SubSeqProperties
  <2>4. QED
    BY <2>3, <1>1
<1>4. DOMAIN f = 1..n /\ DOMAIN s = 1..Len(s)
  BY <1>1, <1>3, LenProperties
<1>5. ToSet(f) \subseteq ToSet(s)
  BY <1>1, <1>3, <1>4 DEF ToSet
<1>6. QED
  BY <1>3, <1>5 DEF Front

\* A sequence that is not empty has an element.
LEMMA NonEmptyFacts ==
    ASSUME NEW S, NEW s \in Seq(S), Len(s) > 0
    PROVE  ToSet(s) # {}
<1>1. 1 \in DOMAIN s
  BY LenProperties
<1>2. s[1] \in ToSet(s)
  BY <1>1 DEF ToSet
<1>3. QED
  BY <1>2

\* A sequence with one more element.
LEMMA AppendFacts ==
    ASSUME NEW S, NEW s \in Seq(S), NEW b \in S
    PROVE  /\ Append(s, b) \in Seq(S) /\ Append(s, b) # <<>>
           /\ Len(Append(s, b)) = Len(s) + 1
           /\ ToSet(Append(s, b)) = ToSet(s) \cup {b}
BY AppendProperties, LenProperties DEF ToSet

\* The entry of an address is absent exactly when it has no reference.
LEMMA ReferencesFacts ==
    ASSUME TypeOK, NEW a
    PROVE  /\ References(a) \in Seq(Buffers) /\ Len(References(a)) \in Nat
           /\ a \in DOMAIN registry <=> Len(References(a)) > 0
           /\ Len(References(a)) > 0 <=> Refs(a) # {}
           /\ Refs(a) \subseteq Buffers
<1>1. References(a) \in Seq(Buffers)
  BY EmptySeq DEF References, TypeOK
<1>2. a \in DOMAIN registry <=> References(a) # <<>>
  BY DEF References, TypeOK
<1>3. References(a) # <<>> <=> Len(References(a)) > 0
  BY <1>1, EmptySeq, LenProperties
<1>4. DOMAIN References(a) = 1..Len(References(a)) /\ Len(References(a)) \in Nat
  BY <1>1, LenProperties
<1>5. \A i \in 1..Len(References(a)) : References(a)[i] \in Buffers
  BY <1>1, ElementOfSeq
<1>6. QED
  BY <1>1, <1>2, <1>3, <1>4, <1>5 DEF Refs, ToSet

\* entry(address).or_default().push(reference)
LEMMA RegisteredFacts ==
    ASSUME TypeOK, NEW b \in Buffers, NEW a \in Addresses, Registered(a, b)
    PROVE  /\ DOMAIN registry' \subseteq Addresses
           /\ \A x \in DOMAIN registry' : registry'[x] \in Seq(Buffers) /\ registry'[x] # <<>>
           /\ \A x \in Addresses \ {a} : References(x)' = References(x)
           /\ Len(References(a)') = Len(References(a)) + 1
           /\ Refs(a)' = Refs(a) \cup {b}
<1>1. References(a) \in Seq(Buffers)
  BY ReferencesFacts
<1>2. References(a)' = Append(References(a), b)
  BY DEF Registered, References
<1>3. \A x \in Addresses \ {a} : References(x)' = References(x)
  BY DEF Registered, References
<1>4. DOMAIN registry' = DOMAIN registry \cup {a}
  BY DEF Registered
<1>5. \A x \in DOMAIN registry' :
         registry'[x] = IF x = a THEN Append(References(a), b) ELSE registry[x]
  BY DEF Registered
<1>6. /\ Append(References(a), b) \in Seq(Buffers) /\ Append(References(a), b) # <<>>
      /\ Len(Append(References(a), b)) = Len(References(a)) + 1
      /\ ToSet(Append(References(a), b)) = ToSet(References(a)) \cup {b}
  BY <1>1, AppendFacts
<1>7. \A x \in DOMAIN registry' : registry'[x] \in Seq(Buffers) /\ registry'[x] # <<>>
  BY <1>4, <1>5, <1>6 DEF TypeOK
<1>8. QED
  BY <1>2, <1>3, <1>4, <1>6, <1>7 DEF Refs, TypeOK

\* One reference is popped, and the entry removed with the last one.
LEMMA ReleasedFacts ==
    ASSUME TypeOK, NEW a \in DOMAIN registry, Released(a)
    PROVE  /\ DOMAIN registry' \subseteq DOMAIN registry
           /\ \A x \in DOMAIN registry' : registry'[x] \in Seq(Buffers) /\ registry'[x] # <<>>
           /\ \A x \in Addresses \ {a} : References(x)' = References(x)
           /\ Len(References(a)') = Len(References(a)) - 1
           /\ Refs(a)' \subseteq Refs(a)
<1> DEFINE s == registry[a]
<1>1. s \in Seq(Buffers) /\ s # <<>> /\ Len(s) \in Nat \ {0}
  BY EmptySeq DEF TypeOK
<1>2. References(a) = s
  BY DEF References
<1>3. CASE Len(s) = 1
  <2>1. registry' = [x \in DOMAIN registry \ {a} |-> registry[x]]
    BY <1>3 DEF Released
  <2>2. References(a)' = <<>> /\ Len(<<>>) = 0 /\ ToSet(<<>>) = {}
    BY <2>1, EmptySeq DEF References, ToSet
  <2>3. QED
    BY <1>2, <1>3, <2>1, <2>2 DEF References, Refs, TypeOK
<1>4. CASE Len(s) # 1
  <2>1. registry' = [registry EXCEPT ![a] = Front(s)]
    BY <1>4 DEF Released
  <2>2. /\ Front(s) \in Seq(Buffers) /\ Len(Front(s)) = Len(s) - 1
        /\ ToSet(Front(s)) \subseteq ToSet(s)
    BY <1>1, FrontFacts
  <2>3. Front(s) # <<>>
    BY <1>1, <1>4, <2>2, EmptySeq
  <2>4. References(a)' = Front(s)
    BY <2>1 DEF References
  <2>5. QED
    BY <1>2, <2>1, <2>2, <2>3, <2>4 DEF References, Refs, TypeOK
<1>5. QED
  BY <1>3, <1>4

\* The allocator answers a new buffer at an address no live buffer has.
LEMMA AllocatedFacts ==
    ASSUME TypeOK, NEW b, Allocated(b)
    PROVE  /\ addressOf' \in Seq(Addresses)
           /\ b \notin Buffers /\ Buffers' = Buffers \cup {b} /\ b \in Nat
           /\ \A x \in Buffers : addressOf'[x] = addressOf[x]
           /\ addressOf'[b] \in Addresses \ {addressOf[x] : x \in Live}
<1>1. addressOf \in Seq(Addresses) /\ Len(addressOf) \in Nat /\ Buffers = 1..Len(addressOf)
  BY LenProperties DEF TypeOK, Buffers
<1>2. PICK a \in Addresses \ {addressOf[x] : x \in Live} : addressOf' = Append(addressOf, a)
  BY DEF Allocated
<1>3. /\ addressOf' \in Seq(Addresses) /\ Len(addressOf') = Len(addressOf) + 1
      /\ \A i \in 1..Len(addressOf) : addressOf'[i] = addressOf[i]
      /\ addressOf'[Len(addressOf) + 1] = a
  BY <1>1, <1>2, AppendProperties
<1>4. Buffers' = 1..(Len(addressOf) + 1)
  BY <1>3, LenProperties DEF Buffers
<1>5. QED
  BY <1>1, <1>2, <1>3, <1>4 DEF Allocated

-----------------------------------------------------------------------------
(***************************************************************************)
(* The types of the variables.                                             *)
(***************************************************************************)
\* The first state has Types.
LEMMA TypesInit == Init => Types
BY BufferAssumption, EmptySeq DEF Init, Types, TypeOK, Phases, Buffers

\* Call keeps Types.
LEMMA TypesCall ==
    ASSUME Types, NEW k \in Tasks, NEW kind \in {"execute", "query", "find"}, Call(k, kind)
    PROVE  Types'
BY BufferAssumption DEF Types, TypeOK, Phases, Call, Goto, Buffers, memory

\* Fails keeps Types.
LEMMA TypesFails ==
    ASSUME Types, NEW k \in Tasks, Fails(k)
    PROVE  Types'
BY BufferAssumption DEF Types, TypeOK, Phases, Fails, Goto, Buffers, memory

\* ReadError keeps Types.
LEMMA TypesReadError ==
    ASSUME Types, NEW k \in Tasks, ReadError(k)
    PROVE  Types'
BY DEF Types, TypeOK, Phases, ReadError, Goto, Buffers, memory

\* Executes keeps Types.
LEMMA TypesExecutes ==
    ASSUME Types, NEW k \in Tasks, Executes(k)
    PROVE  Types'
BY DEF Types, TypeOK, Phases, Executes, Goto, Buffers

\* Answers keeps Types.
LEMMA TypesAnswers ==
    ASSUME Types, NEW k \in Tasks, Answers(k)
    PROVE  Types'
<1>1. CASE \E b \in cache : local' = [local EXCEPT ![k] = b] /\ UNCHANGED <<addressOf, cache>>
  BY <1>1 DEF Types, TypeOK, Phases, Answers, Goto, Buffers
<1> DEFINE b == Len(addressOf) + 1
<1>2. CASE /\ Allocated(b)
           /\ local' = [local EXCEPT ![k] = b]
           /\ cache' \in {cache, cache \cup {b}}
  <2> HIDE DEF b
  <2>1. /\ addressOf' \in Seq(Addresses)
        /\ Buffers' = Buffers \cup {b}
    BY <1>2, AllocatedFacts DEF Types
  <2>2. \A a \in DOMAIN registry : registry[a] \in Seq(Buffers')
    BY <2>1, SeqMonotonic DEF Types, TypeOK
  <2>3. TypeOK'
    BY <1>2, <2>1, <2>2 DEF Types, TypeOK, Answers, Goto
  <2>4. Phases'
    BY <1>2, <2>1 DEF Types, TypeOK, Phases, Answers, Goto
  <2>5. QED
    BY <2>3, <2>4 DEF Types
<1>3. QED
  BY <1>1, <1>2 DEF Answers

\* Register keeps Types.
LEMMA TypesRegister ==
    ASSUME Types, NEW k \in Tasks, Register(k)
    PROVE  Types'
<1>1. local[k] \in Buffers /\ addressOf[local[k]] \in Addresses
  BY ElementOfSeq, LenProperties DEF Types, TypeOK, Phases, Register, Buffers
<1>2. /\ DOMAIN registry' \subseteq Addresses
      /\ \A x \in DOMAIN registry' : registry'[x] \in Seq(Buffers) /\ registry'[x] # <<>>
  BY <1>1, RegisteredFacts DEF Types, Register
<1>3. held' \in [Tasks -> SUBSET [call : 1..MaxCalls, buffer : Buffers]]
  <2>1. call[k] \in 1..MaxCalls
    BY DEF Types, TypeOK, Phases, Register
  <2>2. held \in [Tasks -> SUBSET [call : 1..MaxCalls, buffer : Buffers]]
    BY DEF Types, TypeOK
  <2>3. held' = held \/ held' = [held EXCEPT ![k] = @ \cup {[call |-> call[k], buffer |-> local[k]]}]
    BY DEF Register, HandOut
  <2>4. QED
    BY <1>1, <2>1, <2>2, <2>3
<1>4. QED
  BY <1>2, <1>3 DEF Types, TypeOK, Phases, Register, Goto, Buffers

\* Wrap keeps Types.
LEMMA TypesWrap ==
    ASSUME Types, NEW k \in Tasks, Wrap(k)
    PROVE  Types'
<1>1. held' \in [Tasks -> SUBSET [call : 1..MaxCalls, buffer : Buffers]]
  BY DEF Types, TypeOK, Phases, Wrap, HandOut
<1>2. QED
  BY <1>1 DEF Types, TypeOK, Phases, Wrap, Goto, Buffers, memory

\* That the entry is there is only known further down.
LEMMA TypesWrapFails ==
    ASSUME Types, NEW k \in Tasks, WrapFails(k)
    PROVE  Types'
<1> DEFINE a == addressOf[local[k]]
<1>1. /\ DOMAIN registry' \subseteq Addresses
      /\ \A x \in DOMAIN registry' : registry'[x] \in Seq(Buffers) /\ registry'[x] # <<>>
  <2>1. CASE a \in DOMAIN registry
    BY <2>1, ReleasedFacts DEF Types, TypeOK, WrapFails
  <2>2. CASE a \notin DOMAIN registry
    BY <2>2 DEF Types, TypeOK, WrapFails, Released
  <2>3. QED
    BY <2>1, <2>2
<1>2. call[k] \in 1..MaxCalls
  BY BufferAssumption DEF Types, TypeOK, Phases, WrapFails
<1>3. QED
  BY <1>1, <1>2 DEF Types, TypeOK, Phases, WrapFails, Goto, Buffers

\* Copies keeps Types.
LEMMA TypesCopies ==
    ASSUME Types, NEW k \in Tasks, Copies(k)
    PROVE  Types'
BY DEF Types, TypeOK, Phases, Copies, Goto, Buffers, memory

\* Finds keeps Types.
LEMMA TypesFinds ==
    ASSUME Types, NEW k \in Tasks, Finds(k)
    PROVE  Types'
<1> DEFINE b == Len(addressOf) + 1
<1>1. CASE abi = "c"
  <2>0. Allocated(b) /\ boxes' = boxes \cup {b} /\ HandOut(k, b)
    BY <1>1 DEF Finds
  <2> HIDE DEF b
  <2>1. /\ addressOf' \in Seq(Addresses)
        /\ Buffers' = Buffers \cup {b}
    BY <2>0, AllocatedFacts DEF Types
  <2>2. \A a \in DOMAIN registry : registry[a] \in Seq(Buffers')
    BY <2>1, SeqMonotonic DEF Types, TypeOK
  <2>3. held' \in [Tasks -> SUBSET [call : 1..MaxCalls, buffer : Buffers']]
    BY <2>0, <2>1 DEF Types, TypeOK, Phases, Finds, HandOut
  <2>4. TypeOK'
    BY <2>0, <2>1, <2>2, <2>3 DEF Types, TypeOK, Finds, Goto
  <2>5. Phases'
    BY <2>1 DEF Types, TypeOK, Phases, Finds, Goto
  <2>6. QED
    BY <2>4, <2>5 DEF Types
<1>2. CASE abi # "c"
  BY <1>2 DEF Types, TypeOK, Phases, Finds, Goto, Buffers
<1>3. QED
  BY <1>1, <1>2

\* What a host holds has an address.
LEMMA HeldFacts ==
    ASSUME Types, NEW k \in Tasks, NEW h \in held[k]
    PROVE  /\ h \in [call : 1..MaxCalls, buffer : Buffers]
           /\ h.buffer \in Buffers /\ addressOf[h.buffer] \in Addresses
BY ElementOfSeq, LenProperties DEF Types, TypeOK, Buffers

\* Free keeps Types.
LEMMA TypesFree ==
    ASSUME Types, NEW k \in Tasks, NEW h \in held[k], Free(k, h)
    PROVE  Types'
<1> DEFINE a == addressOf[h.buffer]
<1>1. /\ DOMAIN registry' \subseteq Addresses
      /\ \A x \in DOMAIN registry' : registry'[x] \in Seq(Buffers) /\ registry'[x] # <<>>
      /\ boxes' \subseteq boxes
  <2>1. CASE a \in DOMAIN registry
    BY <2>1, ReleasedFacts DEF Types, TypeOK, Free
  <2>2. CASE a \notin DOMAIN registry
    BY <2>2 DEF Types, TypeOK, Free
  <2>3. QED
    BY <2>1, <2>2
<1>2. QED
  BY <1>1 DEF Types, TypeOK, Phases, Free, Buffers

\* Evict keeps Types.
LEMMA TypesEvict == Types /\ Evict => Types'
BY DEF Types, TypeOK, Phases, Evict, Buffers

\* Close keeps Types.
LEMMA TypesClose == Types /\ Close => Types'
BY DEF Types, TypeOK, Phases, Close, Buffers

\* A stuttering step keeps Types.
LEMMA TypesStutter == Types /\ UNCHANGED vars => Types'
BY DEF Types, TypeOK, Phases, Buffers, vars

\* Every step keeps Types.
LEMMA TypesNext == Types /\ [Next]_vars => Types'
<1>1. SUFFICES ASSUME Types, [Next]_vars PROVE Types'
  OBVIOUS
<1>2. ASSUME NEW k \in Tasks, NEW kind \in {"execute", "query", "find"}, Call(k, kind)
      PROVE  Types'
  BY <1>1, <1>2, TypesCall
<1>3. ASSUME NEW k \in Tasks, Fails(k) \/ ReadError(k) \/ Executes(k) \/ Answers(k)
      PROVE  Types'
  BY <1>1, <1>3, TypesFails, TypesReadError, TypesExecutes, TypesAnswers
<1>4. ASSUME NEW k \in Tasks, Register(k) \/ Wrap(k) \/ WrapFails(k) \/ Copies(k) \/ Finds(k)
      PROVE  Types'
  BY <1>1, <1>4, TypesRegister, TypesWrap, TypesWrapFails, TypesCopies, TypesFinds
<1>5. ASSUME NEW k \in Tasks, NEW h \in held[k], Free(k, h)
      PROVE  Types'
  BY <1>1, <1>5, TypesFree
<1>6. CASE Evict \/ Close \/ Quiescent \/ UNCHANGED vars
  BY <1>1, <1>6, TypesEvict, TypesClose, TypesStutter DEF Quiescent
<1>7. QED
  BY <1>1, <1>2, <1>3, <1>4, <1>5, <1>6 DEF Next

\* Types always holds.
LEMMA TypesInvariant == Spec => []Types
<1>1. QED
  BY TypesInit, TypesNext, PTL DEF Spec

\* Every variable keeps its type: an address is one of the allocator's, a
\* reference is to an allocation that was made, an entry of the registry is
\* never empty.
THEOREM TypeHolds == Spec => []TypeOK
<1>1. Types => TypeOK
  BY DEF Types
<1>2. QED
  BY <1>1, TypesInvariant, PTL

-----------------------------------------------------------------------------
(***************************************************************************)
(* Error messages.  A task keeps its thread for itself until it has read   *)
(* the message, so nobody clears or overwrites the slot in between.        *)
(***************************************************************************)
SlotInv ==
    /\ thread \in [Tasks -> Threads]
    /\ pc \in [Tasks -> {"idle", "execute", "query", "find", "failed", "answered", "wrap"}]
    /\ DOMAIN slot = Threads
    /\ DOMAIN message = Tasks
    /\ \A k, o \in Tasks : k # o /\ thread[k] = thread[o] => "idle" \in {pc[k], pc[o]}
    /\ \A k \in Tasks : pc[k] = "failed" => slot[thread[k]] = call[k]

\* Any step of a call under way but its failure: the task stays on its thread
\* and touches no slot.
QuietStep(k) ==
    /\ pc[k] \notin {"idle", "failed"}
    /\ \E l \in {"idle", "answered", "wrap"} : Goto(k, l)
    /\ UNCHANGED <<thread, slot, call>>
    /\ \/ UNCHANGED message
       \/ \E c : message' = [message EXCEPT ![k] = c]

\* Every step of the interface is a call, a failure, the reading of a message,
\* a quiet step, or leaves all calls where they are.
LEMMA StepKinds ==
    ASSUME [Next]_vars
    PROVE  \/ \E k \in Tasks, kind \in {"execute", "query", "find"} : Call(k, kind)
           \/ \E k \in Tasks : Fails(k) \/ ReadError(k) \/ QuietStep(k)
           \/ UNCHANGED <<pc, thread, slot, call, message>>
<1>1. ASSUME NEW k \in Tasks, Executes(k) \/ Answers(k) \/ Register(k)
      PROVE  QuietStep(k)
  BY <1>1 DEF QuietStep, Executes, Answers, Register, Goto
<1>2. ASSUME NEW k \in Tasks, Wrap(k) \/ WrapFails(k) \/ Copies(k) \/ Finds(k)
      PROVE  QuietStep(k)
  BY <1>2 DEF QuietStep, Wrap, WrapFails, Copies, Finds, Goto
<1>3. ASSUME NEW k \in Tasks, NEW h \in held[k], Free(k, h)
      PROVE  UNCHANGED <<pc, thread, slot, call, message>>
  BY <1>3 DEF Free
<1>4. ASSUME Evict \/ Close \/ Quiescent \/ UNCHANGED vars
      PROVE  UNCHANGED <<pc, thread, slot, call, message>>
  BY <1>4 DEF Evict, Close, Quiescent, vars
<1>5. QED
  BY <1>1, <1>2, <1>3, <1>4 DEF Next

\* The first state has SlotInv.
LEMMA SlotInit == Init => SlotInv
BY DEF Init, SlotInv

\* Every step keeps SlotInv.
LEMMA SlotNext == SlotInv /\ [Next]_vars => SlotInv'
<1>1. SUFFICES ASSUME SlotInv, [Next]_vars PROVE SlotInv'
  OBVIOUS
<1>2. ASSUME NEW k \in Tasks, NEW kind \in {"execute", "query", "find"}, Call(k, kind)
      PROVE  SlotInv'
  <2>1. PICK t \in Threads :
           /\ Pinned(k, t)
           /\ thread' = [thread EXCEPT ![k] = t]
           /\ slot' = IF abi = "c" THEN [slot EXCEPT ![t] = None] ELSE slot
    BY <1>2 DEF Call
  <2>2. \A o \in Tasks \ {k} : thread[o] = t => pc[o] = "idle"
    BY <2>1 DEF Pinned
  <2>3. /\ pc' = [pc EXCEPT ![k] = kind] /\ UNCHANGED message
        /\ \A o \in Tasks \ {k} : call'[o] = call[o]
    BY <1>2 DEF Call, Goto
  <2>4. QED
    BY <1>1, <2>1, <2>2, <2>3 DEF SlotInv
<1>3. ASSUME NEW k \in Tasks, Fails(k)
      PROVE  SlotInv'
  BY <1>1, <1>3 DEF SlotInv, Fails, Goto
<1>4. ASSUME NEW k \in Tasks, ReadError(k)
      PROVE  SlotInv'
  BY <1>1, <1>4 DEF SlotInv, ReadError, Goto
<1>5. ASSUME NEW k \in Tasks, QuietStep(k)
      PROVE  SlotInv'
  BY <1>1, <1>5 DEF SlotInv, QuietStep, Goto
<1>6. CASE UNCHANGED <<pc, thread, slot, call, message>>
  BY <1>1, <1>6 DEF SlotInv
<1>7. QED
  BY <1>1, <1>2, <1>3, <1>4, <1>5, <1>6, StepKinds

\* "powder_last_error" answers "for the last failing call on this thread":
\* whatever the other threads do, the message a host reads after a sentinel
\* is about its own call.
THEOREM ErrorIsOwnHolds == Spec => ErrorIsOwn
<1>1. SlotInv /\ [Next]_vars
        => [\A k \in Tasks :
              pc[k] = "failed" /\ pc'[k] = "idle" => message'[k] = call[k]]_vars
  <2>1. SUFFICES ASSUME SlotInv, [Next]_vars, NEW k \in Tasks,
                        pc[k] = "failed", pc'[k] = "idle"
                 PROVE  message'[k] = call[k]
    OBVIOUS
  <2>2. ASSUME NEW o \in Tasks, NEW kind \in {"execute", "query", "find"}, Call(o, kind)
        PROVE  FALSE
    BY <2>1, <2>2 DEF SlotInv, Call, Goto
  <2>3. ASSUME NEW o \in Tasks, Fails(o) \/ QuietStep(o)
        PROVE  FALSE
    BY <2>1, <2>3 DEF SlotInv, Fails, QuietStep, Goto
  <2>4. ASSUME NEW o \in Tasks, ReadError(o)
        PROVE  message'[k] = call[k]
    BY <2>1, <2>4 DEF SlotInv, ReadError, Goto
  <2>5. QED
    BY <2>1, <2>2, <2>3, <2>4, StepKinds
<1>2. QED
  BY <1>1, SlotInit, SlotNext, PTL DEF Spec, ErrorIsOwn

-----------------------------------------------------------------------------
(***************************************************************************)
(* References and handouts.                                                *)
(***************************************************************************)
\* Something other than a box refers to b.
Shared(b) ==
    \/ b \in cache
    \/ \E k \in Tasks : local[k] = b
    \/ \E a \in Addresses : b \in Refs(a)

Lives(b) == Shared(b) \/ b \in boxes

\* No two live buffers share an address, and the registry keeps every
\* reference under the address of its buffer.
OneBufferEach ==
    /\ \A b, c \in Buffers : Lives(b) /\ Lives(c) /\ addressOf[b] = addressOf[c] => b = c
    /\ \A b \in boxes : ~Shared(b)
    /\ \A a \in Addresses : \A b \in Refs(a) : addressOf[b] = a

\* The number of a call identifies it: what a task will be handed out is not
\* yet held by anyone, and no two handouts are of the same call.
Tickets ==
    /\ \A k \in Tasks : call[k] <= calls
    /\ \A k \in Tasks : \A h \in held[k] : h.call <= calls
    /\ \A k, o \in Tasks : pc[k] # "idle" /\ pc[o] # "idle" /\ call[k] = call[o] => k = o
    /\ \A k, o \in Tasks : pc[k] # "idle" => \A h \in held[o] : h.call # call[k]
    /\ \A k, o \in Tasks : \A h \in held[k], g \in held[o] : h.call = g.call => k = o /\ h = g

\* A box is handed out once.
BoxesOnce ==
    \A k, o \in Tasks : \A h \in held[k], g \in held[o] :
        h.buffer \in boxes /\ h.buffer = g.buffer => k = o /\ h = g

\* What is handed out, or about to be, is referred to.
Backed ==
    /\ PointersStayValid
    /\ \A k \in Tasks : pc[k] = "wrap" => local[k] \in Refs(addressOf[local[k]])

Finite == \A a \in Addresses : IsFiniteSet(Outstanding(a)) /\ IsFiniteSet(Wrapping(a))

HandoutInv ==
    OneBufferEach /\ Tickets /\ BoxesOnce /\ Backed /\ Finite /\ FreedAsOftenAsHandedOut

Handouts == Types /\ HandoutInv

\* A buffer is never the mark of there being none.
LEMMA BuffersAreNumbers ==
    ASSUME TypeOK, NEW b \in Buffers
    PROVE  b \in Nat /\ b # None
BY BufferAssumption, LenProperties DEF TypeOK, Buffers

\* A buffer lives by the registry, the boxes, the cache or a call, as Live has
\* it: what a call knows only the address of is in the registry.
LEMMA LiveIs ==
    ASSUME Types, Backed, NEW b \in Buffers
    PROVE  b \in Live <=> Lives(b)
<1>1. \A k \in Tasks : local[k] = b =>
         pc[k] = "answered" \/ \E a \in Addresses : b \in Refs(a)
  <2> TAKE k \in Tasks
  <2> HAVE local[k] = b
  <2>1. b # None /\ addressOf[b] \in Addresses
    BY BuffersAreNumbers DEF Types, TypeOK, Buffers
  <2>2. pc[k] \in {"answered", "wrap"}
    BY <2>1 DEF Types, Phases
  <2>3. QED
    BY <2>1, <2>2 DEF Backed
<1>2. ToSet(<<>>) = {}
  BY DEF ToSet
<1>3. (\E a \in Addresses : b \in Refs(a)) <=> b \in UNION {ToSet(registry[a]) : a \in DOMAIN registry}
  BY <1>2 DEF Refs, References, Types, TypeOK
<1>4. QED
  BY <1>1, <1>3 DEF Live, Lives, Shared

\* Fewer references, at the addresses they were.
LEMMA OneBufferEachShrinks ==
    ASSUME TypeOK, OneBufferEach, UNCHANGED addressOf, boxes' \subseteq boxes,
           \A b \in Buffers : Shared(b)' => Shared(b),
           \A a \in Addresses : \A b \in Refs(a)' : addressOf[b] = a
    PROVE  OneBufferEach'
BY DEF TypeOK, OneBufferEach, Lives, Buffers

\* One more buffer, at an address no live buffer had.
LEMMA OneBufferEachGrows ==
    ASSUME Types, Backed, OneBufferEach, NEW b, Allocated(b), UNCHANGED registry,
           \A c \in Buffers : Lives(c)' => Lives(c),
           \A c \in boxes' : ~Shared(c)'
    PROVE  OneBufferEach'
<1>1. /\ b \notin Buffers /\ Buffers' = Buffers \cup {b}
      /\ \A c \in Buffers : addressOf'[c] = addressOf[c]
      /\ addressOf'[b] \notin {addressOf[c] : c \in Live}
  BY AllocatedFacts DEF Types
<1>2. \A c \in Buffers : Lives(c) => addressOf[c] # addressOf'[b]
  BY <1>1, LiveIs
<1>3. \A a \in Addresses : Refs(a)' = Refs(a) /\ Refs(a) \subseteq Buffers
  BY ReferencesFacts DEF Refs, References, Types
<1>4. QED
  BY <1>1, <1>2, <1>3 DEF OneBufferEach

\* The tickets stay in order when no call begins or is handed a buffer.
LEMMA TicketsKept ==
    ASSUME Tickets, UNCHANGED <<call, calls>>,
           \A k \in Tasks : pc'[k] # "idle" => pc[k] # "idle",
           \A k \in Tasks : held'[k] \subseteq held[k]
    PROVE  Tickets'
BY DEF Tickets

\* A buffer handed out ends its call: the next ticket is of a later one.
LEMMA TicketsHandOut ==
    ASSUME Types, Tickets, NEW k \in Tasks, NEW b,
           HandOut(k, b), pc[k] # "idle", Goto(k, "idle"), UNCHANGED <<call, calls>>
    PROVE  Tickets'
<1>1. /\ \A o \in Tasks \ {k} : held'[o] = held[o] /\ pc'[o] = pc[o]
      /\ held'[k] = held[k] \cup {[call |-> call[k], buffer |-> b]}
      /\ pc'[k] = "idle"
  BY DEF HandOut, Goto, Types, TypeOK
<1>2. \A o \in Tasks : \A h \in held'[o] :
         h \in held[o] \/ (o = k /\ h = [call |-> call[k], buffer |-> b])
  BY <1>1
<1>3. \A o \in Tasks : pc'[o] # "idle" => o # k /\ pc[o] # "idle"
  BY <1>1
<1>4. QED
  BY <1>2, <1>3 DEF Tickets

\* Neither the registry nor what is held changes.
LEMMA MemoryKept ==
    ASSUME Handouts, Tickets', UNCHANGED <<addressOf, registry, boxes, held>>,
           \A b \in Buffers : Shared(b)' => Shared(b),
           \A k \in Tasks : pc'[k] = "wrap" <=> pc[k] = "wrap",
           \A k \in Tasks : pc[k] = "wrap" => local'[k] = local[k]
    PROVE  HandoutInv'
<1>1. \A a : References(a)' = References(a) /\ Refs(a)' = Refs(a)
  BY DEF References, Refs
<1>2. OneBufferEach'
  BY <1>1, OneBufferEachShrinks DEF Handouts, HandoutInv, OneBufferEach, Types
<1>3. \A a : Outstanding(a)' = Outstanding(a) /\ Wrapping(a)' = Wrapping(a)
  BY DEF Outstanding, Wrapping
<1>4. Finite' /\ FreedAsOftenAsHandedOut'
  BY <1>1, <1>3 DEF Handouts, HandoutInv, Finite, FreedAsOftenAsHandedOut
<1>5. Backed' /\ BoxesOnce'
  BY <1>1 DEF Handouts, HandoutInv, Backed, BoxesOnce, PointersStayValid, Refs
<1>6. QED
  BY <1>2, <1>4, <1>5 DEF HandoutInv

\* The first state has Handouts.
LEMMA HandoutsInit == Init => HandoutInv
<1>1. SUFFICES ASSUME Init PROVE HandoutInv
  OBVIOUS
<1>2. \A a : References(a) = <<>> /\ Refs(a) = {} /\ Len(References(a)) = 0
  BY <1>1, EmptySeq DEF Init, References, Refs, ToSet
<1>3. \A a : Outstanding(a) = {} /\ Wrapping(a) = {}
  BY <1>1 DEF Init, Outstanding, Wrapping
<1>4. Finite /\ FreedAsOftenAsHandedOut
  <2>1. IsFiniteSet({}) /\ Cardinality({}) = 0
    BY FS_EmptySet
  <2>2. \A a : /\ IsFiniteSet(Outstanding(a)) /\ IsFiniteSet(Wrapping(a))
               /\ Cardinality(Outstanding(a)) = 0 /\ Cardinality(Wrapping(a)) = 0
    BY <1>3, <2>1, Zenon
  <2>3. QED
    BY <1>2, <2>2 DEF Finite, FreedAsOftenAsHandedOut
<1>5. OneBufferEach
  BY <1>1, <1>2 DEF Init, OneBufferEach, Buffers
<1>6. Tickets /\ BoxesOnce /\ Backed
  BY <1>1 DEF Init, Tickets, BoxesOnce, Backed, PointersStayValid
<1>7. QED
  BY <1>4, <1>5, <1>6 DEF HandoutInv

\* Call keeps Handouts.
LEMMA HandoutsCall ==
    ASSUME Handouts, NEW k \in Tasks, NEW kind \in {"execute", "query", "find"}, Call(k, kind)
    PROVE  HandoutInv'
<1>1. Tickets'
  <2>1. /\ calls' = calls + 1 /\ call'[k] = calls + 1 /\ pc[k] = "idle"
        /\ \A o \in Tasks \ {k} : call'[o] = call[o] /\ pc'[o] = pc[o]
        /\ UNCHANGED held
    BY DEF Call, Goto, Handouts, Types, TypeOK
  <2>2. /\ calls \in Nat /\ \A o \in Tasks : call[o] \in Nat
        /\ \A o \in Tasks : \A h \in held[o] : h.call \in Nat
    BY BufferAssumption DEF Handouts, Types, TypeOK
  <2>3. QED
    BY <2>1, <2>2 DEF Handouts, HandoutInv, Tickets
<1>2. /\ UNCHANGED <<addressOf, cache, registry, boxes, held, local>>
      /\ \A o \in Tasks : pc'[o] = "wrap" <=> pc[o] = "wrap"
  BY DEF Call, Goto, memory, Handouts, Types, TypeOK
<1>3. QED
  BY <1>1, <1>2, MemoryKept DEF Shared, Refs, References

\* Fails keeps Handouts.
LEMMA HandoutsFails ==
    ASSUME Handouts, NEW k \in Tasks, Fails(k)
    PROVE  HandoutInv'
<1>1. /\ UNCHANGED <<addressOf, cache, registry, boxes, held, local, call, calls>>
      /\ \A o \in Tasks : pc'[o] = "wrap" <=> pc[o] = "wrap"
      /\ \A o \in Tasks : pc'[o] # "idle" => pc[o] # "idle"
  BY DEF Fails, Goto, memory, Handouts, Types, TypeOK
<1>2. Tickets'
  BY <1>1, TicketsKept DEF Handouts, HandoutInv
<1>3. QED
  BY <1>1, <1>2, MemoryKept DEF Shared, Refs, References

\* ReadError keeps Handouts.
LEMMA HandoutsReadError ==
    ASSUME Handouts, NEW k \in Tasks, ReadError(k)
    PROVE  HandoutInv'
<1>1. /\ UNCHANGED <<addressOf, cache, registry, boxes, held, local, call, calls>>
      /\ \A o \in Tasks : pc'[o] = "wrap" <=> pc[o] = "wrap"
      /\ \A o \in Tasks : pc'[o] # "idle" => pc[o] # "idle"
  BY DEF ReadError, Goto, memory, Handouts, Types, TypeOK
<1>2. Tickets'
  BY <1>1, TicketsKept DEF Handouts, HandoutInv
<1>3. QED
  BY <1>1, <1>2, MemoryKept DEF Shared, Refs, References

\* Executes keeps Handouts.
LEMMA HandoutsExecutes ==
    ASSUME Handouts, NEW k \in Tasks, Executes(k)
    PROVE  HandoutInv'
<1>1. /\ UNCHANGED <<addressOf, registry, boxes, held, local, call, calls>> /\ cache' = {}
      /\ \A o \in Tasks : pc'[o] = "wrap" <=> pc[o] = "wrap"
      /\ \A o \in Tasks : pc'[o] # "idle" => pc[o] # "idle"
  BY DEF Executes, Goto, Handouts, Types, TypeOK
<1>2. Tickets'
  BY <1>1, TicketsKept DEF Handouts, HandoutInv
<1>3. QED
  BY <1>1, <1>2, MemoryKept DEF Shared, Refs, References

\* Copies keeps Handouts.
LEMMA HandoutsCopies ==
    ASSUME Handouts, NEW k \in Tasks, Copies(k)
    PROVE  HandoutInv'
<1>1. /\ UNCHANGED <<addressOf, cache, registry, boxes, held, call, calls>>
      /\ pc[k] = "answered"
      /\ \A o \in Tasks : pc'[o] = "wrap" <=> pc[o] = "wrap"
      /\ \A o \in Tasks : pc'[o] # "idle" => pc[o] # "idle"
      /\ \A o \in Tasks : local'[o] = IF o = k THEN None ELSE local[o]
  BY DEF Copies, Goto, memory, Handouts, Types, TypeOK
<1>2. Tickets'
  BY <1>1, TicketsKept DEF Handouts, HandoutInv
<1>3. QED
  BY <1>1, <1>2, MemoryKept, BuffersAreNumbers DEF Shared, Refs, References, Handouts, Types

\* Eviction, close and nothing leave handouts alone.
LEMMA HandoutsRest == Handouts /\ (Evict \/ Close \/ UNCHANGED vars) => HandoutInv'
<1>1. SUFFICES ASSUME Handouts, Evict \/ Close \/ UNCHANGED vars PROVE HandoutInv'
  OBVIOUS
<1>2. /\ UNCHANGED <<addressOf, registry, boxes, held, local, call, calls, pc>>
      /\ cache' \subseteq cache
  BY <1>1 DEF Evict, Close, vars
<1>3. Tickets'
  BY <1>1, <1>2, TicketsKept DEF Handouts, HandoutInv
<1>4. QED
  BY <1>1, <1>2, <1>3, MemoryKept DEF Shared, Refs, References

-----------------------------------------------------------------------------
(***************************************************************************)
(* The steps that allocate, register, hand out and free.                   *)
(***************************************************************************)
\* What a call is about to be handed out joins the handouts of its address.
LEMMA HandOutCounts ==
    ASSUME Handouts, NEW k \in Tasks, NEW b \in Buffers,
           pc[k] # "idle", b \notin boxes, HandOut(k, b), UNCHANGED <<addressOf, boxes>>,
           NEW x \in Addresses
    PROVE  /\ IsFiniteSet(Outstanding(x)')
           /\ Cardinality(Outstanding(x)') =
                 Cardinality(Outstanding(x)) + (IF x = addressOf[b] THEN 1 ELSE 0)
<1> DEFINE h == [call |-> call[k], buffer |-> b]
<1>1. /\ \A o \in Tasks \ {k} : held'[o] = held[o]
      /\ held'[k] = held[k] \cup {h}
  BY DEF HandOut, Handouts, Types, TypeOK
<1>2. h.buffer = b /\ h.call = call[k]
  OBVIOUS
<1> HIDE DEF h
<1>3. \A g : g \in Outstanding(x) <=>
              \E o \in Tasks : g \in held[o] /\ addressOf[g.buffer] = x /\ g.buffer \notin boxes
  BY DEF Outstanding
<1>4. \A g : g \in Outstanding(x)' <=>
              \E o \in Tasks : g \in held'[o] /\ addressOf[g.buffer] = x /\ g.buffer \notin boxes
  BY DEF Outstanding
<1>5. h \notin Outstanding(x)
  BY <1>2, <1>3 DEF Handouts, HandoutInv, Tickets
<1>6. IsFiniteSet(Outstanding(x)) /\ Cardinality(Outstanding(x)) \in Nat
  BY FS_CardinalityType DEF Handouts, HandoutInv, Finite
<1>7. CASE x = addressOf[b]
  <2>1. Outstanding(x)' = Outstanding(x) \cup {h}
    BY <1>1, <1>2, <1>3, <1>4, <1>7
  <2>2. QED
    BY <1>5, <1>6, <1>7, <2>1, FS_AddElement
<1>8. CASE x # addressOf[b]
  <2>1. Outstanding(x)' = Outstanding(x)
    BY <1>1, <1>2, <1>3, <1>4, <1>8
  <2>2. QED
    BY <1>6, <1>8, <2>1
<1>9. QED
  BY <1>7, <1>8

\* A call whose wrapper is made or given up leaves the calls that wrap.
LEMMA WrapEndsCounts ==
    ASSUME Handouts, NEW k \in Tasks, pc[k] = "wrap", Goto(k, "idle"),
           local' = [local EXCEPT ![k] = None], UNCHANGED addressOf,
           NEW x \in Addresses
    PROVE  /\ IsFiniteSet(Wrapping(x)')
           /\ Cardinality(Wrapping(x)') =
                 Cardinality(Wrapping(x)) - (IF x = addressOf[local[k]] THEN 1 ELSE 0)
<1>1. /\ \A o \in Tasks : pc'[o] = IF o = k THEN "idle" ELSE pc[o]
      /\ \A o \in Tasks \ {k} : local'[o] = local[o]
  BY DEF Goto, Handouts, Types, TypeOK
<1>2. IsFiniteSet(Wrapping(x)) /\ Cardinality(Wrapping(x)) \in Nat
  BY FS_CardinalityType DEF Handouts, HandoutInv, Finite
<1>3. CASE x = addressOf[local[k]]
  <2>1. k \in Wrapping(x) /\ Wrapping(x)' = Wrapping(x) \ {k}
    BY <1>1, <1>3 DEF Wrapping
  <2>2. QED
    BY <1>2, <1>3, <2>1, FS_RemoveElement
<1>4. CASE x # addressOf[local[k]]
  <2>1. Wrapping(x)' = Wrapping(x)
    BY <1>1, <1>4 DEF Wrapping
  <2>2. QED
    BY <1>2, <1>4, <2>1
<1>5. QED
  BY <1>3, <1>4

\* Two sets of handouts with the same members.
LEMMA SameHandouts ==
    ASSUME NEW x, \A g : g \in Outstanding(x)' <=> g \in Outstanding(x)
    PROVE  Outstanding(x)' = Outstanding(x)
BY Zenon

\* No call wraps that did not, and what wraps keeps its buffer.
LEMMA WrappingKept ==
    ASSUME UNCHANGED addressOf,
           \A o \in Tasks : pc'[o] = "wrap" <=> pc[o] = "wrap",
           \A o \in Tasks : pc[o] = "wrap" => local'[o] = local[o],
           NEW x
    PROVE  Wrapping(x)' = Wrapping(x)
BY DEF Wrapping

\* After a reference under one address is popped: the count says whether one
\* is left, and whichever is left is to the one buffer of that address.
LEMMA BackedByCount ==
    ASSUME Handouts, Types', UNCHANGED <<addressOf, boxes>>,
           Finite', FreedAsOftenAsHandedOut',
           \A a \in Addresses : Refs(a)' \subseteq Refs(a),
           \A k \in Tasks : held'[k] \subseteq held[k],
           \A k \in Tasks : pc'[k] = "wrap" => pc[k] = "wrap" /\ local'[k] = local[k]
    PROVE  Backed'
<1>1. \A a \in Addresses : \A b \in Refs(a) :
         b \in Buffers /\ addressOf[b] = a /\ Lives(b)
  BY ReferencesFacts DEF Handouts, Types, HandoutInv, OneBufferEach, Lives, Shared
<1>2. ASSUME NEW a \in Addresses, NEW b \in Refs(a),
             Outstanding(a)' # {} \/ Wrapping(a)' # {}
      PROVE  b \in Refs(a)'
  <2>1. /\ Cardinality(Outstanding(a)') \in Nat /\ Cardinality(Wrapping(a)') \in Nat
        /\ Cardinality(Outstanding(a)') = 0 <=> Outstanding(a)' = {}
        /\ Cardinality(Wrapping(a)') = 0 <=> Wrapping(a)' = {}
    BY FS_EmptySet, FS_CardinalityType DEF Finite
  <2>2. Len(References(a)') > 0
    BY <1>2, <2>1 DEF FreedAsOftenAsHandedOut
  <2>3. Refs(a)' # {}
    <3>1. References(a)' \in Seq(Buffers')
      BY EmptySeq DEF References, Types, TypeOK
    <3>2. QED
      BY <2>2, <3>1, NonEmptyFacts DEF Refs
  <2>4. PICK c \in Refs(a)' : TRUE
    BY <2>3
  <2>5. c = b
    BY <1>1, <2>4 DEF Handouts, HandoutInv, OneBufferEach
  <2>6. QED
    BY <2>4, <2>5
<1>3. ASSUME NEW k \in Tasks, NEW h \in held'[k], h.buffer \notin boxes
      PROVE  h.buffer \in Refs(addressOf[h.buffer])'
  <2>1. h \in held[k] /\ addressOf[h.buffer] \in Addresses
    BY <1>3, HeldFacts DEF Handouts
  <2>2. h.buffer \in Refs(addressOf[h.buffer])
    BY <1>3, <2>1 DEF Handouts, HandoutInv, Backed, PointersStayValid, Refs
  <2>3. h \in Outstanding(addressOf[h.buffer])'
    BY <1>3 DEF Outstanding
  <2>4. QED
    BY <1>2, <2>1, <2>2, <2>3
<1>4. ASSUME NEW k \in Tasks, pc'[k] = "wrap"
      PROVE  (local[k] \in Refs(addressOf[local[k]]))'
  <2>1. pc[k] = "wrap" /\ local'[k] = local[k] /\ local[k] \in Buffers
    BY <1>4 DEF Handouts, Types, Phases
  <2>2. addressOf[local[k]] \in Addresses
    BY <2>1, ElementOfSeq, LenProperties DEF Handouts, Types, TypeOK, Buffers
  <2>3. local[k] \in Refs(addressOf[local[k]])
    BY <2>1 DEF Handouts, HandoutInv, Backed
  <2>4. k \in Wrapping(addressOf[local[k]])'
    BY <1>4, <2>1 DEF Wrapping
  <2>5. QED
    BY <1>2, <2>1, <2>2, <2>3, <2>4
<1>5. QED
  BY <1>3, <1>4 DEF Backed, PointersStayValid, Refs

\* Answers keeps Handouts.
LEMMA HandoutsAnswers ==
    ASSUME Handouts, NEW k \in Tasks, Answers(k)
    PROVE  HandoutInv'
<1>1. /\ pc[k] = "query" /\ Goto(k, "answered")
      /\ UNCHANGED <<calls, registry, boxes, call, held>>
      /\ \A o \in Tasks : pc'[o] = IF o = k THEN "answered" ELSE pc[o]
  BY DEF Answers, Goto, Handouts, Types, TypeOK
<1>2. Tickets'
  BY <1>1, TicketsKept DEF Handouts, HandoutInv
<1>3. CASE \E b \in cache : local' = [local EXCEPT ![k] = b] /\ UNCHANGED <<addressOf, cache>>
  <2>1. PICK b \in cache : local' = [local EXCEPT ![k] = b] /\ UNCHANGED <<addressOf, cache>>
    BY <1>3
  <2>2. \A o \in Tasks : local'[o] = IF o = k THEN b ELSE local[o]
    BY <2>1 DEF Handouts, Types, TypeOK
  <2>3. \A c \in Buffers : Shared(c)' => Shared(c)
    BY <1>1, <2>1, <2>2 DEF Shared, Refs, References
  <2>4. QED
    BY <1>1, <1>2, <2>1, <2>2, <2>3, MemoryKept
<1> DEFINE b == Len(addressOf) + 1
<1>4. CASE /\ Allocated(b)
           /\ local' = [local EXCEPT ![k] = b]
           /\ cache' \in {cache, cache \cup {b}}
  <2> HIDE DEF b
  <2>1. /\ b \notin Buffers /\ Buffers' = Buffers \cup {b}
        /\ \A c \in Buffers : addressOf'[c] = addressOf[c]
    BY <1>4, AllocatedFacts DEF Handouts, Types
  <2>2. \A o \in Tasks : local'[o] = IF o = k THEN b ELSE local[o]
    BY <1>4 DEF Handouts, Types, TypeOK
  <2>3. \A a : References(a)' = References(a) /\ Refs(a)' = Refs(a)
    BY <1>1 DEF References, Refs
  <2>4. \A c \in Buffers : Shared(c)' => Shared(c)
    BY <1>4, <2>1, <2>2, <2>3 DEF Shared
  <2>5. \A c \in Buffers : Lives(c)' => Lives(c)
    BY <1>1, <2>4 DEF Lives
  <2>6. \A c \in boxes' : ~Shared(c)'
    BY <1>1, <2>4 DEF Handouts, Types, TypeOK, HandoutInv, OneBufferEach
  <2>7. OneBufferEach'
    BY <1>1, <1>4, <2>5, <2>6, OneBufferEachGrows DEF Handouts, Types, HandoutInv
  <2>8. \A o \in Tasks : \A h \in held[o] : addressOf'[h.buffer] = addressOf[h.buffer]
    BY <2>1, HeldFacts DEF Handouts
  <2>9. \A o \in Tasks : pc[o] = "wrap" => local[o] \in Buffers /\ o # k
    BY <1>1 DEF Handouts, Types, Phases
  <2>10. \A a : Outstanding(a)' = Outstanding(a) /\ Wrapping(a)' = Wrapping(a)
    <3>1. \A a : Outstanding(a)' = Outstanding(a)
      BY <1>1, <2>8 DEF Outstanding
    <3>2. \A a : Wrapping(a)' = Wrapping(a)
      BY <1>1, <2>1, <2>2, <2>9 DEF Wrapping
    <3>3. QED
      BY <3>1, <3>2
  <2>11. Finite' /\ FreedAsOftenAsHandedOut'
    BY <2>3, <2>10 DEF Handouts, HandoutInv, Finite, FreedAsOftenAsHandedOut
  <2>12. Backed' /\ BoxesOnce'
    BY <1>1, <2>1, <2>2, <2>3, <2>8, <2>9
    DEF Handouts, HandoutInv, Backed, BoxesOnce, PointersStayValid, Refs
  <2>13. QED
    BY <1>2, <2>7, <2>11, <2>12 DEF HandoutInv
<1>5. QED
  BY <1>3, <1>4 DEF Answers

\* Finds keeps Handouts.
LEMMA HandoutsFinds ==
    ASSUME Handouts, NEW k \in Tasks, Finds(k)
    PROVE  HandoutInv'
<1>1. /\ pc[k] = "find" /\ Goto(k, "idle")
      /\ UNCHANGED <<calls, cache, registry, call, local>>
      /\ \A o \in Tasks : pc'[o] = IF o = k THEN "idle" ELSE pc[o]
  BY DEF Finds, Goto, Handouts, Types, TypeOK
<1>2. CASE abi # "c"
  <2>1. UNCHANGED <<addressOf, boxes, held>>
    BY <1>2 DEF Finds
  <2>2. Tickets'
    BY <1>1, <2>1, TicketsKept DEF Handouts, HandoutInv
  <2>3. QED
    BY <1>1, <2>1, <2>2, MemoryKept DEF Shared, Refs, References
<1> DEFINE b == Len(addressOf) + 1
<1>3. CASE abi = "c"
  <2>0. Allocated(b) /\ boxes' = boxes \cup {b} /\ HandOut(k, b)
    BY <1>3 DEF Finds
  <2> HIDE DEF b
  <2>1. /\ b \notin Buffers /\ Buffers' = Buffers \cup {b}
        /\ \A c \in Buffers : addressOf'[c] = addressOf[c]
        /\ b \in Nat
    BY <2>0, AllocatedFacts DEF Handouts, Types
  <2>2. Tickets'
    BY <1>1, <2>0, TicketsHandOut DEF Handouts, HandoutInv
  <2>3. \A a : References(a)' = References(a) /\ Refs(a)' = Refs(a)
    BY <1>1 DEF References, Refs
  <2>4. \A c : Shared(c)' <=> Shared(c)
    BY <1>1, <2>3 DEF Shared
  <2>5. ~Shared(b)
    BY <2>1, BufferAssumption, ReferencesFacts
    DEF Shared, Handouts, Types, TypeOK
  <2>6. OneBufferEach'
    <3>1. \A c \in Buffers : Lives(c)' => Lives(c)
      BY <2>0, <2>1, <2>4 DEF Lives
    <3>2. \A c \in boxes' : ~Shared(c)'
      BY <2>0, <2>4, <2>5 DEF Handouts, HandoutInv, OneBufferEach
    <3>3. QED
      BY <1>1, <2>0, <3>1, <3>2, OneBufferEachGrows DEF Handouts, Types, HandoutInv
  <2>7. \A o \in Tasks : \A h \in held[o] :
           h.buffer # b /\ addressOf'[h.buffer] = addressOf[h.buffer]
    BY <2>1, HeldFacts DEF Handouts
  <2>8. \A o \in Tasks : \A h \in held'[o] :
           h \in held[o] \/ (o = k /\ h = [call |-> call[k], buffer |-> b])
    BY <2>0 DEF HandOut, Handouts, Types, TypeOK
  <2>9. \A o \in Tasks : held[o] \subseteq held'[o]
    BY <2>0 DEF HandOut, Handouts, Types, TypeOK
  <2>10. \A a : Outstanding(a)' = Outstanding(a)
    <3>1. \A a, h : h \in Outstanding(a) <=>
             \E o \in Tasks : h \in held[o] /\ addressOf[h.buffer] = a /\ h.buffer \notin boxes
      BY DEF Outstanding
    <3>2. \A a, h : h \in Outstanding(a)' <=>
             \E o \in Tasks : h \in held'[o] /\ addressOf'[h.buffer] = a /\ h.buffer \notin boxes'
      BY DEF Outstanding
    <3>3. \A o \in Tasks : \A h \in held'[o] : h.buffer \notin boxes' => h \in held[o]
      BY <2>0, <2>8
    <3>4. \A o \in Tasks : \A h \in held[o] :
             /\ h \in held'[o] /\ addressOf'[h.buffer] = addressOf[h.buffer]
             /\ h.buffer \in boxes' <=> h.buffer \in boxes
      BY <2>0, <2>7, <2>9
    <3>5. \A a, h : h \in Outstanding(a)' <=> h \in Outstanding(a)
      BY <3>1, <3>2, <3>3, <3>4
    <3>6. QED
      BY <3>5
  <2>11. \A a : Wrapping(a)' = Wrapping(a)
    <3>1. \A o \in Tasks : pc[o] = "wrap" => addressOf'[local[o]] = addressOf[local[o]] /\ o # k
      BY <1>1, <2>1 DEF Handouts, Types, Phases
    <3>2. QED
      BY <1>1, <3>1 DEF Wrapping
  <2>12. Finite' /\ FreedAsOftenAsHandedOut'
    BY <2>3, <2>10, <2>11 DEF Handouts, HandoutInv, Finite, FreedAsOftenAsHandedOut
  <2>13. BoxesOnce'
    BY <2>0, <2>7, <2>8 DEF Handouts, HandoutInv, BoxesOnce
  <2>14. PointersStayValid'
    BY <2>0, <2>3, <2>7, <2>8 DEF Handouts, HandoutInv, Backed, PointersStayValid, Refs
  <2>15. Backed'
    BY <1>1, <2>1, <2>3, <2>14 DEF Handouts, Types, Phases, HandoutInv, Backed
  <2>16. QED
    BY <2>2, <2>6, <2>12, <2>13, <2>15 DEF HandoutInv
<1>4. QED
  BY <1>2, <1>3

\* Register keeps Handouts.
LEMMA HandoutsRegister ==
    ASSUME Handouts, Types', NEW k \in Tasks, Register(k)
    PROVE  HandoutInv'
<1>1. PICK b \in Buffers, a \in Addresses :
         /\ b = local[k] /\ a = addressOf[b]
         /\ pc[k] = "answered" /\ b # None
         /\ UNCHANGED <<calls, addressOf, cache, boxes, call>>
         /\ Registered(a, b)
  BY BuffersAreNumbers, ElementOfSeq, LenProperties
  DEF Register, Handouts, Types, TypeOK, Phases, Buffers
<1>2. Shared(b) /\ b \notin boxes
  BY <1>1 DEF Shared, Handouts, HandoutInv, OneBufferEach
<1>3. /\ \A x \in Addresses \ {a} : References(x)' = References(x) /\ Refs(x)' = Refs(x)
      /\ Len(References(a)') = Len(References(a)) + 1
      /\ Refs(a)' = Refs(a) \cup {b}
  BY <1>1, RegisteredFacts DEF Handouts, Types, Refs
<1>4. /\ \A o \in Tasks \ {k} : local'[o] = local[o] /\ pc'[o] = pc[o]
      /\ local'[k] \in {b, None}
  BY <1>1 DEF Register, Handouts, Types, TypeOK, Goto
<1>5. OneBufferEach'
  <2>1. \A c \in Buffers : Shared(c)' => Shared(c)
    BY <1>1, <1>2, <1>3, <1>4, BuffersAreNumbers DEF Shared, Handouts, Types
  <2>2. \A x \in Addresses : \A c \in Refs(x)' : addressOf[c] = x
    BY <1>1, <1>3 DEF Handouts, HandoutInv, OneBufferEach
  <2>3. QED
    BY <1>1, <2>1, <2>2, OneBufferEachShrinks DEF Handouts, Types, HandoutInv
<1>6. \A x \in Addresses : Refs(x) \subseteq Refs(x)'
  BY <1>3
<1>7. CASE abi = "c"
  <2>1. HandOut(k, b) /\ Goto(k, "idle") /\ local' = [local EXCEPT ![k] = None]
    BY <1>1, <1>7 DEF Register
  <2>2. Tickets'
    BY <1>1, <2>1, TicketsHandOut DEF Handouts, HandoutInv
  <2>3. \A x : Wrapping(x)' = Wrapping(x)
    BY <1>1, <1>4, <2>1, WrappingKept DEF Goto, Handouts, Types, TypeOK
  <2>4. \A x \in Addresses : /\ IsFiniteSet(Outstanding(x)')
           /\ Cardinality(Outstanding(x)') =
                 Cardinality(Outstanding(x)) + (IF x = a THEN 1 ELSE 0)
    BY <1>1, <1>2, <2>1, HandOutCounts
  <2>5. Finite' /\ FreedAsOftenAsHandedOut'
    <3>1. \A x \in Addresses : /\ Cardinality(Outstanding(x)) \in Nat
                               /\ Cardinality(Wrapping(x)) \in Nat
      BY FS_CardinalityType DEF Handouts, HandoutInv, Finite
    <3>2. Finite'
      BY <2>3, <2>4 DEF Handouts, HandoutInv, Finite
    <3>3. \A x \in Addresses : Cardinality(Wrapping(x)') = Cardinality(Wrapping(x))
      BY <2>3
    <3>4. \A x \in Addresses : Len(References(x)') = Len(References(x)) + (IF x = a THEN 1 ELSE 0)
      BY <1>3, ReferencesFacts DEF Handouts, Types
    <3>5. QED
      BY <2>4, <3>1, <3>2, <3>3, <3>4 DEF Handouts, HandoutInv, FreedAsOftenAsHandedOut
  <2>6. \A o \in Tasks : \A h \in held'[o] :
           h \in held[o] \/ (o = k /\ h = [call |-> call[k], buffer |-> b])
    BY <2>1 DEF HandOut, Handouts, Types, TypeOK
  <2>7. BoxesOnce'
    BY <1>1, <1>2, <2>6 DEF Handouts, HandoutInv, BoxesOnce
  <2>8. Backed'
    <3>1. \A o \in Tasks : \A h \in held'[o] :
             h.buffer \in boxes \/ h.buffer \in Refs(addressOf[h.buffer])'
      <4>1. ASSUME NEW o \in Tasks, NEW h \in held[o]
            PROVE  h.buffer \in boxes \/ h.buffer \in Refs(addressOf[h.buffer])'
        BY <1>1, <1>6, <4>1, HeldFacts DEF Handouts, HandoutInv, Backed, PointersStayValid, Refs
      <4>2. b \in Refs(addressOf[b])'
        BY <1>1, <1>3
      <4>3. QED
        BY <1>1, <2>6, <4>1, <4>2
    <3>2. \A o \in Tasks : pc'[o] = "wrap" =>
             /\ o # k /\ pc[o] = "wrap" /\ local'[o] = local[o] /\ local[o] \in Buffers
      BY <1>4, <2>1 DEF Goto, Handouts, Types, TypeOK, Phases
    <3>3. \A o \in Tasks : pc'[o] = "wrap" => (local[o] \in Refs(addressOf[local[o]]))'
      <4>1. ASSUME NEW o \in Tasks, pc'[o] = "wrap"
            PROVE  (local[o] \in Refs(addressOf[local[o]]))'
        <5>1. addressOf[local[o]] \in Addresses
          BY <3>2, <4>1, ElementOfSeq, LenProperties DEF Handouts, Types, TypeOK, Buffers
        <5>2. QED
          BY <1>1, <1>6, <3>2, <4>1, <5>1 DEF Handouts, HandoutInv, Backed
      <4>2. QED
        BY <4>1
    <3>4. QED
      BY <1>1, <3>1, <3>3 DEF Backed, PointersStayValid, Refs
  <2>9. QED
    BY <1>5, <2>2, <2>5, <2>7, <2>8 DEF HandoutInv
<1>8. CASE abi # "c"
  <2>1. Goto(k, "wrap") /\ UNCHANGED <<held, local>>
    BY <1>8 DEF Register
  <2>2. \A o \in Tasks : pc'[o] = IF o = k THEN "wrap" ELSE pc[o]
    BY <2>1 DEF Goto, Handouts, Types, TypeOK
  <2>3. Tickets'
    BY <1>1, <2>1, <2>2, TicketsKept DEF Handouts, HandoutInv
  <2>4. \A x : Outstanding(x)' = Outstanding(x)
    BY <1>1, <2>1 DEF Outstanding
  <2>5. \A x \in Addresses :
           /\ IsFiniteSet(Wrapping(x)')
           /\ Cardinality(Wrapping(x)') = Cardinality(Wrapping(x)) + (IF x = a THEN 1 ELSE 0)
    <3>1. SUFFICES ASSUME NEW x \in Addresses
                   PROVE  /\ IsFiniteSet(Wrapping(x)')
                          /\ Cardinality(Wrapping(x)') =
                                Cardinality(Wrapping(x)) + (IF x = a THEN 1 ELSE 0)
      OBVIOUS
    <3>2. IsFiniteSet(Wrapping(x)) /\ Cardinality(Wrapping(x)) \in Nat
      BY FS_CardinalityType DEF Handouts, HandoutInv, Finite
    <3>3. CASE x = a
      <4>1. Wrapping(x)' = Wrapping(x) \cup {k} /\ k \notin Wrapping(x)
        BY <1>1, <2>1, <2>2, <3>3 DEF Wrapping
      <4>2. QED
        BY <3>2, <3>3, <4>1, FS_AddElement
    <3>4. CASE x # a
      <4>1. Wrapping(x)' = Wrapping(x)
        BY <1>1, <2>1, <2>2, <3>4 DEF Wrapping
      <4>2. QED
        BY <3>2, <3>4, <4>1
    <3>5. QED
      BY <3>3, <3>4
  <2>6. Finite' /\ FreedAsOftenAsHandedOut'
    <3>1. \A x \in Addresses : /\ Cardinality(Outstanding(x)) \in Nat
                               /\ Cardinality(Wrapping(x)) \in Nat
      BY FS_CardinalityType DEF Handouts, HandoutInv, Finite
    <3>2. QED
      BY <1>1, <1>3, <2>4, <2>5, <3>1 DEF Handouts, HandoutInv, Finite, FreedAsOftenAsHandedOut
  <2>7. BoxesOnce'
    BY <1>1, <2>1 DEF Handouts, HandoutInv, BoxesOnce
  <2>8. PointersStayValid'
    BY <1>1, <1>6, <2>1, HeldFacts DEF Handouts, HandoutInv, Backed, PointersStayValid, Refs
  <2>9. \A o \in Tasks : pc'[o] = "wrap" => (local[o] \in Refs(addressOf[local[o]]))'
    <3>1. ASSUME NEW o \in Tasks, pc'[o] = "wrap"
          PROVE  (local[o] \in Refs(addressOf[local[o]]))'
      <4>1. CASE o = k
        BY <1>1, <1>3, <2>1, <4>1
      <4>2. CASE o # k
        <5>1. pc[o] = "wrap" /\ local[o] \in Buffers
          BY <2>2, <3>1, <4>2 DEF Handouts, Types, Phases
        <5>2. addressOf[local[o]] \in Addresses
          BY <5>1, ElementOfSeq, LenProperties DEF Handouts, Types, TypeOK, Buffers
        <5>3. QED
          BY <1>1, <1>6, <2>1, <5>1, <5>2 DEF Handouts, HandoutInv, Backed
      <4>3. QED
        BY <4>1, <4>2
    <3>2. QED
      BY <3>1
  <2>10. QED
    BY <1>5, <2>3, <2>6, <2>7, <2>8, <2>9 DEF HandoutInv, Backed
<1>9. QED
  BY <1>7, <1>8

\* Wrap keeps Handouts.
LEMMA HandoutsWrap ==
    ASSUME Handouts, NEW k \in Tasks, Wrap(k)
    PROVE  HandoutInv'
<1> DEFINE b == local[k]
           a == addressOf[b]
<1>1. /\ pc[k] = "wrap" /\ b \in Buffers /\ a \in Addresses
      /\ HandOut(k, b) /\ Goto(k, "idle") /\ local' = [local EXCEPT ![k] = None]
      /\ UNCHANGED <<calls, addressOf, cache, registry, boxes, call>>
  BY ElementOfSeq, LenProperties DEF Wrap, memory, Handouts, Types, TypeOK, Phases, Buffers
<1>2. b \in Refs(a) /\ b \notin boxes
  BY <1>1 DEF Shared, Handouts, HandoutInv, OneBufferEach, Backed
<1>3. \A x : References(x)' = References(x) /\ Refs(x)' = Refs(x)
  BY <1>1 DEF References, Refs
<1>4. /\ \A o \in Tasks \ {k} : local'[o] = local[o] /\ pc'[o] = pc[o]
      /\ local'[k] = None /\ pc'[k] = "idle"
  BY <1>1 DEF Handouts, Types, TypeOK, Goto
<1>5. OneBufferEach'
  <2>1. \A c \in Buffers : Shared(c)' => Shared(c)
    BY <1>1, <1>3, <1>4, BuffersAreNumbers DEF Shared, Handouts, Types
  <2>2. QED
    BY <1>1, <1>3, <2>1, OneBufferEachShrinks DEF Handouts, Types, HandoutInv, OneBufferEach
<1>6. Tickets'
  BY <1>1, TicketsHandOut DEF Handouts, HandoutInv
<1>7. \A x \in Addresses :
         /\ IsFiniteSet(Outstanding(x)')
         /\ Cardinality(Outstanding(x)') = Cardinality(Outstanding(x)) + (IF x = a THEN 1 ELSE 0)
  BY <1>1, <1>2, HandOutCounts
<1>8. \A x \in Addresses :
         /\ IsFiniteSet(Wrapping(x)')
         /\ Cardinality(Wrapping(x)') = Cardinality(Wrapping(x)) - (IF x = a THEN 1 ELSE 0)
  BY <1>1, WrapEndsCounts
<1> HIDE DEF a
<1>9. Finite' /\ FreedAsOftenAsHandedOut'
  <2>1. \A x \in Addresses : /\ Cardinality(Outstanding(x)) \in Nat
                             /\ Cardinality(Wrapping(x)) \in Nat
    BY FS_CardinalityType DEF Handouts, HandoutInv, Finite
  <2>2. QED
    BY <1>3, <1>7, <1>8, <2>1 DEF Handouts, HandoutInv, Finite, FreedAsOftenAsHandedOut
<1>10. \A o \in Tasks : \A h \in held'[o] :
         h \in held[o] \/ (o = k /\ h = [call |-> call[k], buffer |-> b])
  BY <1>1 DEF HandOut, Handouts, Types, TypeOK
<1>11. BoxesOnce'
  BY <1>1, <1>2, <1>10 DEF Handouts, HandoutInv, BoxesOnce
<1>12. Backed'
  BY <1>1, <1>2, <1>3, <1>4, <1>10 DEF a, Handouts, HandoutInv, Backed, PointersStayValid, Refs
<1>13. QED
  BY <1>5, <1>6, <1>9, <1>11, <1>12 DEF HandoutInv

\* WrapFails keeps Handouts.
LEMMA HandoutsWrapFails ==
    ASSUME Handouts, Types', NEW k \in Tasks, WrapFails(k)
    PROVE  HandoutInv'
<1>1. PICK a \in Addresses :
         /\ a = addressOf[local[k]] /\ pc[k] = "wrap" /\ local[k] \in Buffers
         /\ Released(a) /\ Goto(k, "idle") /\ local' = [local EXCEPT ![k] = None]
         /\ UNCHANGED <<calls, addressOf, cache, boxes, call, held>>
  BY ElementOfSeq, LenProperties DEF WrapFails, Handouts, Types, TypeOK, Phases, Buffers
<1>2. a \in DOMAIN registry
  BY <1>1, ReferencesFacts DEF Handouts, Types, HandoutInv, Backed
<1>3. /\ \A x \in Addresses \ {a} : References(x)' = References(x) /\ Refs(x)' = Refs(x)
      /\ Len(References(a)') = Len(References(a)) - 1
      /\ Refs(a)' \subseteq Refs(a)
  BY <1>1, <1>2, ReleasedFacts DEF Handouts, Types, Refs
<1>4. /\ \A o \in Tasks \ {k} : local'[o] = local[o] /\ pc'[o] = pc[o]
      /\ local'[k] = None /\ pc'[k] = "idle"
  BY <1>1 DEF Handouts, Types, TypeOK, Goto
<1>5. \A x \in Addresses :
         /\ IsFiniteSet(Wrapping(x)')
         /\ Cardinality(Wrapping(x)') = Cardinality(Wrapping(x)) - (IF x = a THEN 1 ELSE 0)
  BY <1>1, WrapEndsCounts
<1>6. OneBufferEach'
  <2>1. \A c \in Buffers : Shared(c)' => Shared(c)
    BY <1>1, <1>3, <1>4, BuffersAreNumbers DEF Shared, Handouts, Types
  <2>2. QED
    BY <1>1, <1>3, <2>1, OneBufferEachShrinks DEF Handouts, Types, HandoutInv, OneBufferEach
<1>7. Tickets'
  BY <1>1, <1>4, TicketsKept DEF Handouts, HandoutInv
<1>8. \A x : Outstanding(x)' = Outstanding(x)
  BY <1>1 DEF Outstanding
<1>9. Finite' /\ FreedAsOftenAsHandedOut'
  <2>1. \A x \in Addresses : /\ Cardinality(Outstanding(x)) \in Nat
                             /\ Cardinality(Wrapping(x)) \in Nat
    BY FS_CardinalityType DEF Handouts, HandoutInv, Finite
  <2>2. QED
    BY <1>1, <1>3, <1>5, <1>8, <2>1 DEF Handouts, HandoutInv, Finite, FreedAsOftenAsHandedOut
<1>10. Backed'
  BY <1>1, <1>3, <1>4, <1>9, BackedByCount
<1>11. BoxesOnce'
  BY <1>1 DEF Handouts, HandoutInv, BoxesOnce
<1>12. QED
  BY <1>6, <1>7, <1>9, <1>10, <1>11 DEF HandoutInv

\* powder_free_buffer, freeBuffer: the reference that is popped is to the
\* buffer the host holds, and a buffer taken for a box is one.
LEMMA HandoutsFree ==
    ASSUME Handouts, Types', NEW k \in Tasks, NEW h \in held[k], Free(k, h)
    PROVE  HandoutInv'
<1>1. PICK a \in Addresses :
         /\ a = addressOf[h.buffer] /\ h.buffer \in Buffers
         /\ IF a \in DOMAIN registry
              THEN Released(a) /\ UNCHANGED boxes
              ELSE boxes' = {b \in boxes : addressOf[b] # a} /\ UNCHANGED registry
  BY HeldFacts DEF Free, Handouts
<1>2. /\ UNCHANGED <<calls, addressOf, cache, pc, call, local>>
      /\ \A o \in Tasks : held'[o] = held[o] \ {h}
      /\ \A o \in Tasks : held'[o] \subseteq held[o]
  <2>1. \A o \in Tasks \ {k} : h \notin held[o]
    BY DEF Handouts, HandoutInv, Tickets
  <2>2. \A o \in Tasks : held'[o] = IF o = k THEN held[o] \ {h} ELSE held[o]
    BY DEF Free, Handouts, Types, TypeOK
  <2>3. \A o \in Tasks : held'[o] = held[o] \ {h}
    BY <2>1, <2>2
  <2>4. QED
    BY <2>3 DEF Free
<1>3. Tickets'
  BY <1>2, TicketsKept DEF Handouts, HandoutInv
<1>4. boxes' \subseteq boxes
  BY <1>1
<1>5. BoxesOnce'
  BY <1>2, <1>4 DEF Handouts, HandoutInv, BoxesOnce
<1>6. \A x : Wrapping(x)' = Wrapping(x)
  BY <1>2 DEF Wrapping
<1>7. \A x \in Addresses :
         /\ IsFiniteSet(Outstanding(x)) /\ Cardinality(Outstanding(x)) \in Nat
         /\ IsFiniteSet(Wrapping(x)) /\ Cardinality(Wrapping(x)) \in Nat
  BY FS_CardinalityType DEF Handouts, HandoutInv, Finite
<1>8. /\ \A x, g : g \in Outstanding(x) <=>
             \E o \in Tasks : g \in held[o] /\ addressOf[g.buffer] = x /\ g.buffer \notin boxes
      /\ \A x, g : g \in Outstanding(x)' <=>
             \E o \in Tasks : g \in held'[o] /\ addressOf[g.buffer] = x /\ g.buffer \notin boxes'
  BY <1>2 DEF Outstanding
<1>9. h.buffer \in boxes \/ h.buffer \in Refs(a)
  BY <1>1 DEF Handouts, HandoutInv, Backed, PointersStayValid, Refs
<1>10. CASE a \in DOMAIN registry
  <2>1. /\ \A x \in Addresses \ {a} : References(x)' = References(x) /\ Refs(x)' = Refs(x)
        /\ Len(References(a)') = Len(References(a)) - 1
        /\ Refs(a)' \subseteq Refs(a)
        /\ UNCHANGED boxes
    BY <1>1, <1>10, ReleasedFacts DEF Handouts, Types, Refs
  <2>2. OneBufferEach'
    <3>1. \A c \in Buffers : Shared(c)' => Shared(c)
      BY <1>2, <2>1 DEF Shared
    <3>2. QED
      BY <1>2, <2>1, <3>1, OneBufferEachShrinks DEF Handouts, Types, HandoutInv, OneBufferEach
  <2>3. h.buffer \notin boxes
    <3>1. PICK c \in Refs(a) : c \in Buffers
      BY <1>10, ReferencesFacts DEF Handouts, Types
    <3>2. Shared(c) /\ addressOf[c] = a
      BY <3>1 DEF Shared, Handouts, HandoutInv, OneBufferEach
    <3>3. QED
      BY <1>1, <3>1, <3>2 DEF Lives, Handouts, HandoutInv, OneBufferEach
  <2>4. \A x, g : g \in Outstanding(x)' <=> g \in Outstanding(x) /\ g # h
    BY <1>2, <1>8, <2>1
  <2>5. \A x \in Addresses :
           /\ IsFiniteSet(Outstanding(x)')
           /\ Cardinality(Outstanding(x)') = Cardinality(Outstanding(x)) - (IF x = a THEN 1 ELSE 0)
    <3>1. SUFFICES ASSUME NEW x \in Addresses
                   PROVE  /\ IsFiniteSet(Outstanding(x)')
                          /\ Cardinality(Outstanding(x)') =
                                Cardinality(Outstanding(x)) - (IF x = a THEN 1 ELSE 0)
      OBVIOUS
    <3>2. CASE x = a
      <4>1. h \in Outstanding(x) /\ Outstanding(x)' = Outstanding(x) \ {h}
        BY <1>1, <1>8, <2>3, <2>4, <3>2
      <4>2. QED
        BY <1>7, <3>2, <4>1, FS_RemoveElement
    <3>3. CASE x # a
      <4>1. h \notin Outstanding(x)
        BY <1>1, <1>8, <3>3
      <4>2. Outstanding(x)' = Outstanding(x)
        BY <2>4, <4>1, SameHandouts
      <4>3. QED
        BY <1>7, <3>3, <4>2
    <3>4. QED
      BY <3>2, <3>3
  <2>6. Finite' /\ FreedAsOftenAsHandedOut'
    BY <1>6, <1>7, <2>1, <2>5 DEF Handouts, HandoutInv, Finite, FreedAsOftenAsHandedOut
  <2>7. Backed'
    BY <1>2, <2>1, <2>6, BackedByCount
  <2>8. QED
    BY <1>3, <1>5, <2>2, <2>6, <2>7 DEF HandoutInv
<1>11. CASE a \notin DOMAIN registry
  <2>1. Refs(a) = {} /\ h.buffer \in boxes
    BY <1>9, <1>11, ReferencesFacts DEF Handouts, Types
  <2>2. boxes' = boxes \ {h.buffer} /\ UNCHANGED registry
    BY <1>1, <1>11, <2>1 DEF Handouts, Types, TypeOK, HandoutInv, OneBufferEach, Lives
  <2>3. \A x : References(x)' = References(x) /\ Refs(x)' = Refs(x)
    BY <2>2 DEF References, Refs
  <2>4. OneBufferEach'
    <3>1. \A c \in Buffers : Shared(c)' => Shared(c)
      BY <1>2, <2>3 DEF Shared
    <3>2. QED
      BY <1>2, <1>4, <2>3, <3>1, OneBufferEachShrinks DEF Handouts, Types, HandoutInv, OneBufferEach
  <2>5. \A o \in Tasks : \A g \in held'[o] : g.buffer # h.buffer
    <3>1. \A o \in Tasks : \A g \in held[o] : g.buffer = h.buffer => g = h
      BY <2>1 DEF Handouts, HandoutInv, BoxesOnce
    <3>2. QED
      BY <1>2, <3>1
  <2>6. \A x : Outstanding(x)' = Outstanding(x)
    <3>1. \A o \in Tasks : \A g \in held[o] :
             /\ g \in held'[o] <=> g # h
             /\ g # h => (g.buffer \in boxes' <=> g.buffer \in boxes)
      BY <1>2, <2>2, <2>5
    <3>2. \A x, g : g \in Outstanding(x)' <=> g \in Outstanding(x)
      BY <1>2, <1>8, <2>1, <3>1
    <3>3. QED
      BY <3>2, SameHandouts
  <2>7. Finite' /\ FreedAsOftenAsHandedOut'
    BY <1>6, <2>3, <2>6 DEF Handouts, HandoutInv, Finite, FreedAsOftenAsHandedOut
  <2>8. Backed'
    BY <1>2, <2>2, <2>3, <2>5 DEF Handouts, HandoutInv, Backed, PointersStayValid, Refs
  <2>9. QED
    BY <1>3, <1>5, <2>4, <2>7, <2>8 DEF HandoutInv
<1>12. QED
  BY <1>10, <1>11

\* Every step keeps Handouts.
LEMMA HandoutsNext == Handouts /\ [Next]_vars => Handouts'
<1>1. SUFFICES ASSUME Handouts, [Next]_vars PROVE HandoutInv'
  BY TypesNext DEF Handouts
<1>2. Types'
  BY <1>1, TypesNext DEF Handouts
<1>3. ASSUME NEW k \in Tasks, NEW kind \in {"execute", "query", "find"}, Call(k, kind)
      PROVE  HandoutInv'
  BY <1>1, <1>3, HandoutsCall
<1>4. ASSUME NEW k \in Tasks, Fails(k) \/ ReadError(k) \/ Executes(k) \/ Answers(k)
      PROVE  HandoutInv'
  BY <1>1, <1>4, HandoutsFails, HandoutsReadError, HandoutsExecutes, HandoutsAnswers
<1>5. ASSUME NEW k \in Tasks, Register(k) \/ Wrap(k) \/ WrapFails(k) \/ Copies(k) \/ Finds(k)
      PROVE  HandoutInv'
  BY <1>1, <1>2, <1>5, HandoutsRegister, HandoutsWrap, HandoutsWrapFails, HandoutsCopies,
     HandoutsFinds
<1>6. ASSUME NEW k \in Tasks, NEW h \in held[k], Free(k, h)
      PROVE  HandoutInv'
  BY <1>1, <1>2, <1>6, HandoutsFree
<1>7. CASE Evict \/ Close \/ Quiescent \/ UNCHANGED vars
  BY <1>1, <1>7, HandoutsRest DEF Quiescent
<1>8. QED
  BY <1>1, <1>3, <1>4, <1>5, <1>6, <1>7 DEF Next

\* Handouts always holds.
LEMMA HandoutsInvariant == Spec => []Handouts
<1>1. Init => Handouts
  BY TypesInit, HandoutsInit DEF Handouts
<1>2. QED
  BY <1>1, HandoutsNext, PTL DEF Spec

\* "The Vec handles the same cached buffer being handed out more than once":
\* however the calls interleave and whichever of them fail, an address has as
\* many references as it has handouts to be freed.
THEOREM FreedAsOftenAsHandedOutHolds == Spec => []FreedAsOftenAsHandedOut
<1>1. Handouts => FreedAsOftenAsHandedOut
  BY DEF Handouts, HandoutInv
<1>2. QED
  BY <1>1, HandoutsInvariant, PTL

\* "Holding the Arc keeps the (possibly cache-shared) buffer alive": whatever
\* the cache, the other hosts and close do, and although the allocator gives
\* out the addresses of freed buffers again, what a host holds is backed by a
\* reference to that buffer or is a box of its own.
THEOREM PointersStayValidHolds == Spec => []PointersStayValid
<1>1. Handouts => PointersStayValid
  BY DEF Handouts, HandoutInv, Backed
<1>2. QED
  BY <1>1, HandoutsInvariant, PTL

\* No two live buffers share an address, so a free cannot release the wrong
\* one.
THEOREM OneBufferEachHolds == Spec => []OneBufferEach
<1>1. Handouts => OneBufferEach
  BY DEF Handouts, HandoutInv
<1>2. QED
  BY <1>1, HandoutsInvariant, PTL
=============================================================================
