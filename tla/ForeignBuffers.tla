--------------------------- MODULE ForeignBuffers ---------------------------
(***************************************************************************)
(* What crosses the C and JNI interfaces (crates/powder-ffi/src/lib.rs,    *)
(* crates/powder-java/src/lib.rs): result buffers as bare addresses, which *)
(* a process-wide registry keeps alive until the host frees them, and, in  *)
(* C, error messages in a slot of the calling thread.                      *)
(*                                                                         *)
(* A buffer is an allocation, known by a number that is never used again;  *)
(* its address is, once the allocation is gone.  The result cache of the   *)
(* client shares its buffers with the registry and may drop them at any    *)
(* time (QueryCache).  Every mutex section is one step.                    *)
(***************************************************************************)
EXTENDS Naturals, Sequences, SequencesExt, FiniteSets, TLC

CONSTANTS
    Tasks,       \* concurrent users of the interface: threads, goroutines
    Threads,     \* operating system threads
    Addresses,   \* addresses the allocator gives out
    Abis,        \* the interfaces: "c", "jni"
    MaxBuffers,  \* bound: allocations in all
    MaxCalls,    \* bound: calls in all
    None

ASSUME BufferAssumption ==
    /\ Abis \subseteq {"c", "jni"}
    /\ MaxBuffers \in Nat /\ MaxCalls \in Nat
    /\ None \notin Nat

VARIABLES
    abi,       \* the interface in use
    open,      \* whether the client's handle is live
    calls,     \* calls so far; the number of a call is this
    addressOf, \* per allocation ever made: its address
    cache,     \* the buffers the client's cache holds
    registry,  \* shared_bufs, direct_bufs: per address, its references
    boxes,     \* allocations owned by the host alone (JSON rows)
    pc,        \* per task: where its call is
    call,      \* per task: the number of its last call
    thread,    \* per task: the thread its last call ran on
    local,     \* per task: the buffer its call answers with, or None
    held,      \* per task: what it was handed out and has not freed
    slot,      \* per thread: the call LAST_ERROR is about, or None
    message    \* per task: the call its last error message was about

vars == <<abi, open, calls, addressOf, cache, registry, boxes, pc, call,
          thread, local, held, slot, message>>
memory == <<addressOf, cache, registry, boxes>>

Init ==
    /\ abi \in Abis
    /\ open = TRUE
    /\ calls = 0
    /\ addressOf = <<>>
    /\ cache = {} /\ registry = <<>> /\ boxes = {}
    /\ pc = [k \in Tasks |-> "idle"]
    /\ call = [k \in Tasks |-> 0]
    /\ thread \in [Tasks -> Threads]
    /\ local = [k \in Tasks |-> None]
    /\ held = [k \in Tasks |-> {}]
    /\ slot = [t \in Threads |-> None]
    /\ message = [k \in Tasks |-> None]

Goto(k, l) == pc' = [pc EXCEPT ![k] = l]

-----------------------------------------------------------------------------
\* Allocations.

References(a) == IF a \in DOMAIN registry THEN registry[a] ELSE <<>>

\* An allocation lives as long as something refers to it: a call does until
\* its reference is in the registry.
Live == cache \cup boxes \cup {local[k] : k \in {t \in Tasks : pc[t] = "answered"}}
        \cup UNION {ToSet(registry[a]) : a \in DOMAIN registry}

\* The allocator gives out an address that no live allocation has.
Allocated(b) ==
    /\ b = Len(addressOf) + 1
    /\ b <= MaxBuffers
    /\ \E a \in Addresses \ {addressOf[x] : x \in Live} :
         addressOf' = Append(addressOf, a)

\* An entry that replaces the references there are.
RegisteredOnce(a, b) ==
    registry' = [x \in DOMAIN registry \cup {a} |-> IF x = a THEN <<b>> ELSE registry[x]]

\* entry(address).or_default().push(reference)
Registered(a, b) ==
    registry' = [x \in DOMAIN registry \cup {a} |->
                   IF x = a THEN Append(References(a), b) ELSE registry[x]]

\* One reference is popped, and the entry removed with the last one.
Released(a) ==
    registry' = IF Len(registry[a]) = 1
                THEN [x \in DOMAIN registry \ {a} |-> registry[x]]
                ELSE [registry EXCEPT ![a] = Front(@)]

-----------------------------------------------------------------------------
\* Calls.

\* A host whose tasks may be moved to a busy thread between a failing call and
\* the call that reads its message.
Anywhere(k, t) == TRUE

\* A task stays on its thread until it has read the message: C and C++ call on
\* the thread they run on, Go locks the goroutine to it.
Pinned(k, t) == \A o \in Tasks \ {k} : thread[o] = t => pc[o] = "idle"

\* powder_execute, powder_query, queryDirect, powder_orm_find_json are called;
\* in C the slot of the thread is cleared.
Call(k, kind) ==
    /\ pc[k] = "idle"
    /\ calls < MaxCalls
    /\ calls' = calls + 1
    /\ call' = [call EXCEPT ![k] = calls']
    /\ Goto(k, kind)
    /\ \E t \in Threads :
         /\ Pinned(k, t)
         /\ thread' = [thread EXCEPT ![k] = t]
         /\ slot' = IF abi = "c" THEN [slot EXCEPT ![t] = None] ELSE slot
    /\ UNCHANGED <<abi, open, memory, local, held, message>>

\* A null handle, an argument that is not UTF-8 or JSON, or an error of the
\* engine: a sentinel is returned and the message set, in Java thrown.
Fails(k) ==
    /\ pc[k] \in {"execute", "query", "find"}
    /\ Goto(k, IF abi = "c" THEN "failed" ELSE "idle")
    /\ slot' = IF abi = "c" THEN [slot EXCEPT ![thread[k]] = call[k]] ELSE slot
    /\ message' = IF abi = "jni" THEN [message EXCEPT ![k] = call[k]] ELSE message
    /\ UNCHANGED <<abi, open, calls, memory, call, thread, local, held>>

\* powder_last_error, powder_last_error_copy, after a sentinel.
ReadError(k) ==
    /\ pc[k] = "failed"
    /\ message' = [message EXCEPT ![k] = slot[thread[k]]]
    /\ Goto(k, "idle")
    /\ UNCHANGED <<abi, open, calls, memory, call, thread, local, held, slot>>

\* A statement runs; every execute clears the cache.
Executes(k) ==
    /\ pc[k] = "execute"
    /\ open
    /\ cache' = {}
    /\ Goto(k, "idle")
    /\ UNCHANGED <<abi, open, calls, addressOf, registry, boxes, call, thread,
                   local, held, slot, message>>

\* query_bytes_shared answers with a buffer of the cache, or with a new one
\* that the cache may keep.
Answers(k) ==
    /\ pc[k] = "query"
    /\ open
    /\ \/ \E b \in cache : local' = [local EXCEPT ![k] = b] /\ UNCHANGED <<addressOf, cache>>
       \/ LET b == Len(addressOf) + 1 IN
            /\ Allocated(b)
            /\ local' = [local EXCEPT ![k] = b]
            /\ cache' \in {cache, cache \cup {b}}
    /\ Goto(k, "answered")
    /\ UNCHANGED <<abi, open, calls, registry, boxes, call, thread, held, slot, message>>

HandOut(k, b) == held' = [held EXCEPT ![k] = @ \cup {[call |-> call[k], buffer |-> b]}]

\* The reference moves into the registry and the address to the host; in Java
\* the ByteBuffer around it is yet to be made.
Register(k) ==
    /\ pc[k] = "answered"
    /\ Registered(addressOf[local[k]], local[k])
    /\ IF abi = "c"
         THEN HandOut(k, local[k]) /\ Goto(k, "idle") /\ local' = [local EXCEPT ![k] = None]
         ELSE Goto(k, "wrap") /\ UNCHANGED <<held, local>>
    /\ UNCHANGED <<abi, open, calls, addressOf, cache, boxes, call, thread, slot, message>>

\* new_direct_byte_buffer succeeds.
Wrap(k) ==
    /\ pc[k] = "wrap"
    /\ HandOut(k, local[k])
    /\ local' = [local EXCEPT ![k] = None]
    /\ Goto(k, "idle")
    /\ UNCHANGED <<abi, open, calls, memory, call, thread, slot, message>>

\* A failure that leaves the reference in the registry.
WrapFailsKeeps(k) ==
    /\ pc[k] = "wrap"
    /\ local' = [local EXCEPT ![k] = None]
    /\ Goto(k, "idle")
    /\ UNCHANGED <<abi, open, calls, memory, call, thread, held, slot, message>>

\* It fails: the reference is released again and the error thrown.
WrapFails(k) ==
    /\ pc[k] = "wrap"
    /\ Released(addressOf[local[k]])
    /\ local' = [local EXCEPT ![k] = None]
    /\ message' = [message EXCEPT ![k] = call[k]]
    /\ Goto(k, "idle")
    /\ UNCHANGED <<abi, open, calls, addressOf, cache, boxes, call, thread, held, slot>>

\* Java's query copies the buffer into a byte[] and drops its reference.
Copies(k) ==
    /\ pc[k] = "answered"
    /\ abi = "jni"
    /\ local' = [local EXCEPT ![k] = None]
    /\ Goto(k, "idle")
    /\ UNCHANGED <<abi, open, calls, memory, call, thread, held, slot, message>>

\* powder_orm_find_json hands out an allocation of its own, Java a String.
Finds(k) ==
    /\ pc[k] = "find"
    /\ open
    /\ LET b == Len(addressOf) + 1 IN
         IF abi = "c" THEN Allocated(b) /\ boxes' = boxes \cup {b} /\ HandOut(k, b)
         ELSE UNCHANGED <<addressOf, boxes, held>>
    /\ Goto(k, "idle")
    /\ UNCHANGED <<abi, open, calls, cache, registry, call, thread, local, slot, message>>

\* powder_free_buffer, freeBuffer: a registered address gives up a reference,
\* any other is taken for a box.
Free(k, h) ==
    /\ pc[k] = "idle"
    /\ h \in held[k]
    /\ held' = [held EXCEPT ![k] = @ \ {h}]
    /\ LET a == addressOf[h.buffer] IN
         IF a \in DOMAIN registry
         THEN Released(a) /\ UNCHANGED boxes
         ELSE boxes' = {b \in boxes : addressOf[b] # a} /\ UNCHANGED registry
    /\ UNCHANGED <<abi, open, calls, addressOf, cache, pc, call, thread, local,
                   slot, message>>

\* The cache evicts a buffer.
Evict ==
    /\ \E b \in cache : cache' = cache \ {b}
    /\ UNCHANGED <<abi, open, calls, addressOf, registry, boxes, pc, call, thread,
                   local, held, slot, message>>

\* powder_close drops the client and its cache; no call is under way, and later
\* ones pass a null handle.
Close ==
    /\ open
    /\ \A k \in Tasks : pc[k] = "idle"
    /\ open' = FALSE
    /\ cache' = {}
    /\ UNCHANGED <<abi, calls, addressOf, registry, boxes, pc, call, thread,
                   local, held, slot, message>>

\* No call is under way.
Quiescent == (\A k \in Tasks : pc[k] = "idle") /\ UNCHANGED vars

Next ==
    \/ \E k \in Tasks :
         \/ \E kind \in {"execute", "query", "find"} : Call(k, kind)
         \/ Fails(k) \/ ReadError(k) \/ Executes(k)
         \/ Answers(k) \/ Register(k) \/ Wrap(k) \/ WrapFails(k)
         \/ Copies(k) \/ Finds(k)
         \/ \E h \in held[k] : Free(k, h)
    \/ Evict \/ Close \/ Quiescent

Spec == Init /\ [][Next]_vars

-----------------------------------------------------------------------------
Buffers == DOMAIN addressOf

\* The types of the variables.
TypeOK ==
    /\ abi \in Abis /\ open \in BOOLEAN
    /\ calls \in 0..MaxCalls
    /\ addressOf \in Seq(Addresses)
    /\ cache \subseteq Buffers /\ boxes \subseteq Buffers
    /\ DOMAIN registry \subseteq Addresses
    /\ \A a \in DOMAIN registry : registry[a] \in Seq(Buffers) /\ registry[a] # <<>>
    /\ pc \in [Tasks -> {"idle", "execute", "query", "find", "failed",
                         "answered", "wrap"}]
    /\ call \in [Tasks -> 0..MaxCalls]
    /\ thread \in [Tasks -> Threads]
    /\ local \in [Tasks -> Buffers \cup {None}]
    /\ held \in [Tasks -> SUBSET [call : 1..MaxCalls, buffer : Buffers]]
    /\ slot \in [Threads -> 1..MaxCalls \cup {None}]
    /\ message \in [Tasks -> 1..MaxCalls \cup {None}]

\* The handouts of one address that are still to be freed.
Outstanding(a) ==
    UNION {{h \in held[k] : addressOf[h.buffer] = a /\ h.buffer \notin boxes} : k \in Tasks}

\* The calls that have registered an address and not yet handed it out.
Wrapping(a) == {k \in Tasks : pc[k] = "wrap" /\ addressOf[local[k]] = a}

\* "Holding the Arc keeps the (possibly cache-shared) buffer alive": what a
\* host holds is backed by a reference of the registry or is a box of its own,
\* whatever the cache, the other hosts and close do.
PointersStayValid ==
    \A k \in Tasks : \A h \in held[k] :
        \/ h.buffer \in boxes
        \/ h.buffer \in ToSet(References(addressOf[h.buffer]))

\* "The Vec handles the same cached buffer being handed out more than once":
\* an address has as many references as it has handouts to be freed, so that
\* nothing is freed early, and nothing is left when the hosts are done.
FreedAsOftenAsHandedOut ==
    \A a \in Addresses :
        Len(References(a)) = Cardinality(Outstanding(a)) + Cardinality(Wrapping(a))

\* A message is "for the last failing call on this thread": what a host reads
\* after a sentinel is about its own call.
ErrorIsOwn ==
    [][\A k \in Tasks :
          pc[k] = "failed" /\ pc'[k] = "idle" => message'[k] = call[k]]_vars
=============================================================================
