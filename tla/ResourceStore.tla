--------------------------- MODULE ResourceStore ---------------------------
(***************************************************************************)
(* The resource store of the rendering engine (source/fitz/store.c): the   *)
(* decoded images, fonts and parsed objects that every thread of a context *)
(* shares.  A doubly linked list keeps the items most recently used first, *)
(* a hash table finds those whose type has a hash key, reference counts    *)
(* say who still needs a value.  One lock guards all of it, and every      *)
(* operation that discards something lets go of the lock while it does:    *)
(* between two critical sections of a call anything may happen.            *)
(*                                                                         *)
(* An item is identified with its value, a key with what it names; an      *)
(* image is a key that is itself reference counted (fz_key_storable).  A   *)
(* call in progress is a record whose "back" is what it continues with.    *)
(***************************************************************************)
EXTENDS Integers, Sequences, FiniteSets, Selections

CONSTANTS
    Threads,
    Vals,        \* what can be put into the store
    KeyOf,       \* the key a value is stored under
    Size,        \* the size of a value
    Hashed,      \* the keys of types with a hash key
    Images,      \* the keys that are reference counted objects
    Owner,       \* the thread using the document a document's key belongs to
    Fonts,       \* the values that have a droppable callback
    MaxSize,     \* the size the store should keep to, 0 for none
    Word,        \* SIZE_MAX + 1
    Phases,      \* the scavenging phases of an allocation, 16 in the code
    Percents,    \* arguments of fz_shrink_store
    Allocs,      \* arguments of fz_malloc
    MaxLost,     \* bound on the sizes fz_remove_item leaves in the total
    NoOne        \* the holder of a free lock

Keys == {KeyOf[v] : v \in Vals}

ASSUME ValsAssumption ==
    /\ Size \in [Vals -> Nat \ {0}]
    /\ Images \subseteq Hashed
    /\ Owner \in [DOMAIN Owner -> Threads] /\ DOMAIN Owner \subseteq Keys \ Images
    /\ IsFiniteSet(Threads) /\ NoOne \notin Threads /\ Fonts \subseteq Vals
ASSUME LimitsAssumption ==
    /\ MaxSize \in Nat /\ Word \in Nat \ {0} /\ Phases \in Nat \ {0}
    /\ Percents \subseteq Nat /\ Allocs \subseteq Nat

VARIABLES
    lock,            \* who holds FZ_LOCK_ALLOC
    call,            \* where each thread is in a call
    list, hash, size,
    scavenging, needs_reaping,
    refs, keyRefs, imgRefs,
    alive,           \* the values that are allocated
    held,            \* the values each thread has a reference to
    users,           \* the images each thread has a reference to
    deferring,       \* the threads between defer_reap_start and _end
    ctxs,            \* the threads that still have a context
    lost             \* history: sizes fz_remove_item did not subtract

store == <<list, hash, size>>
flags == <<scavenging, needs_reaping, deferring>>
imgs  == <<keyRefs, imgRefs, users>>
vars  == <<lock, call, store, flags, imgs, refs, alive, held, ctxs, lost>>

Idle == [pc |-> "idle"]

\* FZ_STORE_UNLIMITED.
Unlimited == MaxSize = 0

\* More than the store should keep to.
Oversized(n) == ~ Unlimited /\ n > MaxSize

SizeOf(V) == SumFunctionOnSet(Size, V)

Init ==
    /\ lock = NoOne /\ call = [t \in Threads |-> Idle]
    /\ list = <<>> /\ hash = <<>> /\ size = 0
    /\ scavenging = FALSE /\ needs_reaping = FALSE /\ deferring = {}
    /\ refs = [v \in Vals |-> 0] /\ alive = {}
    /\ held = [t \in Threads |-> {}]
    /\ users = [t \in Threads |-> Images]
    /\ keyRefs = [i \in Images |-> 0]
    /\ imgRefs = [i \in Images |-> Cardinality(Threads)]
    /\ ctxs = Threads /\ lost = 0

-----------------------------------------------------------------------------
(* The lock, the list and the continuations.                               *)

\* A thread outside of any call can take the lock.
Enter(t) == t \in ctxs /\ call[t] = Idle /\ lock = NoOne

At(t, pc) == call[t].pc = pc /\ lock = t

\* A document's keys are used by one thread at a time; an image is used as
\* a key by those who hold it.
Usable(t, k) ==
    /\ k \in DOMAIN Owner => Owner[k] = t
    /\ k \in Images => k \in users[t]

Touch(v) == list' = <<v>> \o Without(list, {v})

Unhashed(V) == [k \in {h \in DOMAIN hash : hash[h] \notin V} |-> hash[k]]

Unref(V) == [v \in Vals |-> IF v \in V /\ refs[v] > 0 THEN refs[v] - 1 ELSE refs[v]]

\* Discarding the items of a chain outside of the lock, then going on.
Discard(chain, dead, back) ==
    IF chain = <<>> /\ back = Idle THEN Idle
    ELSE [pc |-> "drop", chain |-> chain, dead |-> dead, back |-> back]

\* Items leave list, hash and total, lose the store's reference, and the
\* lock is let go of to discard them.
Remove(t, s, back) ==
    /\ list' = Without(list, Range(s))
    /\ hash' = Unhashed(Range(s))
    /\ size' = size - SizeOf(Range(s))
    /\ refs' = Unref(Range(s))
    /\ call' = [call EXCEPT ![t] =
                   Discard(s, {v \in Range(s) : refs'[v] = 0}, back)]
    /\ lock' = NoOne

\* Mutant: the item goes, the reference its key holds stays.
DropItemKeepingKey(t) ==
    /\ call[t].pc = "drop" /\ call[t].chain # <<>> /\ lock = NoOne
    /\ LET c == call[t]
           v == Head(c.chain)
       IN  /\ alive' = alive \ ({v} \cap c.dead)
           /\ call' = [call EXCEPT ![t] =
                          Discard(Tail(c.chain), c.dead \ {v}, c.back)]
    /\ UNCHANGED <<lock, store, flags, imgs, refs, held, ctxs, lost>>

\* The drop of a value nobody refers to, drop_key and fz_free of an item.
DropItem(t) ==
    /\ call[t].pc = "drop" /\ call[t].chain # <<>> /\ lock = NoOne
    /\ LET c == call[t]
           v == Head(c.chain)
           k == KeyOf[v]
       IN  /\ alive' = alive \ ({v} \cap c.dead)
           /\ imgRefs' = [i \in Images |-> imgRefs[i] - (IF i = k THEN 1 ELSE 0)]
           /\ keyRefs' = [i \in Images |-> keyRefs[i] - (IF i = k THEN 1 ELSE 0)]
           /\ call' = [call EXCEPT ![t] =
                          Discard(Tail(c.chain), c.dead \ {v}, c.back)]
    /\ UNCHANGED <<lock, store, flags, users, refs, held, ctxs, lost>>

\* fz_lock after the items are gone.
Relock(t) ==
    /\ call[t].pc = "drop" /\ call[t].chain = <<>> /\ lock = NoOne
    /\ lock' = t
    /\ call' = [call EXCEPT ![t] = call[t].back]
    /\ UNCHANGED <<store, flags, imgs, refs, alive, held, ctxs, lost>>

-----------------------------------------------------------------------------
(* fz_find_item and fz_store_item.                                         *)

Found(k) ==
    IF k \in Hashed THEN {hash[h] : h \in {k} \cap DOMAIN hash}
    ELSE {list[i] : i \in {j \in DOMAIN list :
             /\ KeyOf[list[j]] = k
             /\ \A h \in 1 .. j - 1 : KeyOf[list[h]] # k}}

\* Mutant: the caller's reference is not counted.
FindUncounted(t, k) ==
    /\ Enter(t) /\ Usable(t, k)
    /\ \E v \in Found(k) \ held[t] :
          /\ Touch(v)
          /\ held' = [held EXCEPT ![t] = @ \cup {v}]
    /\ UNCHANGED <<lock, call, hash, size, flags, imgs, refs, alive, ctxs, lost>>

Find(t, k) ==
    /\ Enter(t) /\ Usable(t, k)
    /\ \E v \in Found(k) \ held[t] :
          /\ Touch(v)
          /\ refs' = [refs EXCEPT ![v] = @ + 1]
          /\ held' = [held EXCEPT ![t] = @ \cup {v}]
    /\ UNCHANGED <<lock, call, hash, size, flags, imgs, alive, ctxs, lost>>

\* A thread that found nothing makes a value and stores it.
Missing(t, v) ==
    /\ Enter(t) /\ Usable(t, KeyOf[v])
    /\ v \notin alive
    /\ \A w \in held[t] : KeyOf[w] # KeyOf[v]

\* Another thread was faster: its value is used, the new one is dropped.
\* The key is kept and dropped again.
StoreDuplicate(t, v) ==
    /\ Missing(t, v)
    /\ KeyOf[v] \in DOMAIN hash
    /\ LET existing == hash[KeyOf[v]]
       IN  /\ Touch(existing)
           /\ refs' = [refs EXCEPT ![existing] = @ + 1]
           /\ held' = [held EXCEPT ![t] = @ \cup {existing}]
    /\ UNCHANGED <<lock, call, hash, size, flags, imgs, alive, ctxs, lost>>

\* Mutant: nobody looks whether the key is taken.
StoreBlindly(t, v) ==
    /\ Missing(t, v)
    /\ LET k == KeyOf[v]
       IN  /\ hash' = [h \in DOMAIN hash \cup ({k} \cap Hashed) |->
                          IF h = k THEN v ELSE hash[h]]
           /\ imgRefs' = [i \in Images |-> imgRefs[i] + (IF i = k THEN 1 ELSE 0)]
           /\ keyRefs' = [i \in Images |-> keyRefs[i] + (IF i = k THEN 1 ELSE 0)]
    /\ alive' = alive \cup {v}
    /\ refs' = [refs EXCEPT ![v] = 2]
    /\ held' = [held EXCEPT ![t] = @ \cup {v}]
    /\ lock' = t
    /\ call' = [call EXCEPT ![t] =
                   [pc |-> "store", item |-> v, want |-> size + Size[v]]]
    /\ UNCHANGED <<list, size, flags, users, ctxs, lost>>

\* The item goes into the hash table first; until it is in the list its
\* next pointer points to itself.  When there is no memory for item or
\* entry the call returns before anything is changed, the key given back.
StoreNew(t, v) ==
    /\ Missing(t, v)
    /\ KeyOf[v] \notin DOMAIN hash
    /\ LET k == KeyOf[v]
       IN  /\ hash' = [h \in DOMAIN hash \cup ({k} \cap Hashed) |->
                          IF h = k THEN v ELSE hash[h]]
           /\ imgRefs' = [i \in Images |-> imgRefs[i] + (IF i = k THEN 1 ELSE 0)]
           /\ keyRefs' = [i \in Images |-> keyRefs[i] + (IF i = k THEN 1 ELSE 0)]
    /\ alive' = alive \cup {v}
    /\ refs' = [refs EXCEPT ![v] = 2]
    /\ held' = [held EXCEPT ![t] = @ \cup {v}]
    /\ lock' = t
    /\ call' = [call EXCEPT ![t] =
                   [pc |-> "store", item |-> v, want |-> size + Size[v]]]
    /\ UNCHANGED <<list, size, flags, users, ctxs, lost>>

\* The values only the store refers to, from the i-th item to the tail.
Evictable(i) == {v \in {list[j] : j \in i .. Len(list)} : refs[v] = 1}

\* The shortest part of the tail that frees enough, if the list does.
Tails(need) == {i \in DOMAIN list : SizeOf(Evictable(i)) >= need}

\* Mutant: the item is linked and not counted.
LinkUncounted(t, v) ==
    /\ Touch(v)
    /\ lock' = NoOne
    /\ call' = [call EXCEPT ![t] = Idle]
    /\ UNCHANGED size

Link(t, v) ==
    /\ size' = size + Size[v]
    /\ Touch(v)
    /\ lock' = NoOne
    /\ call' = [call EXCEPT ![t] = Idle]

\* There is room.
StoreFits(t) ==
    /\ At(t, "store") /\ ~ Oversized(call[t].want)
    /\ Link(t, call[t].item)
    /\ UNCHANGED <<hash, flags, imgs, refs, alive, held, ctxs, lost>>

OrphanKey(k) == k \in Images /\ imgRefs[k] = keyRefs[k]

\* do_reap: the items whose key nobody else refers to.
Reap(t, back) ==
    /\ Remove(t, Within(list, {v \in Vals : OrphanKey(KeyOf[v])}), back)
    /\ needs_reaping' = FALSE

\* Outstanding reaping comes first, whoever deferred it.
StoreReap(t) ==
    /\ At(t, "store") /\ Oversized(call[t].want) /\ needs_reaping
    /\ Reap(t, [call[t] EXCEPT !.pc = "reaped"])
    /\ UNCHANGED <<scavenging, deferring, imgs, alive, held, ctxs, lost>>

\* The pass of the loop that calls ensure_space.
Looking(t) ==
    \/ At(t, "store") /\ Oversized(call[t].want) /\ ~ needs_reaping
    \/ At(t, "reaped")

\* Nothing more to free, or no need to: the item is stored all the same.
StoreAnyway(t) ==
    /\ Looking(t)
    /\ LET need == size + Size[call[t].item] - MaxSize
       IN  need <= 0 \/ Tails(need) = {}
    /\ Link(t, call[t].item)
    /\ UNCHANGED <<hash, flags, imgs, refs, alive, held, ctxs, lost>>

\* Mutant: what is freed can still be found by its key.
EnsureSpaceFindable(t) ==
    /\ Looking(t)
    /\ LET c    == call[t]
           need == size + Size[c.item] - MaxSize
       IN  /\ need > 0 /\ Tails(need) # {}
           /\ LET V == Evictable(Max(Tails(need)))
                  s == Within(list, V)
              IN  /\ list' = Without(list, V)
                  /\ size' = size - SizeOf(V)
                  /\ call' = [call EXCEPT ![t] =
                        [pc |-> "space", chain |-> s, item |-> c.item,
                         want |-> size + Size[c.item] - SizeOf(V)]]
    /\ UNCHANGED <<lock, hash, flags, imgs, refs, alive, held, ctxs, lost>>

\* ensure_space takes what it frees out of list and hash at once.
EnsureSpace(t) ==
    /\ Looking(t)
    /\ LET c    == call[t]
           need == size + Size[c.item] - MaxSize
       IN  /\ need > 0 /\ Tails(need) # {}
           /\ LET V == Evictable(Max(Tails(need)))
                  s == Within(list, V)
              IN  /\ list' = Without(list, V)
                  /\ hash' = Unhashed(V)
                  /\ size' = size - SizeOf(V)
                  /\ call' = [call EXCEPT ![t] =
                        [pc |-> "space", chain |-> s, item |-> c.item,
                         want |-> size + Size[c.item] - SizeOf(V)]]
    /\ UNCHANGED <<lock, flags, imgs, refs, alive, held, ctxs, lost>>

\* Each of them loses the store's reference under the lock and is
\* discarded outside of it.
SpaceUnref(t) ==
    /\ At(t, "space")
    /\ LET c == call[t]
           v == Head(c.chain)
           back == IF Len(c.chain) > 1
                   THEN [c EXCEPT !.chain = Tail(@)]
                   ELSE [pc |-> "store", item |-> c.item, want |-> c.want]
       IN  /\ refs' = Unref({v})
           /\ call' = [call EXCEPT ![t] =
                          Discard(<<v>>, {w \in {v} : refs'[w] = 0}, back)]
    /\ lock' = NoOne
    /\ UNCHANGED <<store, flags, imgs, alive, held, ctxs, lost>>

-----------------------------------------------------------------------------
(* Scavenging: fz_drop_storable, fz_shrink_store and failed allocations.   *)

\* What scavenge may take from the i-th item to the tail: no fonts while
\* the thread holds the lock of the font library.
Droppable(i, inFont) == Evictable(i) \ (IF inFont THEN Fonts ELSE {})

\* The largest of the values that would have to go, the oldest of them.
\* Nothing is enough without a value that can go, even where 0 is needed.
Victims(need, inFont) ==
    LET enough == {i \in DOMAIN list : /\ Droppable(i, inFont) # {}
                                       /\ SizeOf(Droppable(i, inFont)) >= need}
        V == Droppable(IF enough = {} THEN 1 ELSE Max(enough), inFont)
    IN  {v \in V : \A w \in V \ {v} :
            \/ Size[v] > Size[w]
            \/ /\ Size[v] = Size[w]
               /\ \E i, j \in DOMAIN list : list[i] = v /\ list[j] = w /\ j < i}

\* scavenge, unless another thread is at it: then it frees nothing.
Scavenge(t, tofree, back) ==
    /\ ~ scavenging
    /\ scavenging' = TRUE
    /\ lock' = t
    /\ call' = [call EXCEPT ![t] = [pc |-> "scavenge", tofree |-> tofree,
                                    freed |-> 0, back |-> back]]

ScavengeMore(c) == c.freed = 0 \/ c.freed < c.tofree

\* evict, and look at the list afresh.  Whether the thread is in the font
\* library is left open at each look.
ScavengeEvict(t) ==
    /\ At(t, "scavenge") /\ ScavengeMore(call[t])
    /\ \E inFont \in BOOLEAN :
       \E v \in Victims(call[t].tofree - call[t].freed, inFont) :
          Remove(t, <<v>>, [call[t] EXCEPT !.freed = @ + Size[v]])
    /\ UNCHANGED <<flags, imgs, alive, held, ctxs, lost>>

\* The allocation is tried again when something was freed, and in the next
\* phase otherwise.
Scavenged(c) ==
    IF c.back = Idle THEN Idle
    ELSE [c.back EXCEPT !.pc = IF c.freed # 0 THEN "malloc" ELSE "while"]

ScavengeEnd(t) ==
    /\ At(t, "scavenge")
    /\ \/ ~ ScavengeMore(call[t])
       \/ \E inFont \in BOOLEAN :
             Victims(call[t].tofree - call[t].freed, inFont) = {}
    /\ scavenging' = FALSE
    /\ call' = [call EXCEPT ![t] = Scavenged(call[t])]
    /\ lock' = IF call'[t] = Idle THEN NoOne ELSE t
    /\ UNCHANGED <<store, needs_reaping, deferring, imgs, refs, alive, held, ctxs, lost>>

\* fz_drop_storable: the last user of a value the store keeps brings an
\* oversized store down.
Drop(t, v) ==
    /\ Enter(t) /\ v \in held[t]
    /\ refs' = [refs EXCEPT ![v] = @ - 1]
    /\ held' = [held EXCEPT ![t] = @ \ {v}]
    /\ alive' = IF refs'[v] = 0 THEN alive \ {v} ELSE alive
    /\ \/ /\ refs'[v] = 1 /\ Oversized(size)
          /\ Scavenge(t, size - MaxSize, Idle)
       \/ /\ refs'[v] # 1 \/ ~ Oversized(size) \/ scavenging
          /\ UNCHANGED <<lock, call, scavenging>>
    /\ UNCHANGED <<store, needs_reaping, deferring, imgs, ctxs, lost>>

Shrink(t, percent) ==
    /\ Enter(t) /\ percent < 100
    /\ LET new_size == ((IF Unlimited THEN size ELSE MaxSize) * percent) \div 100
       IN  size > new_size /\ Scavenge(t, size - new_size, Idle)
    /\ UNCHANGED <<store, needs_reaping, deferring, imgs, refs, alive, held, ctxs, lost>>

\* do_scavenging_malloc: the system's allocator is asked under the lock.
Malloc(t, n) ==
    /\ Enter(t)
    /\ lock' = t
    /\ call' = [call EXCEPT ![t] = [pc |-> "malloc", size |-> n, phase |-> 0, max |-> 0]]
    /\ UNCHANGED <<store, flags, imgs, refs, alive, held, ctxs, lost>>

MallocOk(t) ==
    /\ At(t, "malloc")
    /\ lock' = NoOne
    /\ call' = [call EXCEPT ![t] = Idle]
    /\ UNCHANGED <<store, flags, imgs, refs, alive, held, ctxs, lost>>

MallocFails(t) ==
    /\ At(t, "malloc")
    /\ call' = [call EXCEPT ![t].pc = "phase"]
    /\ UNCHANGED <<lock, store, flags, imgs, refs, alive, held, ctxs, lost>>

\* The size the store may have in a phase; later phases are all alike.
PhaseMax(p) ==
    IF p >= Phases THEN 0
    ELSE IF Unlimited THEN (size \div (Phases - p)) * (Phases - 1 - p)
    ELSE (MaxSize \div Phases) * (Phases - p)

\* How much fz_store_scavenge wants freed, -1 for none: it does nothing when
\* the store is larger than the phase allows, and wraps round when not.
ToFree(n, max) ==
    IF n > Word - 1 - size THEN Word - 1 - max
    ELSE IF n + size > max THEN -1
    ELSE (n + size - max) % Word

\* One pass of the loop of fz_store_scavenge.
Phase(t) ==
    /\ At(t, "phase")
    /\ LET c      == call[t]
           max    == PhaseMax(c.phase)
           tofree == ToFree(c.size, max)
           next   == [c EXCEPT !.phase = IF @ < Phases THEN @ + 1 ELSE @, !.max = max]
       IN  \/ tofree >= 0 /\ Scavenge(t, tofree, next)
           \/ /\ tofree < 0 \/ scavenging
              /\ call' = [call EXCEPT ![t] = [next EXCEPT !.pc = "while"]]
              /\ UNCHANGED <<lock, scavenging>>
    /\ UNCHANGED <<store, needs_reaping, deferring, imgs, refs, alive, held, ctxs, lost>>

\* while (max > 0): the allocation fails after the last phase.
While(t) ==
    /\ At(t, "while")
    /\ \/ /\ call[t].max > 0
          /\ call' = [call EXCEPT ![t].pc = "phase"]
          /\ UNCHANGED lock
       \/ /\ call[t].max = 0
          /\ call' = [call EXCEPT ![t] = Idle]
          /\ lock' = NoOne
    /\ UNCHANGED <<store, flags, imgs, refs, alive, held, ctxs, lost>>

-----------------------------------------------------------------------------
(* Images, deferred reaping, documents and contexts.                       *)

\* fz_drop_key_storable: the last user of an image that is only a key.
DropImage(t, i) ==
    /\ Enter(t) /\ i \in users[t]
    /\ users' = [users EXCEPT ![t] = @ \ {i}]
    /\ imgRefs' = [imgRefs EXCEPT ![i] = @ - 1]
    /\ UNCHANGED <<keyRefs, scavenging, deferring, alive, held, ctxs, lost>>
    /\ LET orphan == imgRefs'[i] > 0 /\ imgRefs'[i] = keyRefs[i]
       IN  \/ /\ orphan /\ deferring = {}
              /\ LET orphans == {v \in Vals : /\ KeyOf[v] \in Images
                                              /\ imgRefs'[KeyOf[v]] = keyRefs[KeyOf[v]]}
                 IN  Remove(t, Within(list, orphans), Idle)
              /\ needs_reaping' = FALSE
           \/ /\ orphan /\ deferring # {}
              /\ needs_reaping' = TRUE
              /\ UNCHANGED <<lock, call, store, refs>>
           \/ /\ ~ orphan
              /\ UNCHANGED <<lock, call, store, refs, needs_reaping>>

DeferStart(t) ==
    /\ Enter(t) /\ t \notin deferring
    /\ deferring' = deferring \cup {t}
    /\ UNCHANGED <<lock, call, store, scavenging, needs_reaping, imgs, refs, alive,
                   held, ctxs, lost>>

\* Mutant: the last one to end forgets what was put off.
DeferEndWithoutReaping(t) ==
    /\ Enter(t) /\ t \in deferring
    /\ deferring' = deferring \ {t}
    /\ UNCHANGED <<lock, call, store, scavenging, needs_reaping, imgs, refs, alive,
                   held, ctxs, lost>>

DeferEnd(t) ==
    /\ Enter(t) /\ t \in deferring
    /\ deferring' = deferring \ {t}
    /\ IF deferring' = {} /\ needs_reaping THEN Reap(t, Idle)
       ELSE UNCHANGED <<lock, call, store, refs, needs_reaping>>
    /\ UNCHANGED <<scavenging, imgs, alive, held, ctxs, lost>>

\* fz_remove_item of a document's key: size is left as it is.
RemoveItem(t, k) ==
    /\ Enter(t) /\ k \in DOMAIN Owner /\ Usable(t, k)
    /\ \E v \in Found(k) :
          /\ lost + Size[v] <= MaxLost
          /\ lost' = lost + Size[v]
          /\ list' = Without(list, {v})
          /\ hash' = Unhashed({v})
          /\ refs' = Unref({v})
          /\ call' = [call EXCEPT ![t] =
                         Discard(<<v>>, {w \in {v} : refs'[w] = 0}, Idle)]
    /\ UNCHANGED <<lock, size, flags, imgs, alive, held, ctxs>>

\* fz_filter_store when the thread's document is closed.
Filter(t) ==
    /\ Enter(t)
    /\ LET s == Within(list, {v \in Vals : KeyOf[v] \in DOMAIN Owner /\ Usable(t, KeyOf[v])})
       IN  s # <<>> /\ Remove(t, s, Idle)
    /\ UNCHANGED <<flags, imgs, alive, held, ctxs, lost>>

\* fz_drop_store_context: the last context takes the store with it.
Leave(t) ==
    /\ Enter(t) /\ held[t] = {} /\ users[t] = {} /\ t \notin deferring
    /\ ctxs' = ctxs \ {t}
    /\ \/ ctxs' # {} /\ UNCHANGED <<lock, call>>
       \/ /\ ctxs' = {}
          /\ lock' = t /\ call' = [call EXCEPT ![t] = [pc |-> "empty"]]
    /\ UNCHANGED <<store, flags, imgs, refs, alive, held, lost>>

\* fz_empty_store: evict from the head, letting go of the lock each time.
Empty(t) ==
    /\ At(t, "empty")
    /\ \/ /\ list # <<>>
          /\ Remove(t, <<Head(list)>>, call[t])
       \/ /\ list = <<>>
          /\ lock' = NoOne /\ call' = [call EXCEPT ![t] = Idle]
          /\ UNCHANGED <<store, refs>>
    /\ UNCHANGED <<flags, imgs, alive, held, ctxs, lost>>

\* The steps of a call that has begun.
Continue(t) ==
    \/ StoreFits(t) \/ StoreReap(t) \/ StoreAnyway(t) \/ EnsureSpace(t)
    \/ SpaceUnref(t) \/ ScavengeEvict(t) \/ ScavengeEnd(t)
    \/ MallocOk(t) \/ MallocFails(t) \/ Phase(t) \/ While(t) \/ Empty(t)
    \/ DropItem(t) \/ Relock(t)

Begin(t) ==
    \/ \E k \in Keys : Find(t, k) \/ RemoveItem(t, k)
    \/ \E v \in Vals : StoreDuplicate(t, v) \/ StoreNew(t, v) \/ Drop(t, v)
    \/ \E i \in Images : DropImage(t, i)
    \/ \E p \in Percents : Shrink(t, p)
    \/ \E n \in Allocs : Malloc(t, n)
    \/ DeferStart(t) \/ DeferEnd(t) \/ Filter(t) \/ Leave(t)

Next == \E t \in Threads : Begin(t) \/ Continue(t)

Spec == Init /\ [][Next]_vars

-----------------------------------------------------------------------------
(* Properties.                                                             *)

\* What a call goes on with when it has discarded its items.
Resumed(c) == IF c.pc = "drop" THEN c.back ELSE c

\* A value being stored whose item is not counted in the size yet.
ItemOf(c) == IF Resumed(c).pc \in {"store", "reaped", "space"} THEN {Resumed(c).item} ELSE {}

\* Values out of the store that still have the store's reference.
LeavingOf(c) == IF Resumed(c).pc = "space" THEN Range(Resumed(c).chain) ELSE {}

\* Values to be destroyed as soon as the chain gets to them.
DoomedOf(c) == IF c.pc = "drop" THEN c.dead ELSE {}

Inserting == UNION {ItemOf(call[t]) : t \in Threads}
Leaving   == UNION {LeavingOf(call[t]) : t \in Threads}
Doomed    == UNION {DoomedOf(call[t]) : t \in Threads}

InStore == Range(list) \cup Inserting \cup Leaving

\* The variables have their types.
TypeOK ==
    /\ lock \in Threads \cup {NoOne}
    /\ list \in Seq(Vals)
    /\ DOMAIN hash \subseteq Hashed /\ hash \in [DOMAIN hash -> Vals]
    /\ size \in Nat /\ lost \in Nat
    /\ scavenging \in BOOLEAN /\ needs_reaping \in BOOLEAN
    /\ deferring \subseteq ctxs /\ ctxs \subseteq Threads
    /\ refs \in [Vals -> Nat] /\ alive \subseteq Vals
    /\ held \in [Threads -> SUBSET Vals] /\ users \in [Threads -> SUBSET Images]
    /\ keyRefs \in [Images -> Nat] /\ imgRefs \in [Images -> Nat]

\* A value's count is the number of threads that use it, plus one for the
\* store while the store, an insertion or ensure_space still has it.
RefsAreUsers ==
    \A v \in Vals : refs[v] = Cardinality({t \in Threads : v \in held[t]})
                              + (IF v \in InStore THEN 1 ELSE 0)

\* Nothing that can still be reached has been destroyed, and what is about
\* to be destroyed cannot be reached and is destroyed by one thread.
NothingReachableDestroyed ==
    /\ (UNION {held[t] : t \in Threads}) \cup InStore \cup {hash[k] : k \in DOMAIN hash}
       \subseteq alive \ Doomed
    /\ Doomed \subseteq alive
    /\ \A t1, t2 \in Threads : t1 # t2 => DoomedOf(call[t1]) \cap DoomedOf(call[t2]) = {}

\* Hash table, list and total tell the same story: every item with a hash
\* key is found by it, so none is in the store twice, and the total is the
\* size of what is listed, less what is still being stored, plus what
\* fz_remove_item took out.
BooksAgree ==
    /\ \A k \in DOMAIN hash : KeyOf[hash[k]] = k /\ hash[k] \in Range(list) \cup Inserting
    /\ \A v \in Range(list) : KeyOf[v] \in Hashed =>
          KeyOf[v] \in DOMAIN hash /\ hash[KeyOf[v]] = v
    /\ Len(list) = Cardinality(Range(list))
    /\ size = SizeOf(Range(list) \ Inserting) + lost

\* An item whose image only the store still knows is on its way out, or a
\* reaping that somebody deferred is noted down.
OrphansAreReaped ==
    (\E v \in Range(list) : OrphanKey(KeyOf[v])) => needs_reaping /\ deferring # {}

\* When the last context is gone nothing is left behind.
NothingLeft ==
    (ctxs = {} /\ \A t \in Threads : call[t] = Idle) =>
        alive = {} /\ hash = <<>> /\ \A i \in Images : imgRefs[i] = 0

\* An allocation fails only when nothing in the store can be evicted, or
\* another thread is evicting it: what memory.c says of malloc.
AllocationFailsLast ==
    [][\A t \in Threads :
          At(t, "while") /\ call'[t] = Idle => scavenging \/ Evictable(1) = {}]_vars
=============================================================================
