------------------------------ MODULE Containers ----------------------------
(***************************************************************************)
(* The data structures of the assignments: the queue (myqueue.h), the      *)
(* stack (mystack.h) and the hash map (my_hashmap.c).  The queue and the   *)
(* stack return a constant from their dequeue functions: an item can only  *)
(* be seen where it is stored.                                             *)
(***************************************************************************)
EXTENDS Integers, Sequences, FiniteSetsExt, SequencesExt

CONSTANTS
    Entries, Capacity,      \* of the queue and the stack
    Keys, Values,
    NoItem, NoVal,          \* what a place holds before it is written
    KeyLen,                 \* strlen() of a key
    BUCKETS

ASSUME ContainersAssumption ==
    /\ Capacity \in Nat \ {0} /\ BUCKETS \in Nat \ {0}
    /\ KeyLen \in [Keys -> Nat] /\ NoItem \notin Entries /\ NoVal \notin Values

VARIABLES
    queue,          \* queue_t: front, back, size, data
    stk,            \* stack_t: count, and the nodes from head on
    lists,          \* arrayOfLists: a sequence of pairs for each bucket
    fifo, lifo,     \* history: the items that are in, oldest first
    dict            \* history: the value last given to each key

containersVars == <<queue, stk, lists, fifo, lifo, dict>>
queueVars == <<queue, fifo>>
stackVars == <<stk, lifo>>
mapVars == <<lists, dict>>

(* create_queue(), create_stack(), hashmap_create().  hashmap_create()     *)
(* does not write the lists: they are taken to be empty, as in fresh       *)
(* memory.                                                                 *)
ContainersInit ==
    /\ queue = [front |-> 0, back |-> 0, size |-> 0,
                data |-> [i \in 0..(Capacity - 1) |-> NoItem]]
    /\ stk = [count |-> 0, head |-> << >>]
    /\ lists = [b \in 0..(BUCKETS - 1) |-> << >>]
    /\ fifo = << >> /\ lifo = << >>
    /\ dict = [k \in Keys |-> NoVal]

-----------------------------------------------------------------------------
(* queue_empty(), queue_full(), stack_full()                               *)
QueueEmpty == queue.size = 0
QueueFull == queue.size = Capacity
StackFull == stk.count = Capacity

(* Mutant of Following: the index wraps one place late.                    *)
FollowingLate(i) == (i + 1) % (Capacity + 1)

(* The place after i in the ring.                                          *)
Following(i) == (i + 1) % Capacity

QueueEnqueue(x) ==
    /\ ~QueueFull
    /\ queue' = [queue EXCEPT !.size = @ + 1, !.back = Following(@),
             !.data = [i \in 0..(Capacity - 1) |-> IF i = queue.back THEN x ELSE @[i]]]
    /\ fifo' = Append(fifo, x)
    /\ UNCHANGED <<stackVars, mapVars>>

QueueDequeue ==
    /\ ~QueueEmpty
    /\ queue' = [queue EXCEPT !.size = @ - 1, !.front = Following(@)]
    /\ fifo' = Tail(fifo)
    /\ UNCHANGED <<stackVars, mapVars>>

(* stack_enqueue(): an empty stack forgets its head.                       *)
StackEnqueue(x) ==
    /\ ~StackFull
    /\ stk' = [count |-> stk.count + 1,
                 head |-> IF stk.count = 0 THEN <<x>> ELSE <<x>> \o stk.head]
    /\ lifo' = Append(lifo, x)
    /\ UNCHANGED <<queueVars, mapVars>>

(* stack_dequeue(): the first node is freed.                               *)
StackDequeue ==
    /\ stk.count # 0
    /\ stk' = [count |-> stk.count - 1, head |-> Tail(stk.head)]
    /\ lifo' = Front(lifo)
    /\ UNCHANGED <<queueVars, mapVars>>

-----------------------------------------------------------------------------
(* stringHash()                                                            *)
Bucket(k) == KeyLen[k] % BUCKETS

(* hashmap_hasKey(): the place of k in its list, or 0.                     *)
Place(k) == SelectInSeq(lists[Bucket(k)], LAMBDA kv : kv[1] = k)
HasKey(k) == Place(k) # 0

(* hashmap_getValue()                                                      *)
GetValue(k) == IF HasKey(k) THEN lists[Bucket(k)][Place(k)][2] ELSE NoVal

(* hashmap_insert(): at the end of the list, when the key is new.          *)
Insert(k, v) ==
    /\ lists' = IF HasKey(k) THEN lists
                ELSE [lists EXCEPT ![Bucket(k)] = Append(@, <<k, v>>)]
    /\ dict' = IF dict[k] = NoVal THEN [dict EXCEPT ![k] = v] ELSE dict
    /\ UNCHANGED <<queueVars, stackVars>>

(* hashmap_removeKey(): the node before it skips the node of k.            *)
RemoveKey(k) ==
    /\ lists' = IF HasKey(k) THEN [lists EXCEPT ![Bucket(k)] = RemoveAt(@, Place(k))] ELSE lists
    /\ dict' = [dict EXCEPT ![k] = NoVal]
    /\ UNCHANGED <<queueVars, stackVars>>

(* hashmap_update()                                                        *)
Update(k, v) ==
    /\ HasKey(k)
    /\ lists' = [lists EXCEPT ![Bucket(k)][Place(k)] = <<k, v>>]
    /\ dict' = [dict EXCEPT ![k] = v]
    /\ UNCHANGED <<queueVars, stackVars>>

ContainersNext ==
    \/ \E x \in Entries : QueueEnqueue(x) \/ StackEnqueue(x)
    \/ QueueDequeue \/ StackDequeue
    \/ \E k \in Keys : RemoveKey(k) \/ \E v \in Values : Insert(k, v) \/ Update(k, v)

ContainersSpec == ContainersInit /\ [][ContainersNext]_containersVars

-----------------------------------------------------------------------------
(* The ring holds the items of the queue in their order, wherever it       *)
(* starts and also when it is full; the nodes of the stack are its items   *)
(* from the last to the first; and the lists are the map: each key has its *)
(* last value, once, whichever keys share its bucket and were removed.     *)
ContainersKeep ==
    /\ fifo = [i \in 1..queue.size |-> queue.data[(queue.front + i - 1) % Capacity]]
    /\ queue.back = (queue.front + queue.size) % Capacity
    /\ stk.count = Len(stk.head) /\ lifo = Reverse(stk.head)
    /\ \A k \in Keys : GetValue(k) = dict[k]
    /\ \A b \in DOMAIN lists : \A i, j \in DOMAIN lists[b] :
         /\ Bucket(lists[b][i][1]) = b
         /\ lists[b][i][1] = lists[b][j][1] => i = j
=============================================================================
