------------------------------- MODULE RawValues -------------------------------
(***************************************************************************)
(* The raw-value operations of Queue and PriorityQueue: aadd, aget, apoll, *)
(* aclear and their _priority forms, of backends/redis/provider.py and     *)
(* backends/memory/provider.py.  In Redis a call is one or more commands   *)
(* on a list or a sorted set, between which other clients run.  In process *)
(* it is a put or a get on a queue.Queue, LifoQueue or PriorityQueue.      *)
(***************************************************************************)
EXTENDS Integers, Sequences, FiniteSets, Functions

CONSTANTS
    RawClients,     \* tasks that use the queue
    RawItems,       \* the values, numbered by priority
    MaxSize,        \* maxsize; 0 for no limit
    MaxBatch,       \* bound: the most values in one call
    MaxAdded        \* bound: how often one value is added

ASSUME RawConstantsOK ==
    /\ RawItems \subseteq Int
    /\ MaxSize \in Nat /\ MaxBatch \in Nat \ {0} /\ MaxAdded \in Nat

VARIABLES
    form,           \* which of the queues this is
    items,          \* the values in it, the next one first
    client,         \* what each client is doing, and with which values
    came,           \* history: how often each value was added,
    went,           \*          and how often it was handed out or cleared
    shared          \* history: values taken away under a client that was getting them

rawvars == <<form, items, client, came, went, shared>>

InRedis == form.store = "redis"
Prioritised == form.kind = "priority"

Doing(c, where) == client[c].at = where
Idle == [at |-> "idle", values |-> <<>>]
Goto(c, where, values) == client' = [client EXCEPT ![c] = [at |-> where, values |-> values]]
Rest(c) == Goto(c, "idle", <<>>)

Times(v, vs) == Len(SelectSeq(vs, LAMBDA w : w = v))
Occurrences(v) == Times(v, items)
Getting(c, v) == Doing(c, "zrem") /\ Head(client[c].values) = v

\* Where a value goes: queue, stack, or the best first.
Placed(s, v) ==
    CASE form.kind = "queue" -> Append(s, v)
      [] form.kind = "stack" -> <<v>> \o s
      [] OTHER               -> SelectSeq(s, LAMBDA w : w >= v) \o <<v>>
                                   \o SelectSeq(s, LAMBDA w : w < v)

\* The queue s after the values of vs went in, one after the other.
Filled(s, vs) ==
    LET after[n \in 0 .. Len(vs)] == IF n = 0 THEN s ELSE Placed(after[n - 1], vs[n])
    IN  after[Len(vs)]

Batches == UNION {[1 .. n -> RawItems] : n \in 1 .. MaxBatch}
Within(vs) == \A v \in RawItems : came[v] + Times(v, vs) <= MaxAdded

\* The values of vs arrive in the queue, or those of gone depart from it.
Arrive(vs) ==
    /\ items' = Filled(items, vs)
    /\ came' = [v \in RawItems |-> came[v] + Times(v, vs)]
    /\ UNCHANGED <<form, went, shared>>

Depart(gone, others) ==
    /\ went' = [v \in RawItems |-> went[v] + Times(v, gone)]
    /\ shared' = shared \cup {v \in Range(gone) : \E d \in others : Getting(d, v)}
    /\ UNCHANGED <<form, came>>

Calls(c) == Doing(c, "idle") /\ UNCHANGED <<form, items, came, went, shared>>

-------------------------------------------------------------------------------
Room(n, k) == MaxSize = 0 \/ n + k <= MaxSize

\* aadd in Redis: LLEN and its check, then RPUSH of all values.
AaddReads(c) ==
    /\ InRedis /\ ~Prioritised
    /\ \E vs \in Batches : /\ Within(vs)
                           /\ Room(Len(items), Len(vs))
                           /\ Goto(c, "rpush", vs)
    /\ Calls(c)

Rpush(c) ==
    /\ Doing(c, "rpush")
    /\ Arrive(client[c].values)
    /\ Rest(c)

\* aadd_priority in Redis, and both forms in process: one value after the other.
AaddEach(c) ==
    /\ ~InRedis \/ Prioritised
    /\ \E vs \in Batches : Within(vs) /\ Goto(c, "next", vs)
    /\ Calls(c)

\* Mutant of AddPriorityChecks: ZCARD is not compared with maxsize.
AddPriorityUnchecked(c) ==
    /\ Doing(c, "next") /\ InRedis
    /\ Goto(c, "zadd", client[c].values)
    /\ UNCHANGED <<form, items, came, went, shared>>

\* ZCARD and its check; what is left of a batch is given up when the queue is full.
AddPriorityChecks(c) ==
    /\ Doing(c, "next") /\ InRedis
    /\ IF Room(Len(items), 1) THEN Goto(c, "zadd", client[c].values) ELSE Rest(c)
    /\ UNCHANGED <<form, items, came, went, shared>>

Continue(c) ==
    IF Len(client[c].values) = 1 THEN Rest(c) ELSE Goto(c, "next", Tail(client[c].values))

\* ZADD NX, which leaves a member that is there alone.
ZaddNx(c) ==
    /\ Doing(c, "zadd")
    /\ Arrive(SelectSeq(<<Head(client[c].values)>>, LAMBDA v : Occurrences(v) = 0))
    /\ Continue(c)

PutNowait(c) ==
    /\ Doing(c, "next") /\ ~InRedis
    /\ IF Room(Len(items), 1)
       THEN Arrive(<<Head(client[c].values)>>) /\ Continue(c)
       ELSE Rest(c) /\ UNCHANGED <<form, items, came, went, shared>>

\* aget and apoll: LPOP, RPOP, BLPOP, BRPOP, BZPOPMAX or get_nowait.
Pop(c) ==
    /\ Doing(c, "idle") /\ items # <<>>
    /\ items' = Tail(items)
    /\ Depart(<<Head(items)>>, RawClients)
    /\ UNCHANGED client

\* aget_priority in Redis: ZREVRANGE, then ZREM, whose reply is not looked at.
ZrevRange(c) ==
    /\ InRedis /\ Prioritised /\ items # <<>>
    /\ Goto(c, "zrem", <<Head(items)>>)
    /\ Calls(c)

Zrem(c) ==
    /\ Doing(c, "zrem")
    /\ items' = SelectSeq(items, LAMBDA w : w # Head(client[c].values))
    /\ Depart(client[c].values, RawClients \ {c})
    /\ Rest(c)

\* aclear: DEL; in process one get_nowait after the other until the queue is empty.
Delete(c) ==
    /\ Doing(c, "idle") /\ InRedis /\ items # <<>>
    /\ items' = <<>>
    /\ Depart(items, RawClients)
    /\ UNCHANGED client

AclearStarts(c) ==
    /\ ~InRedis /\ Goto(c, "clear", <<>>)
    /\ Calls(c)

AclearGets(c) ==
    /\ Doing(c, "clear")
    /\ IF items = <<>> THEN Rest(c) /\ UNCHANGED <<form, items, came, went, shared>>
       ELSE items' = Tail(items) /\ Depart(<<Head(items)>>, RawClients) /\ UNCHANGED client

-------------------------------------------------------------------------------
RawInit ==
    /\ form \in [store : {"redis", "memory"}, kind : {"queue", "stack", "priority"}]
    /\ items = <<>> /\ shared = {}
    /\ client = [c \in RawClients |-> Idle]
    /\ came = [v \in RawItems |-> 0] /\ went = came

RawStep(c) ==
    \/ AaddReads(c) \/ Rpush(c) \/ AaddEach(c) \/ AddPriorityChecks(c) \/ ZaddNx(c)
    \/ PutNowait(c) \/ Pop(c) \/ ZrevRange(c) \/ Zrem(c)
    \/ Delete(c) \/ AclearStarts(c) \/ AclearGets(c)

RawNext == \E c \in RawClients : RawStep(c)

\* maxsize is exceeded only by clients that checked the size of a Redis queue before
\* the others had added: by one batch each (aadd), or one value (aadd_priority), of
\* all clients but one.  In process it is never exceeded.
Others == Cardinality(RawClients) - 1
OvershootBounded ==
    MaxSize > 0 =>
       Len(items) <= MaxSize + (CASE ~InRedis      -> 0
                                  [] Prioritised -> Others
                                  [] OTHER       -> Others * MaxBatch)

\* No value is lost between the commands of a call, and none is handed out twice
\* unless it was taken away under a client that was getting it: between ZREVRANGE
\* and ZREM of aget_priority.
HandedOut ==
    \A v \in RawItems :
       /\ came[v] <= Occurrences(v) + went[v]
       /\ v \notin shared => came[v] = Occurrences(v) + went[v]

\* A raw-value queue keeps its bound and its values, whatever commands of other
\* clients come between those of a call.
ValuesAreKept == OvershootBounded /\ HandedOut

===============================================================================
