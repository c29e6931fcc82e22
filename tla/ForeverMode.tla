---------------------------- MODULE ForeverMode ----------------------------
(***************************************************************************)
(* Forever mode: the queue keeps asking registered pages for work while a  *)
(* backend has room (backend/generation_queue.py), the requests travel     *)
(* through the page's WebSocket (backend/utils/websocket.py) and the page  *)
(* answers each by submitting a job or declining                           *)
(* (frontend/src/views/ToolView.vue, backend/routes/generation.py).        *)
(*                                                                         *)
(* Everything here is memory of one process and of the pages.  A request   *)
(* stands for its reservation id and for the timestamp in the two pending  *)
(* lists, which the code keeps equal.  Jobs are kept to what the dispatch  *)
(* reads of them; their execution is the subject of GenerationQueue.       *)
(***************************************************************************)
EXTENDS Integers, FiniteSets, Sequences, SequencesExt

CONSTANTS
    Client,         \* generator instances: one page each
    Backend,        \* generation backends
    Job,            \* rows of generation_jobs alive at one time
    Socket,         \* WebSocket connections alive at one time
    MaxRequests,    \* bound: requests of one page and backend alive at once
    MaxWaiting,     \* bound: calls of one backend waiting for the lock
    MaxPosts,       \* bound: register and unregister POSTs of a page under way
    MaxConcurrent,  \* the concurrency each backend reports
    Limit,          \* max_concurrency each page registers with, 0 = none
    Rank,           \* the order of generator instance ids
    Steady,         \* pages that stay connected, in forever mode, answering
    FaultSets,      \* sets of what may go wrong together, see FaultKind
    None

FaultKind == {
    "lapse",        \* PENDING_REQUEST_TTL passes over an abandoned request
    "slow",         \* ... and over one that is still to be answered
    "ignore",       \* a page drops a request without an answer
    "stop",         \* a page switches forever mode off
    "depart",       \* a page's connection is lost
    "return",       \* ... and the page connects again
    "late",         \* the registration POST overtakes or trails the socket
    "loss",         \* a backend disconnects and comes back
    "reject",       \* a submission fails after its reservation is claimed
    "plain",        \* a page submits jobs nobody asked it for
    "overtake"}     \* a tail ends between a dispatch's two readings of its page

Request == Client \X Backend \X (1..MaxRequests)
ClientOf(r) == r[1]
BackendOf(r) == r[2]

ASSUME ForeverAssumption ==
    /\ IsFiniteSet(Client) /\ IsFiniteSet(Backend) /\ IsFiniteSet(Job)
    /\ MaxRequests \in Nat \ {0}
    /\ MaxWaiting \in Nat \ {0}
    /\ MaxPosts \in Nat \ {0}
    /\ MaxConcurrent \in [Backend -> Nat \ {0}]
    /\ Limit \in [Client -> Nat]
    /\ Rank \in [Client -> Nat]
    /\ \A c, d \in Client : Rank[c] = Rank[d] => c = d
    /\ Steady \subseteq Client
    /\ FaultSets \subseteq SUBSET FaultKind
    /\ None \notin Client \cup Backend \cup Socket \cup Request

VARIABLES
    faults,         \* what may go wrong in this behaviour
    \* GenerationQueue.
    forever,        \* _forever_mode_clients
    reserved,       \* _work_reservations, oldest first
    pendingOf,      \* _pending_work_requests, by backend
    pendingBy,      \* _pending_work_requests_per_client
    keyed,          \* backends that have a list in _pending_work_requests
    lastServed,     \* _last_served_client
    finalizing,     \* _finalizing_per_client
    fill,           \* the _fill_available_slots call that holds the lock
    waiting,        \* calls of _fill_available_slots waiting for the lock
    lapsed,         \* requests older than PENDING_REQUEST_TTL
    \* Rows and the capacity table.
    job,            \* generation_jobs rows, by stage
    up,             \* backends the registry knows
    slots,          \* BackendState.current_jobs
    \* WebSocketManager.
    owner,          \* _generator_instance_websockets
    lastReg,        \* _generator_registrations
    sock,           \* the connections
    \* Pages.
    on,             \* backends the page runs forever mode on
    acked,          \* ... whose registration POST has been handled
    live,           \* the connection the page uses
    inbox,          \* workRequestQueue
    posts,          \* register and unregister POSTs under way, in order
    submits         \* submit POSTs under way

queueVars == <<forever, reserved, pendingOf, pendingBy, keyed, lastServed, lapsed>>
jobVars == <<job, up, slots, finalizing>>
socketVars == <<owner, lastReg, sock>>
pageVars == <<on, acked, live, inbox, posts, submits>>
vars == <<queueVars, fill, waiting, jobVars, socketVars, pageVars>>

Stage == {"free", "claimed", "queued", "running", "tail", "closing"}
NoRow == [stage |-> "free", client |-> None, backend |-> None]
Row == {NoRow} \cup [stage : Stage \ {"free"}, client : Client, backend : Backend]

NoFill == [pc |-> "idle", backend |-> None, clients |-> {}, room |-> 0, active |-> <<>>,
           page |-> None]

NoSocket == [state |-> "free", client |-> None, greeted |-> FALSE,
             outbox |-> {}, inflight |-> None, wire |-> {}]

\* The lists hold a request for each reservation, and nothing else types it.
TypeOK ==
    /\ faults \in FaultSets
    /\ forever \in [Backend -> SUBSET Client]
    /\ reserved \in Seq(Request) /\ IsInjective(reserved)
    /\ pendingOf \in [Backend -> SUBSET Request]
    /\ pendingBy \in [Client -> SUBSET Request]
    /\ keyed \subseteq Backend
    /\ lastServed \in [Backend -> Client \cup {None}]
    /\ finalizing \in [Client -> 0..Cardinality(Job)]
    /\ fill.pc \in {"idle", "capacity", "queue", "pending", "clients", "tails", "send"}
    /\ waiting \in [Backend -> 0..MaxWaiting]
    /\ lapsed \subseteq Request
    /\ job \in [Job -> Row]
    /\ up \subseteq Backend
    /\ slots \in [Backend -> SUBSET Job]
    /\ owner \in [Client -> Socket \cup {None}]
    /\ lastReg \in [Client -> Socket \cup {None}]
    /\ \A s \in Socket :
          /\ sock[s].state \in {"free", "open", "cleanup", "stop", "release"}
          /\ sock[s].outbox \cup sock[s].wire \subseteq Request
          /\ sock[s].inflight \in Request \cup {None}
    /\ on \in [Client -> SUBSET Backend]
    /\ acked \in [Client -> SUBSET Backend]
    /\ live \in [Client -> Socket \cup {None}]
    /\ inbox \in [Client -> SUBSET Request]
    /\ posts \in [Client -> Seq({"register", "unregister"} \X Backend)]
    /\ submits \subseteq Request

Init ==
    /\ faults \in FaultSets
    /\ forever = [b \in Backend |-> {}]
    /\ reserved = <<>>
    /\ pendingOf = [b \in Backend |-> {}]
    /\ pendingBy = [c \in Client |-> {}]
    /\ keyed = {}
    /\ lastServed = [b \in Backend |-> None]
    /\ finalizing = [c \in Client |-> 0]
    /\ fill = NoFill
    /\ waiting = [b \in Backend |-> 0]
    /\ lapsed = {}
    /\ job = [j \in Job |-> NoRow]
    /\ up = Backend
    /\ slots = [b \in Backend |-> {}]
    /\ owner = [c \in Client |-> None]
    /\ lastReg = [c \in Client |-> None]
    /\ sock = [s \in Socket |-> NoSocket]
    /\ on = [c \in Client |-> {}]
    /\ acked = [c \in Client |-> {}]
    /\ live = [c \in Client |-> None]
    /\ inbox = [c \in Client |-> {}]
    /\ posts = [c \in Client |-> <<>>]
    /\ submits = {}

-----------------------------------------------------------------------------
(* Helpers of the queue.                                                   *)

Reservations == ToSet(reserved)
Lesser(m, n) == IF m < n THEN m ELSE n

\* The elements of s that are not in gone, in their order.
Without(s, gone) ==
    LET kept == {i \in DOMAIN s : s[i] \notin gone}
        Nth(n) == CHOOSE i \in kept : Cardinality({k \in kept : k <= i}) = n
    IN  [n \in 1..Cardinality(kept) |-> s[Nth(n)]]

\* Ask for a dispatch on each backend of B: a call, or a scheduled task.
Refill(B) ==
    waiting' = [b \in Backend |->
                  IF b \in B THEN Lesser(waiting[b] + 1, MaxWaiting) ELSE waiting[b]]

\* Variant with a fault: the client's list keeps its entries.
ReleaseBackendOnly(gone) ==
    /\ reserved' = Without(reserved, gone)
    /\ pendingOf' = [b \in Backend |-> pendingOf[b] \ gone]
    /\ UNCHANGED pendingBy

\* Drop reservations and exactly the pending entries they created.
Release(gone) ==
    /\ reserved' = Without(reserved, gone)
    /\ pendingOf' = [b \in Backend |-> pendingOf[b] \ gone]
    /\ pendingBy' = [c \in Client |-> pendingBy[c] \ gone]

\* The reservations a prune removes.
Expired == Reservations \cap lapsed

OwnedOn(b) == {r \in Reservations : BackendOf(r) = b}
OwnedBy(c, B) == {r \in Reservations : ClientOf(r) = c /\ BackendOf(r) \in B}

\* Variant with a fault: the backend's oldest, whoever owns it.
OldestOnBackend(c, b) ==
    LET all == {i \in DOMAIN reserved : reserved[i] \in OwnedOn(b)}
    IN  {reserved[i] : i \in {k \in all : \A l \in all : k <= l}}

\* The client's oldest reservation on b, if any: what a decline that names no
\* reservation releases.
OldestOwned(c, b) ==
    LET mine == {i \in DOMAIN reserved : reserved[i] \in OwnedBy(c, {b})}
    IN  {reserved[i] : i \in {k \in mine : \A l \in mine : k <= l}}

LockFree == fill.pc = "idle"

\* claim_work_reservation runs under the lock; it prunes first.
Claims(r) == r \in Reservations \ lapsed

-----------------------------------------------------------------------------
(* Dispatch: _fill_available_slots, one step per read it awaits.           *)

Rows(stages, C, b) ==
    {j \in Job : job[j].stage \in stages /\ job[j].client \in C /\ job[j].backend \in b}

\* Requests on their way to a page, or to be answered.  A request that is
\* neither travelling nor reserved is over: its id can stand for a new one.
Travelling ==
    submits
    \cup (UNION {inbox[c] : c \in Client})
    \cup (UNION {sock[s].outbox \cup sock[s].wire \cup {sock[s].inflight} : s \in Socket})

InUse == Reservations \cup Travelling

Spare(c, b) == {n \in 1..MaxRequests : <<c, b, n>> \notin InUse}

\* Bound: a dispatch starts when there are ids for all it may send.
Numberable(b) ==
    \A c \in forever[b] :
        Cardinality(Spare(c, b)) >= IF Limit[c] = 0 THEN MaxConcurrent[b]
                                    ELSE Lesser(Limit[c], MaxConcurrent[b])

FillBegin(b) ==
    /\ LockFree
    /\ waiting[b] > 0
    /\ Numberable(b)
    /\ waiting' = [waiting EXCEPT ![b] = @ - 1]
    /\ Release(Expired)
    /\ fill' = IF forever[b] = {} THEN NoFill
               ELSE [NoFill EXCEPT !.pc = "capacity", !.backend = b, !.clients = forever[b]]
    /\ UNCHANGED <<forever, keyed, lastServed, lapsed, jobVars, socketVars, pageVars>>

\* list_backends: the backend's concurrency and the jobs it holds.
FillCapacity ==
    /\ fill.pc = "capacity"
    /\ fill' = IF fill.backend \notin up THEN NoFill
               ELSE [fill EXCEPT !.pc = "queue",
                       !.room = MaxConcurrent[fill.backend] - Cardinality(slots[fill.backend])]
    /\ UNCHANGED <<queueVars, waiting, jobVars, socketVars, pageVars>>

\* The queued rows are read from the databases ...
FillQueue ==
    /\ fill.pc = "queue"
    /\ fill' = [fill EXCEPT !.pc = "pending",
                  !.room = @ - Cardinality(Rows({"queued"}, Client, {fill.backend}))]
    /\ UNCHANGED <<queueVars, waiting, jobVars, socketVars, pageVars>>

\* ... and then the requests that are pending.
FillPending ==
    /\ fill.pc = "pending"
    /\ LET room == fill.room - Cardinality(pendingOf[fill.backend])
       IN  fill' = IF room <= 0 THEN NoFill
                   ELSE [fill EXCEPT !.pc = "clients", !.room = room]
    /\ UNCHANGED <<queueVars, waiting, jobVars, socketVars, pageVars>>

\* _get_client_active_jobs: one client's active rows on any backend ...
ActiveRows(c) == Cardinality(Rows({"queued", "running", "tail"}, {c}, Backend))

FillRows(c) ==
    /\ fill.pc = "clients"
    /\ c \in fill.clients \ DOMAIN fill.active
    /\ LET read == DOMAIN fill.active \cup {c}
           rows == [d \in read |-> IF d = c THEN ActiveRows(c) ELSE fill.active[d]]
       IN  fill' = [fill EXCEPT !.pc = "tails", !.page = c, !.active = rows]
    /\ UNCHANGED <<queueVars, waiting, jobVars, socketVars, pageVars>>

\* ... less those only finalizing, a count read when the rows have been.
LessTails(c) ==
    LET n == fill.active[c] - finalizing[c] IN IF n < 0 THEN 0 ELSE n

FillClient(c) ==
    /\ fill.pc = "tails"
    /\ c = fill.page
    /\ fill' = [fill EXCEPT !.pc = IF DOMAIN fill.active = fill.clients THEN "send" ELSE "clients",
                            !.page = None, !.active[c] = LessTails(c)]
    /\ UNCHANGED <<queueVars, waiting, jobVars, socketVars, pageVars>>

\* Clients that may be asked, when those in sent have been asked already.
WithCapacity(sent) ==
    {c \in fill.clients :
        \/ Limit[c] = 0
        \/ fill.active[c] + Cardinality(pendingBy[c])
             + Cardinality({i \in DOMAIN sent : sent[i] = c}) < Limit[c]}

\* Variant with a fault: no memory of who was served.
FirstClient(last, C) == CHOOSE c \in C : \A d \in C : Rank[c] <= Rank[d]

\* Round robin in id order, from the client served last; from the first
\* client when that one is not in the list.
NextClient(last, C) ==
    LET First(D) == CHOOSE c \in D : \A d \in D : Rank[c] <= Rank[d]
        after == {c \in C : Rank[c] > Rank[last]}
    IN  IF last \in C /\ after # {} THEN First(after) ELSE First(C)

\* Whose turn it is after sent, and whether it can be asked: the loop ends when
\* nobody may be asked or the one whose turn it is has no connection.
TurnAfter(sent) ==
    NextClient(IF sent = <<>> THEN lastServed[fill.backend] ELSE Last(sent), WithCapacity(sent))
MayAsk(sent) == WithCapacity(sent) # {} /\ owner[TurnAfter(sent)] # None

\* The clients the sending loop asks; the loop awaits nothing.
AskedInTurn(sent) ==
    /\ \A i \in DOMAIN sent :
          LET before == SubSeq(sent, 1, i - 1)
          IN  MayAsk(before) /\ sent[i] = TurnAfter(before)
    /\ Len(sent) = fill.room \/ ~MayAsk(sent)

\* The requests of one call, with ids that are not in use.
FillSend ==
    /\ fill.pc = "send"
    /\ \E new \in SeqOf({r \in Request \ InUse : BackendOf(r) = fill.backend}, fill.room) :
          LET b == fill.backend
              sent == [i \in DOMAIN new |-> ClientOf(new[i])]
              To(s) == {r \in ToSet(new) : owner[ClientOf(r)] = s}
          IN  /\ IsInjective(new)
              /\ AskedInTurn(sent)
              /\ reserved' = reserved \o new
              /\ pendingOf' = [pendingOf EXCEPT ![b] = @ \cup ToSet(new)]
              /\ pendingBy' = [c \in Client |->
                                 pendingBy[c] \cup {r \in ToSet(new) : ClientOf(r) = c}]
              /\ keyed' = IF WithCapacity(<<>>) = {} THEN keyed ELSE keyed \cup {b}
              /\ lapsed' = lapsed \ ToSet(new)
              /\ lastServed' = IF sent = <<>> THEN lastServed
                               ELSE [lastServed EXCEPT ![b] = Last(sent)]
              /\ sock' = [s \in Socket |-> [sock[s] EXCEPT !.outbox = @ \cup To(s)]]
    /\ fill' = NoFill
    /\ UNCHANGED <<forever, waiting, jobVars, owner, lastReg, pageVars>>

-----------------------------------------------------------------------------
(* Jobs, as far as the dispatch sees them.                                 *)

SetRow(j, stage) == job' = [job EXCEPT ![j].stage = stage]
Drop(j) == job' = [job EXCEPT ![j] = NoRow]
FreeSlot(j) == slots' = [b \in Backend |-> slots[b] \ {j}]

\* A claimed reservation's row is committed.
Submitted(j) ==
    /\ job[j].stage = "claimed"
    /\ SetRow(j, "queued")
    /\ UNCHANGED <<queueVars, fill, waiting, up, slots, finalizing, socketVars, pageVars>>

\* The submission fails between the claim and the commit.  The reservation
\* has been handed to the queue, so it is not declined.
Rejected(j) ==
    /\ "reject" \in faults
    /\ job[j].stage = "claimed"
    /\ Drop(j)
    /\ UNCHANGED <<queueVars, fill, waiting, up, slots, finalizing, socketVars, pageVars>>

\* A page's own submission, outside forever mode.
SubmitsUnasked(j, c, b) ==
    /\ "plain" \in faults
    /\ live[c] # None
    /\ c \notin Steady
    /\ job[j] = NoRow
    /\ job' = [job EXCEPT ![j] = [stage |-> "queued", client |-> c, backend |-> b]]
    /\ UNCHANGED <<queueVars, fill, waiting, up, slots, finalizing, socketVars, pageVars>>

Assigned(j) ==
    /\ job[j].stage = "queued"
    /\ LET b == job[j].backend
       IN  /\ b \in up
           /\ Cardinality(slots[b]) < MaxConcurrent[b]
           /\ slots' = [slots EXCEPT ![b] = @ \cup {j}]
    /\ SetRow(j, "running")
    /\ UNCHANGED <<queueVars, fill, waiting, up, finalizing, socketVars, pageVars>>

\* Generation is done: the tail is counted, the slot freed, more work asked.
Generated(j) ==
    /\ job[j].stage = "running"
    /\ SetRow(j, "tail")
    /\ finalizing' = [finalizing EXCEPT ![job[j].client] = @ + 1]
    /\ FreeSlot(j)
    /\ Refill({job[j].backend})
    /\ UNCHANGED <<queueVars, fill, up, socketVars, pageVars>>

\* The tail commits the row as completed or failed, and then notifies ...
TailCommitted(j) ==
    /\ job[j].stage = "tail"
    /\ SetRow(j, "closing")
    /\ UNCHANGED <<queueVars, fill, waiting, up, slots, finalizing, socketVars, pageVars>>

\* ... and its done-callback forgets it, and asks for no dispatch: a dispatch that
\* has read the page's rows and not yet its tails counts the row as active.
TailDone(j) ==
    /\ job[j].stage = "closing"
    /\ "overtake" \in faults \/ job[j].client # fill.page
    /\ Drop(j)
    /\ finalizing' = [finalizing EXCEPT ![job[j].client] = @ - 1]
    /\ UNCHANGED <<queueVars, fill, waiting, up, slots, socketVars, pageVars>>

\* Generation fails, or the user cancels the job before it is generated.
Failed(j) ==
    /\ job[j].stage \in {"queued", "running"}
    /\ Drop(j)
    /\ FreeSlot(j)
    /\ Refill({job[j].backend})
    /\ UNCHANGED <<queueVars, fill, up, finalizing, socketVars, pageVars>>

\* A running job's provider is gone: the row is queued again, its slot freed.
Requeued(j) ==
    /\ "loss" \in faults
    /\ job[j].stage = "running"
    /\ job[j].backend \notin up \/ j \notin slots[job[j].backend]
    /\ SetRow(j, "queued")
    /\ FreeSlot(j)
    /\ UNCHANGED <<queueVars, fill, waiting, up, finalizing, socketVars, pageVars>>

\* handle_disconnect: the registry forgets the backend, then
\* cleanup_disconnected_backend drops its list of pending requests; comparing
\* that list with 0 raises, so the clients' lists survive unless there was no
\* list.  The reservations survive either way.
BackendLost(b) ==
    /\ "loss" \in faults
    /\ b \in up
    /\ up' = up \ {b}
    /\ slots' = [slots EXCEPT ![b] = {}]
    /\ pendingOf' = [pendingOf EXCEPT ![b] = {}]
    /\ keyed' = keyed \ {b}
    /\ pendingBy' = [c \in Client |->
                       IF b \notin keyed /\ c \in forever[b] THEN {} ELSE pendingBy[c]]
    /\ UNCHANGED <<forever, reserved, lastServed, lapsed, fill, waiting, job, finalizing,
                   socketVars, pageVars>>

BackendBack(b) ==
    /\ b \notin up
    /\ up' = up \cup {b}
    /\ UNCHANGED <<queueVars, fill, waiting, job, slots, finalizing, socketVars, pageVars>>

\* PENDING_REQUEST_TTL passes over the oldest request it has not passed yet.
Lapse ==
    /\ "lapse" \in faults
    /\ LET young == Without(reserved, lapsed)
       IN  /\ young # <<>>
           /\ "slow" \in faults \/ Head(young) \notin Travelling
           /\ lapsed' = lapsed \cup {Head(young)}
    /\ UNCHANGED <<forever, reserved, pendingOf, pendingBy, keyed, lastServed, fill, waiting,
                   jobVars, socketVars, pageVars>>

-----------------------------------------------------------------------------
(* Connections: WebSocketManager and ClientConnection.                     *)

\* The page opens a connection and posts its registrations again.
Connect(c, s) ==
    /\ live[c] = None
    /\ sock[s] = NoSocket
    /\ "return" \in faults \/ on[c] = {}
    /\ live' = [live EXCEPT ![c] = s]
    /\ sock' = [sock EXCEPT ![s] = [NoSocket EXCEPT !.state = "open", !.client = c]]
    /\ acked' = [acked EXCEPT ![c] = {}]
    /\ posts' = [posts EXCEPT ![c] = SetToSeq({<<"register", b>> : b \in on[c]})]
    /\ UNCHANGED <<queueVars, fill, waiting, jobVars, owner, lastReg, on, inbox, submits>>

\* register_generator_instance, then generator_instance_connected.
Greet(s) ==
    /\ sock[s].state = "open"
    /\ ~sock[s].greeted
    /\ LET c == sock[s].client
       IN  /\ owner' = [owner EXCEPT ![c] = s]
           /\ lastReg' = [lastReg EXCEPT ![c] = s]
           /\ Refill({b \in Backend : c \in forever[b]})
    /\ sock' = [sock EXCEPT ![s].greeted = TRUE]
    /\ UNCHANGED <<queueVars, fill, jobVars, pageVars>>

\* The sender takes a frame and writes it; the frame is in flight until the
\* write is confirmed.
Write(s, r) ==
    /\ sock[s].state = "open"
    /\ r \in sock[s].outbox
    /\ sock[s].inflight = None
    /\ sock' = [sock EXCEPT ![s].outbox = @ \ {r}, ![s].inflight = r,
                            ![s].wire = IF live[sock[s].client] = s THEN @ \cup {r} ELSE @]
    /\ UNCHANGED <<queueVars, fill, waiting, jobVars, owner, lastReg, pageVars>>

Written(s) ==
    /\ sock[s].state = "open"
    /\ sock[s].inflight # None
    /\ sock' = [sock EXCEPT ![s].inflight = None]
    /\ UNCHANGED <<queueVars, fill, waiting, jobVars, owner, lastReg, pageVars>>

\* The page notices that its connection is gone: a new session, an empty
\* work queue.
PageLosesSocket(c) ==
    /\ "depart" \in faults
    /\ c \notin Steady
    /\ live[c] # None
    /\ "return" \in faults \/ "plain" \in faults \/ on[c] # {}
    /\ sock' = [sock EXCEPT ![live[c]].wire = {}]
    /\ live' = [live EXCEPT ![c] = None]
    /\ inbox' = [inbox EXCEPT ![c] = {}]
    /\ acked' = [acked EXCEPT ![c] = {}]
    /\ UNCHANGED <<queueVars, fill, waiting, jobVars, owner, lastReg, on, posts, submits>>

\* disconnect: claims the connection and the instances it still owns.
Disconnect(s) ==
    /\ sock[s].state = "open"
    /\ LET c == sock[s].client
       IN  /\ live[c] # s
           /\ sock' = [sock EXCEPT ![s].state = IF owner[c] = s THEN "cleanup" ELSE "stop"]
           /\ owner' = [owner EXCEPT ![c] = IF @ = s THEN None ELSE @]
    /\ UNCHANGED <<queueVars, fill, waiting, jobVars, lastReg, pageVars>>

StillAbandoned(c, s) == owner[c] = None /\ lastReg[c] = s

\* Variants with a fault: nothing is offered, or nothing released.
CleanupUnoffered(s) ==
    /\ sock[s].state = "cleanup"
    /\ LET c == sock[s].client
           mine == OwnedBy(c, Backend)
       IN  IF StillAbandoned(c, s)
           THEN /\ reserved' = Without(reserved, mine)
                /\ pendingOf' = [b \in Backend |-> pendingOf[b] \ mine]
                /\ pendingBy' = [pendingBy EXCEPT ![c] = {}]
                /\ forever' = [b \in Backend |-> forever[b] \ {c}]
                /\ job' = [j \in Job |->
                             IF job[j].client = c /\ job[j].stage = "queued"
                             THEN NoRow ELSE job[j]]
                /\ UNCHANGED waiting
           ELSE UNCHANGED <<reserved, pendingOf, pendingBy, forever, job, waiting>>
    /\ sock' = [sock EXCEPT ![s].state = "stop"]
    /\ UNCHANGED <<keyed, lastServed, lapsed, fill, up, slots, finalizing, owner, lastReg,
                   pageVars>>

CleanupKeepsRequests(s) ==
    /\ sock[s].state = "cleanup"
    /\ LET c == sock[s].client
           left == {b \in Backend : c \in forever[b]}
       IN  IF StillAbandoned(c, s)
           THEN /\ forever' = [b \in Backend |-> forever[b] \ {c}]
                /\ job' = [j \in Job |->
                             IF job[j].client = c /\ job[j].stage = "queued"
                             THEN NoRow ELSE job[j]]
                /\ Refill(left)
           ELSE UNCHANGED <<forever, job, waiting>>
    /\ sock' = [sock EXCEPT ![s].state = "stop"]
    /\ UNCHANGED <<reserved, pendingOf, pendingBy, keyed, lastServed, lapsed, fill, up, slots,
                   finalizing, owner, lastReg, pageVars>>

\* cleanup_disconnected_client, the first half of the teardown.
Cleanup(s) ==
    /\ sock[s].state = "cleanup"
    /\ LET c == sock[s].client
           mine == OwnedBy(c, Backend)
           left == {b \in Backend : c \in forever[b]}
       IN  IF StillAbandoned(c, s)
           THEN /\ reserved' = Without(reserved, mine)
                /\ pendingOf' = [b \in Backend |-> pendingOf[b] \ mine]
                /\ pendingBy' = [pendingBy EXCEPT ![c] = {}]
                /\ forever' = [b \in Backend |-> forever[b] \ {c}]
                /\ job' = [j \in Job |->
                             IF job[j].client = c /\ job[j].stage = "queued"
                             THEN NoRow ELSE job[j]]
                /\ Refill(left \cup {BackendOf(r) : r \in mine})
           ELSE UNCHANGED <<reserved, pendingOf, pendingBy, forever, job, waiting>>
    /\ sock' = [sock EXCEPT ![s].state = "stop"]
    /\ UNCHANGED <<keyed, lastServed, lapsed, fill, up, slots, finalizing, owner, lastReg,
                   pageVars>>

\* Variant with a fault: a sender that was writing nothing reports a frame.
StopSenderBlind(s) ==
    /\ sock[s].state = "stop"
    /\ LET c == sock[s].client
       IN  lastReg' = [lastReg EXCEPT ![c] = IF StillAbandoned(c, s) THEN None ELSE @]
    /\ sock' = [sock EXCEPT ![s].state = "release", ![s].inflight = None,
                            ![s].outbox = @ \cup {sock[s].inflight}]
    /\ UNCHANGED <<queueVars, fill, waiting, jobVars, owner, pageVars>>

\* The rest of the teardown: forget the registration, stop the sender and
\* collect the frames never confirmed written.
StopSender(s) ==
    /\ sock[s].state = "stop"
    /\ LET c == sock[s].client
       IN  lastReg' = [lastReg EXCEPT ![c] = IF StillAbandoned(c, s) THEN None ELSE @]
    /\ sock' = [sock EXCEPT ![s].state = "release", ![s].inflight = None,
                            ![s].outbox = @ \cup ({sock[s].inflight} \ {None})]
    /\ UNCHANGED <<queueVars, fill, waiting, jobVars, owner, pageVars>>

\* release_undelivered_work_request for one of those frames.
ReleaseUndelivered(s, r) ==
    /\ sock[s].state = "release"
    /\ r \in sock[s].outbox
    /\ LockFree
    /\ Release(Expired \cup {r})
    /\ IF Claims(r) THEN Refill({BackendOf(r)}) ELSE UNCHANGED waiting
    /\ sock' = [sock EXCEPT ![s].outbox = @ \ {r}]
    /\ UNCHANGED <<forever, keyed, lastServed, lapsed, fill, jobVars, owner, lastReg, pageVars>>

CloseSocket(s) ==
    /\ sock[s].state = "release"
    /\ sock[s].outbox = {}
    /\ sock' = [sock EXCEPT ![s] = NoSocket]
    /\ UNCHANGED <<queueVars, fill, waiting, jobVars, owner, lastReg, pageVars>>

-----------------------------------------------------------------------------
(* Pages and their requests to the server.                                 *)

\* The user starts forever mode on a backend.
Start(c, b) ==
    /\ b \notin on[c]
    /\ live[c] # None
    /\ Len(posts[c]) < MaxPosts
    /\ on' = [on EXCEPT ![c] = @ \cup {b}]
    /\ posts' = [posts EXCEPT ![c] = Append(@, <<"register", b>>)]
    /\ UNCHANGED <<queueVars, fill, waiting, jobVars, socketVars, acked, live, inbox, submits>>

\* The user stops it: the page empties its work queue.
Stop(c, b) ==
    /\ "stop" \in faults
    /\ c \notin Steady
    /\ b \in on[c]
    /\ Len(posts[c]) < MaxPosts
    /\ on' = [on EXCEPT ![c] = @ \ {b}]
    /\ acked' = [acked EXCEPT ![c] = @ \ {b}]
    /\ inbox' = [inbox EXCEPT ![c] = {r \in @ : BackendOf(r) # b}]
    /\ posts' = [posts EXCEPT ![c] = Append(@, <<"unregister", b>>)]
    /\ UNCHANGED <<queueVars, fill, waiting, jobVars, socketVars, live, submits>>

\* The POST and the socket are independent connections.  Unless a run lets
\* them race, the POST is handled while its page's connection is registered.
InOrder(c) == "late" \in faults \/ (live[c] # None /\ owner[c] = live[c])

Register(c, b) ==
    /\ posts[c] # <<>> /\ Head(posts[c]) = <<"register", b>>
    /\ InOrder(c)
    /\ posts' = [posts EXCEPT ![c] = Tail(@)]
    /\ forever' = [forever EXCEPT ![b] = @ \cup {c}]
    /\ acked' = [acked EXCEPT ![c] = IF b \in on[c] THEN @ \cup {b} ELSE @]
    /\ Refill({b})
    /\ UNCHANGED <<reserved, pendingOf, pendingBy, keyed, lastServed, lapsed, fill, jobVars,
                   socketVars, on, live, inbox, submits>>

\* unregister_forever_mode releases the reservations and asks for no refill.
Unregister(c, b) ==
    /\ posts[c] # <<>> /\ Head(posts[c]) = <<"unregister", b>>
    /\ posts' = [posts EXCEPT ![c] = Tail(@)]
    /\ forever' = [forever EXCEPT ![b] = @ \ {c}]
    /\ Release(OwnedBy(c, {b}))
    /\ UNCHANGED <<keyed, lastServed, lapsed, fill, waiting, jobVars, socketVars, on, acked,
                   live, inbox, submits>>

\* A request reaches the page, which queues it when it runs forever mode.
Receive(c, r) ==
    /\ live[c] # None
    /\ r \in sock[live[c]].wire
    /\ sock' = [sock EXCEPT ![live[c]].wire = @ \ {r}]
    /\ inbox' = [inbox EXCEPT ![c] = @ \cup {r}]
    /\ UNCHANGED <<queueVars, fill, waiting, jobVars, owner, lastReg, on, acked, live, posts,
                   submits>>

\* The page drops a request and tells nobody.
Ignore(c, r) ==
    /\ "ignore" \in faults
    /\ c \notin Steady
    /\ r \in inbox[c]
    /\ inbox' = [inbox EXCEPT ![c] = @ \ {r}]
    /\ UNCHANGED <<queueVars, fill, waiting, jobVars, socketVars, on, acked, live, posts, submits>>

Post(c, r) ==
    /\ r \in inbox[c]
    /\ BackendOf(r) \in on[c]
    /\ inbox' = [inbox EXCEPT ![c] = @ \ {r}]
    /\ submits' = submits \cup {r}
    /\ UNCHANGED <<queueVars, fill, waiting, jobVars, socketVars, on, acked, live, posts>>

\* decline_work_reservation, from the page or from a submit route that
\* refuses the submission before it claims.
Decline(r) ==
    /\ LockFree
    /\ Release(Expired \cup {r})
    /\ IF Claims(r) THEN Refill({BackendOf(r)}) ELSE UNCHANGED waiting
    /\ UNCHANGED <<forever, keyed, lastServed, lapsed, fill, jobVars, socketVars, on, acked,
                   live, posts>>

PageDeclines(c, r) ==
    /\ r \in inbox[c]
    /\ inbox' = [inbox EXCEPT ![c] = @ \ {r}]
    /\ UNCHANGED submits
    /\ Decline(r)

RouteDeclines(r) ==
    /\ r \in submits
    /\ submits' = submits \ {r}
    /\ UNCHANGED inbox
    /\ Decline(r)

\* decline_work_request: an older page's decline names no reservation.
LegacyDecline(c, r) ==
    /\ c \notin Steady
    /\ r \in inbox[c]
    /\ Release(OldestOwned(c, BackendOf(r)))
    /\ Refill({BackendOf(r)})
    /\ inbox' = [inbox EXCEPT ![c] = @ \ {r}]
    /\ UNCHANGED <<forever, keyed, lastServed, lapsed, fill, jobVars, socketVars, on, acked,
                   live, posts, submits>>

\* claim_work_reservation in a submit route: a used or lapsed reservation is
\* refused, else it is handed to the queue.
Claim(r) ==
    /\ r \in submits
    /\ LockFree
    /\ Release(Expired \cup {r})
    /\ submits' = submits \ {r}
    /\ IF Claims(r)
       THEN \E j \in Job :
               /\ job[j] = NoRow
               /\ job' = [job EXCEPT ![j] = [stage |-> "claimed", client |-> ClientOf(r),
                                             backend |-> BackendOf(r)]]
       ELSE UNCHANGED job
    /\ UNCHANGED <<forever, keyed, lastServed, lapsed, fill, waiting, up, slots, finalizing,
                   socketVars, on, acked, live, inbox, posts>>

-----------------------------------------------------------------------------
FillStep ==
    \/ \E b \in Backend : FillBegin(b)
    \/ FillCapacity
    \/ FillQueue
    \/ FillPending
    \/ \E c \in Client : FillRows(c) \/ FillClient(c)
    \/ FillSend

JobStep(j) ==
    \/ Submitted(j)
    \/ \E c \in Client, b \in Backend : SubmitsUnasked(j, c, b)
    \/ Rejected(j)
    \/ Assigned(j)
    \/ Generated(j)
    \/ TailCommitted(j)
    \/ TailDone(j)
    \/ Failed(j)
    \/ Requeued(j)

SocketStep(s) ==
    \/ Greet(s)
    \/ \E r \in sock[s].outbox : Write(s, r) \/ ReleaseUndelivered(s, r)
    \/ Written(s)
    \/ Disconnect(s)
    \/ Cleanup(s)
    \/ StopSender(s)
    \/ CloseSocket(s)

PageStep(c) ==
    \/ \E s \in Socket : Connect(c, s)
    \/ PageLosesSocket(c)
    \/ \E b \in Backend : Start(c, b) \/ Stop(c, b) \/ Register(c, b) \/ Unregister(c, b)
    \/ \E r \in Request :
          Receive(c, r) \/ Ignore(c, r) \/ Post(c, r) \/ PageDeclines(c, r) \/ LegacyDecline(c, r)

Next ==
    /\ UNCHANGED faults
    /\ \/ FillStep
       \/ \E j \in Job : JobStep(j)
       \/ \E b \in Backend : BackendLost(b) \/ BackendBack(b)
       \/ Lapse
       \/ \E s \in Socket : SocketStep(s)
       \/ \E c \in Client : PageStep(c)
       \/ \E r \in Request : Claim(r) \/ RouteDeclines(r)

Spec == Init /\ [][Next]_<<faults, vars>>

\* Coroutines that can run do run; the lock serves its waiters in turn; a page
\* that is connected reads its socket and answers what it read; the server
\* notices a lost connection and tears it down; workers and tails finish.
\* Nothing makes a user start, stop or leave.
Fairness ==
    /\ \A b \in Backend : SF_vars(FillBegin(b))
    /\ WF_vars(FillCapacity \/ FillQueue \/ FillPending \/ FillSend
                  \/ (\E c \in Client : FillRows(c) \/ FillClient(c)))
    /\ \A j \in Job :
          /\ WF_vars(Submitted(j) \/ TailCommitted(j) \/ TailDone(j))
          /\ WF_vars(Generated(j) \/ Failed(j))
          /\ SF_vars(Assigned(j))
    /\ \A s \in Socket :
          /\ WF_vars(Greet(s) \/ Written(s))
          /\ WF_vars(\E r \in Request : Write(s, r))
          /\ WF_vars(Disconnect(s)) /\ WF_vars(Cleanup(s) \/ StopSender(s) \/ CloseSocket(s))
          /\ SF_vars(\E r \in Request : ReleaseUndelivered(s, r))
    /\ \A c \in Client :
          /\ WF_vars(\E b \in Backend : Register(c, b))
          /\ \A r \in Request : WF_vars(Receive(c, r)) /\ WF_vars(Post(c, r))
    /\ \A r \in Request : SF_vars(Claim(r))

FairSpec == Spec /\ Fairness

-----------------------------------------------------------------------------
(* Properties.                                                             *)

\* While backends stay connected, the two pending lists hold exactly the
\* reservations: a count that leaked would keep a slot idle for good, one that
\* was lost would ask for the slot twice.  A backend that disconnects clears
\* counts and never invents one: a pending entry always belongs to a
\* reservation that can still be claimed or will lapse.
PendingMatchesReservations ==
    /\ \A b \in Backend :
          /\ pendingOf[b] \subseteq Reservations
          /\ "loss" \notin faults => pendingOf[b] = {r \in Reservations : BackendOf(r) = b}
    /\ \A c \in Client :
          /\ pendingBy[c] \subseteq Reservations
          /\ "loss" \notin faults => pendingBy[c] = {r \in Reservations : ClientOf(r) = c}

\* A page that stays can use every request it was sent until the request
\* lapses, whatever other pages decline, drop or leave behind.
OfferStands ==
    \A c \in Steady :
        \A r \in inbox[c] \cup {q \in submits : ClientOf(q) = c} :
            r \in Reservations \cup lapsed

\* A page that is gone, its disconnect cleaned up, holds no reservation: the
\* slots it was asked to fill are offered to the others.
DepartedHoldsNothing ==
    \A c \in Client :
        (owner[c] = None /\ \A s \in Socket : sock[s].state = "cleanup" => sock[s].client # c)
            => OwnedBy(c, Backend) = {}

\* Requests, claimed or not, and jobs never exceed what the backend can run:
\* generation_queue.py:1000 takes the lock against "more work requests than
\* available slots".
NeverOverAsked ==
    \A b \in Backend :
        Cardinality(OwnedOn(b)) + Cardinality(Rows({"claimed", "queued", "running"}, Client, {b}))
            <= MaxConcurrent[b]

\* The dispatch "won't send work requests to clients that have reached their
\* configured limit" (generation_queue.py:995).
LimitRespected ==
    [][\A c \in Client :
          (Limit[c] > 0 /\ ~(pendingBy'[c] \subseteq pendingBy[c]))
              => Cardinality(pendingBy'[c]) + Cardinality(Rows({"queued", "running"}, {c}, Backend))
                     <= Limit[c]]_vars

\* The page's session that registered, and is connected, is registered at the
\* server until it stops, for the cleanup of an older connection "must not touch
\* the new session" (generation_queue.py:520): else the page shows forever mode
\* on for ever while nothing asks it for work.
OnMeansRegistered ==
    \A c \in Client : \A b \in acked[c] :
        (live[c] # None /\ owner[c] = live[c]) => c \in forever[b]

\* Nothing of a page's or the server's is under way.
Quiet(c) ==
    /\ LockFree
    /\ waiting = [b \in Backend |-> 0]
    /\ posts[c] = <<>>
    /\ submits = {}
    /\ \A d \in Client : inbox[d] = {}
    /\ \A s \in Socket :
          \/ sock[s].state = "free"
          \/ /\ sock[s].state = "open" /\ sock[s].greeted /\ live[sock[s].client] = s
             /\ sock[s].outbox = {} /\ sock[s].inflight = None /\ sock[s].wire = {}

\* A page's rows and its tails, read one after the other, give its active jobs:
\* no tail ends in between, or the page has no limit they count against.
CountedRight(c) == Limit[c] = 0 \/ "overtake" \notin faults

\* "The backend will request work from this client ... whenever it has
\* capacity" (routes/generation.py:3337): when everything is quiet, an idle
\* backend never leaves a connected, idle, registered page unasked, if its jobs
\* were counted right.
AskedWhenFree ==
    \A b \in up : \A c \in forever[b] :
        (CountedRight(c) /\ Quiet(c) /\ owner[c] # None /\ owner[c] = live[c])
            => \/ (OwnedBy(c, Backend) \cup OwnedOn(b)) \ lapsed # {}
               \/ Rows({"claimed", "queued", "running"}, {c}, Backend) # {}
               \/ Rows({"claimed", "queued", "running"}, Client, {b}) # {}

\* Every page that stays registered, its jobs counted right, is asked again and
\* again.
EveryPageAsked ==
    \A c \in Steady : \A b \in Backend :
        (CountedRight(c) /\ c \in forever[b]) ~> (OwnedBy(c, {b}) # {})
=============================================================================
