------------------------------ MODULE RslExchange ------------------------------
(***************************************************************************)
(* RSL_EXCH_STENCIL (exch_sten.c) on every processor at once, over the MPI *)
(* layer of rsl_mpi_compat.c and the buffers of buf_for_proc.c.            *)
(*                                                                         *)
(* Each processor runs the model code, which makes the same sequence of    *)
(* exchange calls everywhere.  In a call it posts a receive for every      *)
(* processor it gets cells from, packs and sends to every processor that   *)
(* gets cells of its own, then waits for and unpacks what it posted.  All  *)
(* exchanges of a sender use one message tag, so that only the order MPI   *)
(* keeps between two processors ties a message to the right call.          *)
(*                                                                         *)
(* The value of a cell is abstracted to its version, the number of the     *)
(* call before which its owner computed it.  The pack and unpack tables of *)
(* a compiled stencil are constants here; module RslStencil computes them. *)
(***************************************************************************)
EXTENDS Naturals, FiniteSets

CONSTANTS
  Proc,        \* the compute processors
  Cell,        \* the cells (of one field) that exchanges move
  Owner,       \* [Cell -> Proc], the decomposition
  Stencil,     \* the stencils described on the domain
  MaxCall,     \* bound: exchange calls each process makes
  Prog,        \* [1..MaxCall -> Stencil]: the stencil of each call
  Pack,        \* Pack[s][p][q]: cells p packs for q, the pack_table
  Unpack       \* Unpack[s][p][q]: cells p unpacks from q, the unpack_table

Table == [Stencil -> [Proc -> [Proc -> SUBSET Cell]]]

ASSUME ExchangeAssumption ==
  /\ MaxCall \in Nat
  /\ Owner \in [Cell -> Proc]
  /\ Prog \in [1..MaxCall -> Stencil]
  /\ Pack \in Table /\ Unpack \in Table

\* What rsl_compile_stencil establishes (theorem TablesAlwaysAgree of RslStencilProofs):
\* a processor packs its own cells, and packs for q what q unpacks from it.
ASSUME CompiledAssumption ==
  \A s \in Stencil, p, q \in Proc :
    /\ Pack[s][p][q] = Unpack[s][q][p]
    /\ \A c \in Pack[s][p][q] : Owner[c] = p
    /\ Pack[s][p][p] = {}

VARIABLES
  pc,          \* pc[p]: where p is in its call
  call,        \* call[p]: number of the exchange call p last entered
  mem,         \* mem[p][c]: version of cell c in p's memory, ghosts included
  toPost,      \* procrecs the posting loop has not visited
  toSend,      \* procrecs the sending loop has not visited
  Pque,        \* processors with a receive posted in this call, not unpacked
  peer,        \* peer[p]: whom a blocked p sends to or waits for
  lut,         \* rslMPIHandleLUT: saved handles, each under its tag
  handle,      \* waitHandle, the local of rslMPIWait
  posted,      \* MPI: incomplete receive requests of p
  done,        \* MPI: completed receive requests of p, not waited for yet
  rbuf,        \* rbuf[p][q]: contents of buffer_for_proc(q, RSL_RECVBUF)
  net          \* MPI: messages sent and not yet matched to a receive

local == <<call, mem, toPost, toSend, Pque>>
mpi   == <<lut, handle, posted, done, rbuf, net>>
vars  == <<pc, peer, local, mpi>>

Handle == [tag : Proc, call : 1..MaxCall]

\* A request is identified by its tag, which names the sender, and its call.
Request(p, q) == [tag |-> q, call |-> call[p]]

\* waitHandle when rslMPIFindWaitH finds no entry: an uninitialised local.
Garbage == [tag |-> "none", call |-> 0]

Msg(p, q, k, d) == [src |-> p, dst |-> q, call |-> k, data |-> d]

Inbound(p, q)  == Unpack[Prog[call[p]]][p][q]
Outbound(p, q) == Pack[Prog[call[p]]][p][q]

Init ==
  /\ pc = [p \in Proc |-> "compute"]
  /\ call = [p \in Proc |-> 0]
  /\ mem = [p \in Proc |-> [c \in Cell |-> 0]]
  /\ toPost = [p \in Proc |-> {}]
  /\ toSend = [p \in Proc |-> {}]
  /\ Pque = [p \in Proc |-> {}]
  /\ peer = [p \in Proc |-> p]
  /\ lut = [p \in Proc |-> {}]
  /\ handle = [p \in Proc |-> Garbage]
  /\ posted = [p \in Proc |-> {}]
  /\ done = [p \in Proc |-> {}]
  /\ rbuf = [p \in Proc |-> [q \in Proc |-> [c \in Cell |-> 0]]]
  /\ net = {}

-------------------------------------------------------------------------------
(* The call, one process *)

\* The model computes p's own cells and calls RSL_EXCH_STENCIL.  The list of
\* procrecs is walked twice, in an order abstracted to any; a processor with
\* empty tables is a procrec that both walks skip.
Enter(p) ==
  /\ pc[p] = "compute"
  /\ call[p] < MaxCall
  /\ pc' = [pc EXCEPT ![p] = "exch"]
  /\ call' = [call EXCEPT ![p] = @ + 1]
  /\ mem' = [mem EXCEPT ![p] =
               [c \in Cell |-> IF Owner[c] = p THEN call[p] + 1 ELSE @[c]]]
  /\ toPost' = [toPost EXCEPT ![p] = Proc \ {p}]
  /\ toSend' = [toSend EXCEPT ![p] = Proc \ {p}]
  /\ UNCHANGED <<Pque, peer, mpi>>

\* The posting loop: a receive for every procrec with something to unpack.
PostRecv(p, q) ==
  /\ pc[p] = "exch"
  /\ q \in toPost[p]
  /\ toPost' = [toPost EXCEPT ![p] = @ \ {q}]
  /\ IF Inbound(p, q) # {}
     THEN /\ Pque' = [Pque EXCEPT ![p] = @ \union {q}]
          /\ posted' = [posted EXCEPT ![p] = @ \union {Request(p, q)}]
          /\ lut' = [lut EXCEPT ![p] = @ \union {Request(p, q)}]
     ELSE UNCHANGED <<Pque, posted, lut>>
  /\ UNCHANGED <<pc, call, mem, toSend, peer, handle, done, rbuf, net>>

\* Mutant of Send: the sends are issued before the receives are posted.
SendBeforePosting(p, q) ==
  /\ pc[p] = "exch"
  /\ q \in toSend[p]
  /\ toSend' = [toSend EXCEPT ![p] = @ \ {q}]
  /\ IF Outbound(p, q) # {}
     THEN /\ net' = net \union
               {Msg(p, q, call[p], [c \in Outbound(p, q) |-> mem[p][c]])}
          /\ peer' = [peer EXCEPT ![p] = q]
          /\ pc' \in {pc, [pc EXCEPT ![p] = "blocked"]}
     ELSE UNCHANGED <<net, peer, pc>>
  /\ UNCHANGED <<call, mem, toPost, Pque, lut, handle, posted, done, rbuf>>

\* Mutant of Send: the tables of the first stencil compiled serve them all.
SendStaleTable(p, q) ==
  /\ pc[p] = "exch"
  /\ toPost[p] = {}
  /\ q \in toSend[p]
  /\ toSend' = [toSend EXCEPT ![p] = @ \ {q}]
  /\ LET pack == Pack[Prog[1]][p][q]
     IN IF pack # {}
        THEN /\ net' = net \union
                  {Msg(p, q, call[p], [c \in pack |-> mem[p][c]])}
             /\ peer' = [peer EXCEPT ![p] = q]
             /\ pc' \in {pc, [pc EXCEPT ![p] = "blocked"]}
        ELSE UNCHANGED <<net, peer, pc>>
  /\ UNCHANGED <<call, mem, toPost, Pque, lut, handle, posted, done, rbuf>>

\* The sending loop: pack the cells and MPI_Send them, which returns at once
\* when MPI buffers the message and otherwise blocks until it is matched.
Send(p, q) ==
  /\ pc[p] = "exch"
  /\ toPost[p] = {}
  /\ q \in toSend[p]
  /\ toSend' = [toSend EXCEPT ![p] = @ \ {q}]
  /\ IF Outbound(p, q) # {}
     THEN /\ net' = net \union
               {Msg(p, q, call[p], [c \in Outbound(p, q) |-> mem[p][c]])}
          /\ peer' = [peer EXCEPT ![p] = q]
          /\ pc' \in {pc, [pc EXCEPT ![p] = "blocked"]}
     ELSE UNCHANGED <<net, peer, pc>>
  /\ UNCHANGED <<call, mem, toPost, Pque, lut, handle, posted, done, rbuf>>

\* A blocking MPI_Send returns once its message has been matched.
SendReturns(p) ==
  /\ pc[p] = "blocked"
  /\ ~ \E m \in net : m.src = p /\ m.dst = peer[p] /\ m.call = call[p]
  /\ pc' = [pc EXCEPT ![p] = "exch"]
  /\ UNCHANGED <<peer, local, mpi>>

\* Mutant of FindWaitH: the entry found stays in the LUT (nUsed-- forgotten).
FindWaitHKeepsEntry(p, q) ==
  /\ pc[p] = "exch"
  /\ toPost[p] = {} /\ toSend[p] = {}
  /\ q \in Pque[p]
  /\ \E h \in lut[p] : h.tag = q /\ handle' = [handle EXCEPT ![p] = h]
  /\ peer' = [peer EXCEPT ![p] = q]
  /\ pc' = [pc EXCEPT ![p] = "waiting"]
  /\ UNCHANGED <<local, lut, posted, done, rbuf, net>>

\* RSL_RECVEND of a posted tag: look the handle up and drop it from the LUT.
FindWaitH(p, q) ==
  /\ pc[p] = "exch"
  /\ toPost[p] = {} /\ toSend[p] = {}
  /\ q \in Pque[p]
  /\ \/ \E h \in lut[p] :
          /\ h.tag = q
          /\ handle' = [handle EXCEPT ![p] = h]
          /\ lut' = [lut EXCEPT ![p] = @ \ {h}]
     \/ /\ \A h \in lut[p] : h.tag # q
        /\ handle' = [handle EXCEPT ![p] = Garbage]
        /\ UNCHANGED lut
  /\ peer' = [peer EXCEPT ![p] = q]
  /\ pc' = [pc EXCEPT ![p] = "waiting"]
  /\ UNCHANGED <<local, posted, done, rbuf, net>>

\* Mutant of WaitUnpack: the buffer is unpacked without waiting for it.
UnpackWithoutWait(p) ==
  /\ pc[p] = "waiting"
  /\ done' = [done EXCEPT ![p] = @ \ {handle[p]}]
  /\ mem' = [mem EXCEPT ![p] =
               [c \in Cell |-> IF c \in Inbound(p, peer[p])
                               THEN rbuf[p][peer[p]][c] ELSE @[c]]]
  /\ Pque' = [Pque EXCEPT ![p] = @ \ {peer[p]}]
  /\ pc' = [pc EXCEPT ![p] = "exch"]
  /\ UNCHANGED <<call, toPost, toSend, peer, lut, handle, posted, rbuf, net>>

\* MPI_Wait returns; unpack the buffer and invalidate the entry of typeque.
WaitUnpack(p) ==
  /\ pc[p] = "waiting"
  /\ handle[p] \in done[p]
  /\ done' = [done EXCEPT ![p] = @ \ {handle[p]}]
  /\ mem' = [mem EXCEPT ![p] =
               [c \in Cell |-> IF c \in Inbound(p, peer[p])
                               THEN rbuf[p][peer[p]][c] ELSE @[c]]]
  /\ Pque' = [Pque EXCEPT ![p] = @ \ {peer[p]}]
  /\ pc' = [pc EXCEPT ![p] = "exch"]
  /\ UNCHANGED <<call, toPost, toSend, peer, lut, handle, posted, rbuf, net>>

\* Mutant of Return: the waiting loop stops one receive too early.
ReturnOneEarly(p) ==
  /\ pc[p] = "exch"
  /\ toPost[p] = {} /\ toSend[p] = {} /\ Cardinality(Pque[p]) <= 1
  /\ pc' = [pc EXCEPT ![p] = "compute"]
  /\ UNCHANGED <<peer, local, mpi>>

\* ndone = nprocs: the call returns to the model.
Return(p) ==
  /\ pc[p] = "exch"
  /\ toPost[p] = {} /\ toSend[p] = {} /\ Pque[p] = {}
  /\ pc' = [pc EXCEPT ![p] = "compute"]
  /\ UNCHANGED <<peer, local, mpi>>

-------------------------------------------------------------------------------
(* MPI *)

\* Messages of one sender with one tag match in the order they were sent.
Matches(m, p, h) ==
  /\ m.dst = p /\ m.src = h.tag
  /\ \A m2 \in net : m2.dst = p /\ m2.src = m.src => m.call <= m2.call
  /\ \A h2 \in posted[p] : h2.tag = h.tag => h.call <= h2.call

\* MPI matches a message to a posted request and fills the request's buffer,
\* which beyond the message keeps what it held.
Deliver(p) ==
  \E m \in net, h \in posted[p] :
    /\ Matches(m, p, h)
    /\ net' = net \ {m}
    /\ posted' = [posted EXCEPT ![p] = @ \ {h}]
    /\ done' = [done EXCEPT ![p] = @ \union {h}]
    /\ rbuf' = [rbuf EXCEPT ![p][h.tag] =
                  [c \in Cell |-> IF c \in DOMAIN m.data THEN m.data[c] ELSE @[c]]]
    /\ UNCHANGED <<pc, peer, local, lut, handle>>

-------------------------------------------------------------------------------

Step(p) == \/ Enter(p)
           \/ \E q \in Proc : PostRecv(p, q) \/ Send(p, q) \/ FindWaitH(p, q)
           \/ SendReturns(p)
           \/ WaitUnpack(p)
           \/ Return(p)

\* The model has made its last call everywhere.
Finished == /\ \A p \in Proc : pc[p] = "compute" /\ call[p] = MaxCall
            /\ UNCHANGED vars

Next == Finished \/ \E p \in Proc : Step(p) \/ Deliver(p)

Spec == Init /\ [][Next]_vars

\* Every processor keeps running its program, and MPI makes progress.
FairSpec == /\ Spec
            /\ \A p \in Proc : WF_vars(Step(p)) /\ WF_vars(Deliver(p))

-------------------------------------------------------------------------------
(* Correctness *)

TypeOK ==
  /\ pc \in [Proc -> {"compute", "exch", "blocked", "waiting"}]
  /\ call \in [Proc -> 0..MaxCall]
  /\ mem \in [Proc -> [Cell -> 0..MaxCall]]
  /\ toPost \in [Proc -> SUBSET Proc]
  /\ toSend \in [Proc -> SUBSET Proc]
  /\ Pque \in [Proc -> SUBSET Proc]
  /\ peer \in [Proc -> Proc]
  /\ lut \in [Proc -> SUBSET Handle]
  /\ handle \in [Proc -> Handle \union {Garbage}]
  /\ posted \in [Proc -> SUBSET Handle]
  /\ done \in [Proc -> SUBSET Handle]
  /\ rbuf \in [Proc -> [Proc -> [Cell -> 0..MaxCall]]]
  /\ \A m \in net :
       /\ m.src \in Proc /\ m.dst \in Proc /\ m.call \in 1..MaxCall
       /\ m.data \in [Pack[Prog[m.call]][m.src][m.dst] -> 0..MaxCall]
       /\ m = Msg(m.src, m.dst, m.call, m.data)

\* When a call has returned, every ghost cell its stencil names holds the
\* value its owner computed for that very call: neither the one before it,
\* nor, from a neighbour that has run ahead, the one after it
\* (exch_sten.c:66-69).
GhostsCurrent ==
  \A p \in Proc : pc[p] = "compute" /\ call[p] > 0 =>
    \A q \in Proc : \A c \in Inbound(p, q) : mem[p][c] = call[p]

\* The tag alone selects the handle of a wait (rslMPIFindWaitH takes the first
\* entry with the tag), so no two live handles of a process may share one, and
\* the wait for a posted receive must find its own.
WaitFindsItsReceive ==
  \A p \in Proc :
    /\ \A h1, h2 \in lut[p] : h1.tag = h2.tag => h1 = h2
    /\ pc[p] = "waiting" => handle[p] = Request(p, peer[p])

\* A message that can be matched to a request has exactly the cells the
\* request has room for: MPI would truncate a longer one, and the unpacking
\* loop would read beyond a shorter one (exch_sten.c:129, 200, 241-245).
MessageFitsReceive ==
  \A p \in Proc : \A m \in net, h \in posted[p] :
    Matches(m, p, h) => DOMAIN m.data = Unpack[Prog[h.call]][p][h.tag]

\* Every call returns on every processor, whether or not MPI buffers what the
\* blocking sends hand it: receives are posted before anything is sent.
EveryCallReturns ==
  <>(\A p \in Proc : pc[p] = "compute" /\ call[p] = MaxCall)

\* The neighbours p still has to take cells from in its current call.
Missing(p) ==
  IF pc[p] = "compute" THEN {}
  ELSE Pque[p] \union {q \in toPost[p] : Inbound(p, q) # {}}

missingBar == [p \in Proc |-> Missing(p)]

\* The exchange implements the direct one of HaloExchange.
Halo == INSTANCE HaloExchange WITH
          Need <- [k \in 1..MaxCall |-> Unpack[Prog[k]]],
          missing <- missingBar

HaloSpec == Halo!Spec

-------------------------------------------------------------------------------
(* The inductive invariant *)

\* The message q sends p in call k, when its stencil has cells of q for p.
Transfer(q, p, k) == k \in 1..MaxCall /\ Pack[Prog[k]][q][p] # {}
Fresh(q, p, k) == Msg(q, p, k, [c \in Pack[Prog[k]][q][p] |-> k])

\* q has come past the point of its call k where it sends to p.
Sent(q, p, k) == k <= call[q] /\ (k = call[q] => p \notin toSend[q])

\* p has come past the point where the message of call k reaches its buffer.
Taken(p, q, k) ==
  /\ k <= call[p]
  /\ k = call[p] => q \notin toPost[p] /\ Request(p, q) \notin posted[p]

\* In flight is exactly what is sent and not taken, with the values of its call.
NetSound ==
  \A m \in net : /\ Transfer(m.src, m.dst, m.call)
                 /\ Sent(m.src, m.dst, m.call)
                 /\ ~ Taken(m.dst, m.src, m.call)
                 /\ m = Fresh(m.src, m.dst, m.call)

NetComplete ==
  \A p, q \in Proc, k \in 1..MaxCall :
    Transfer(q, p, k) /\ Sent(q, p, k) /\ ~ Taken(p, q, k) => Fresh(q, p, k) \in net

\* Nothing is taken before it is sent, not even a whole call later.
NetCausal ==
  \A p, q \in Proc, k \in 1..MaxCall :
    Transfer(q, p, k) /\ Taken(p, q, k) => Sent(q, p, k)

NetInv == NetSound /\ NetComplete /\ NetCausal

\* The loops of p's call.
Loops(p) ==
  /\ pc[p] = "compute" => toPost[p] = {} /\ toSend[p] = {} /\ Pque[p] = {}
  /\ pc[p] # "compute" => call[p] > 0
  /\ pc[p] = "waiting" => /\ toPost[p] = {} /\ toSend[p] = {}
                          /\ peer[p] \in Pque[p]
                          /\ handle[p] = Request(p, peer[p])
  /\ \A q \in Pque[p] : Inbound(p, q) # {} /\ q \notin toPost[p]

\* p's live requests and its LUT entries are those of this call's queue.
Requests(p) ==
  /\ \A h \in posted[p] : h.tag \in Pque[p] /\ h.call = call[p]
  /\ \A h \in done[p] : h.tag \in Pque[p] /\ h.call = call[p]
  /\ \A q \in Pque[p] : Request(p, q) \in posted[p] <=> Request(p, q) \notin done[p]
  /\ \A h \in lut[p] : /\ h.tag \in Pque[p] /\ h.call = call[p]
                       /\ pc[p] = "waiting" => h.tag # peer[p]
  /\ \A q \in Pque[p] : Request(p, q) \in lut[p] \/ (pc[p] = "waiting" /\ q = peer[p])

\* p's own cells are of this call, and so are its ghost cells once unpacked
\* and its buffers once filled.
Values(p) ==
  /\ \A c \in Cell : Owner[c] = p => mem[p][c] = call[p]
  /\ call[p] > 0 => \A q \in Proc : q \notin toPost[p] /\ q \notin Pque[p] =>
                      \A c \in Inbound(p, q) : mem[p][c] = call[p]
  /\ \A h \in done[p] : \A c \in Inbound(p, h.tag) : rbuf[p][h.tag][c] = call[p]

LocalInv == \A p \in Proc : Loops(p) /\ Requests(p) /\ Values(p)

IInv == TypeOK /\ NetInv /\ LocalInv
===============================================================================
