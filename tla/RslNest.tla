-------------------------------- MODULE RslNest --------------------------------
(***************************************************************************)
(* Forcing a nest from its parent domain (rsl_bcast.c) and feeding the     *)
(* nest back (rsl_merge.c), on every processor at once, between            *)
(* redecompositions of either domain (RSL_FDECOMPOSE, decomp.c).           *)
(*                                                                         *)
(* A transfer has five phases on each processor.  The first call of        *)
(* RSL_TO_CHILD_INFO compiles the lists of senders and receivers if a flag *)
(* says that they are not current, and posts the receives; the rest of the *)
(* packing loop stages the points the model wants under the processors     *)
(* they go to; RSL_BCAST_MSGS sends; the unpacking loop takes the messages *)
(* in the order of the receive list; the last RSL_FROM_PARENT_INFO cleans  *)
(* up.  Feedback is its mirror image, from a nest point to its mother.     *)
(*                                                                         *)
(* Which points a message has is not in its header: both ends count them   *)
(* from their own copy of the decomposition, and the counts are kept until *)
(* a flag is cleared.  The data of a point is abstracted to the number of  *)
(* the call that packed it.  The tag table of the MPI layer is that of     *)
(* RslExchange and is left out.                                            *)
(***************************************************************************)
EXTENDS Integers, FiniteSets, Sequences

CONSTANTS
  Proc,        \* the compute processors, numbered from 0
  Dom,         \* domains: the coarsest and nests, nests of nests too
  Nest,        \* those that have a parent
  Parent,      \* [Nest -> Dom]
  Point,       \* the valid points of all domains
  Domain,      \* [Point -> Dom]
  Mother,      \* mother_id: [points of nests -> Point]
  DefaultCut,  \* [Point -> Proc]: the decompositions the nests are spawned with
  Operation,   \* what the model may do next: transfers and redecompositions
  MaxCall      \* bound: operations of a run

Points(d)  == {x \in Point : Domain[x] = d}
NestPoint  == {x \in Point : Domain[x] \in Nest}

\* A transfer moves the points the model packs for; a cut maps a domain anew.
Transfer == [kind : {"force", "feed"}, nest : Nest, packs : SUBSET NestPoint]
Cut      == UNION {[kind : {"cut"}, dom : {d}, P : [Points(d) -> Proc]] : d \in Dom}

\* Every point of a nest has one mother, in the nest's parent.  Nests are taken
\* not to overlap: a point of the parent keeps one child record, and neither
\* RSL nor MM5 (whose OVLCHK only works out the overlap) refuses such nests.
ASSUME NestAssumption ==
  /\ Proc \subseteq Nat /\ MaxCall \in Nat /\ IsFiniteSet(Point)
  /\ Nest \subseteq Dom
  /\ Parent \in [Nest -> Dom]
  /\ Domain \in [Point -> Dom]
  /\ Mother \in [NestPoint -> Point]
  /\ \A x \in NestPoint : Domain[Mother[x]] = Parent[Domain[x]] /\ Mother[x] # x
  /\ DefaultCut \in [Point -> Proc]
  /\ Operation \subseteq Transfer \union Cut
  /\ \A o \in Operation : o.kind # "cut" => o.packs \subseteq Points(o.nest)

VARIABLES
  plan,        \* the operations so far, the same on every processor
  pc,          \* pc[p]: where p is in its operation
  call,        \* call[p]: number of the operation p last entered
  info,        \* info[p]: p's copy of domain_info
  Plist,       \* Plist[p][q]: points p has staged for q
  toSend,      \* toSend[p]: entries of the send list still to be sent
  Ptags,       \* Ptags[p]: entries of the receive list not taken yet
  peer,        \* peer[p]: whom a blocked p sends to or waits for
  taken,       \* taken[p]: what the unpacking loop returned in this transfer
  sbuf,        \* sbuf[p]: message to itself left in buffer_for_proc(p, RSL_SENDBUF)
  rbuf,        \* rbuf[p][q]: message in buffer_for_proc(q, RSL_RECVBUF)
  posted,      \* MPI: incomplete receive requests of p
  done,        \* MPI: completed receive requests of p, not waited for yet
  net          \* MPI: messages sent and not yet matched to a receive

mpi   == <<rbuf, posted, done, net>>
vars  == <<plan, pc, call, info, Plist, toSend, Ptags, peer, taken, sbuf, mpi>>

INVALID == -1
Kind    == {"force", "feed"}
Lists   == Kind \X Nest
First(S) == {q \in S : \A r \in S : q <= r}   \* the least one, if any

Op(p)   == plan[call[p]]
List(p) == <<Op(p).kind, Op(p).nest>>

\* A message: the points packed for one processor, up to the end marker, with
\* the data of the sender's call.
NoMsg == [pts |-> {}, call |-> 0]

-------------------------------------------------------------------------------
(* domain_info, one process's copy g *)

Spawned ==
  [P        |-> DefaultCut,
   mother_P |-> [x \in NestPoint |-> DefaultCut[Mother[x]]],
   child_compiled  |-> {},   \* of the parent: child_bcast_compiled, child_merge_compiled
   parent_compiled |-> {},   \* of the nest: parent_bcast_compiled, parent_merge_compiled
   send     |-> [l \in Lists |-> [q \in Proc |-> 0]],
   recv     |-> [l \in Lists |-> [q \in Proc |-> 0]],
   Xlist    |-> [l \in Lists |-> {}]]

\* Mutant of Decompose: the children whose mother moved keep the INVALID that
\* destroy_decomposition gave them.
DecomposeTellsNoChild(g, d, cut) ==
  [g EXCEPT
     !.P = [x \in Point |-> IF Domain[x] = d THEN cut[x] ELSE @[x]],
     !.mother_P = [x \in NestPoint |->
        IF Domain[Mother[x]] = d THEN INVALID
        ELSE IF Domain[x] = d THEN g.P[Mother[x]] ELSE @[x]],
     !.child_compiled  = {l \in @ : Parent[l[2]] # d},
     !.parent_compiled = {l \in @ : l[2] # d}]

\* RSL_FDECOMPOSE: destroy_decomposition clears the flags of the domain, those
\* of its nests' transfers and those of its own; then every point gets its
\* processor, asks its mother for hers, and tells its children.
Decompose(g, d, cut) ==
  [g EXCEPT
     !.P = [x \in Point |-> IF Domain[x] = d THEN cut[x] ELSE @[x]],
     !.mother_P = [x \in NestPoint |->
        IF Domain[Mother[x]] = d THEN cut[Mother[x]]
        ELSE IF Domain[x] = d THEN g.P[Mother[x]] ELSE @[x]],
     !.child_compiled  = {l \in @ : Parent[l[2]] # d},
     !.parent_compiled = {l \in @ : l[2] # d}]

\* Where the data of point x comes from and where it goes to, by g.
Source(g, k, x) == IF k = "force" THEN g.mother_P[x] ELSE g.P[x]
Target(g, k, x) == IF k = "force" THEN g.P[x] ELSE g.mother_P[x]

\* How many points of nest l[2] p gets from q, and how many it sends to q.
RecvList(g, p, l) == [q \in Proc |->
  Cardinality({x \in Points(l[2]) : Target(g, l[1], x) = p /\ Source(g, l[1], x) = q})]
SendList(g, p, l) == [q \in Proc |->
  Cardinality({x \in Points(l[2]) : Source(g, l[1], x) = p /\ Target(g, l[1], x) = q})]

\* Mutant of Compile: the list of points to pack is kept from the last time.
CompileKeepsXlist(g, p, l) ==
  [g EXCEPT !.recv[l] = RecvList(g, p, l), !.send[l] = SendList(g, p, l),
            !.child_compiled  = @ \union {l},
            !.parent_compiled = @ \union {l}]

\* rsl_comp_bcast, rsl_comp_merge: p counts the points, and its ready routine
\* drops the old Xlist.
Compile(g, p, l) ==
  [g EXCEPT !.recv[l] = RecvList(g, p, l), !.send[l] = SendList(g, p, l),
            !.Xlist[l] = {},
            !.child_compiled  = @ \union {l},
            !.parent_compiled = @ \union {l}]

\* The points of the packing loop: forcing goes through the local parent points
\* and their children, feedback through the local points of the nest.
LocalPoints(g, p, l) ==
  {x \in Points(l[2]) : IF l[1] = "force" THEN g.P[Mother[x]] = p ELSE g.P[x] = p}

\* Mutant of Ready: only the nest's own flag is looked at.
ReadyAsksNestOnly(g, p, l) ==
  LET c == IF l \in g.parent_compiled THEN g ELSE Compile(g, p, l)
  IN IF c.Xlist[l] # {} THEN c ELSE [c EXCEPT !.Xlist[l] = LocalPoints(c, p, l)]

\* rsl_ready_bcast, rsl_ready_merge: lists are compiled again unless both the
\* parent's flag for the nest and the nest's own flag are set.
Ready(g, p, l) ==
  LET c == IF l \in g.child_compiled \intersect g.parent_compiled
           THEN g ELSE Compile(g, p, l)
  IN IF c.Xlist[l] # {} THEN c ELSE [c EXCEPT !.Xlist[l] = LocalPoints(c, p, l)]

Entries(list) == {q \in Proc : list[q] > 0}

-------------------------------------------------------------------------------
(* The operations, one process *)

Init ==
  /\ plan = << >>
  /\ pc = [p \in Proc |-> "idle"]
  /\ call = [p \in Proc |-> 0]
  /\ info = [p \in Proc |-> Spawned]
  /\ Plist = [p \in Proc |-> [q \in Proc |-> {}]]
  /\ toSend = [p \in Proc |-> {}]
  /\ Ptags = [p \in Proc |-> {}]
  /\ peer = [p \in Proc |-> p]
  /\ taken = [p \in Proc |-> {}]
  /\ sbuf = [p \in Proc |-> NoMsg]
  /\ rbuf = [p \in Proc |-> [q \in Proc |-> NoMsg]]
  /\ posted = [p \in Proc |-> {}]
  /\ done = [p \in Proc |-> {}]
  /\ net = {}

\* The model goes on to its next operation, the same on every processor: the
\* first one to get there determines it.
NextOp(p, o) ==
  /\ pc[p] = "idle"
  /\ call[p] < MaxCall
  /\ IF call[p] < Len(plan)
     THEN o = plan[call[p] + 1] /\ plan' = plan
     ELSE plan' = Append(plan, o)
  /\ call' = [call EXCEPT ![p] = @ + 1]

\* RSL_FDECOMPOSE, local to each processor.
Redecompose(p, o) ==
  /\ o.kind = "cut"
  /\ NextOp(p, o)
  /\ info' = [info EXCEPT ![p] = Decompose(@, o.dom, o.P)]
  /\ taken' = [taken EXCEPT ![p] = {}]
  /\ UNCHANGED <<pc, Plist, toSend, Ptags, peer, sbuf, mpi>>

Request(p, q, o, k, size) == [src |-> q, kind |-> o.kind, call |-> k, size |-> size]

\* The first RSL_TO_CHILD_INFO or RSL_TO_PARENT_INFO: make the lists ready and
\* post a receive for every entry of the receive list but the process itself.
Enter(p, o) ==
  /\ o.kind # "cut"
  /\ NextOp(p, o)
  /\ LET l    == <<o.kind, o.nest>>
         g    == Ready(info[p], p, l)
         from == Entries(g.recv[l])
     IN /\ info' = [info EXCEPT ![p] = g]
        /\ Ptags' = [Ptags EXCEPT ![p] = from]
        /\ posted' = [posted EXCEPT ![p] = @ \union
             {Request(p, q, o, call[p] + 1, g.recv[l][q]) : q \in from \ {p}}]
  /\ Plist' = [Plist EXCEPT ![p] = [q \in Proc |-> {}]]
  /\ taken' = [taken EXCEPT ![p] = {}]
  /\ pc' = [pc EXCEPT ![p] = "packing"]
  /\ UNCHANGED <<toSend, peer, sbuf, rbuf, done, net>>

\* The rest of the packing loop: RSL_TO_CHILD_MSG stages a point under the
\* processor it goes to, when the model packs anything for it.
Pack(p) ==
  /\ pc[p] = "packing"
  /\ LET want == info[p].Xlist[List(p)] \intersect Op(p).packs
     IN Plist' = [Plist EXCEPT ![p] = [q \in Proc |->
                    {x \in want : Target(info[p], Op(p).kind, x) = q}]]
  /\ toSend' = [toSend EXCEPT ![p] = Entries(info[p].send[List(p)])]
  /\ pc' = [pc EXCEPT ![p] = "sending"]
  /\ UNCHANGED <<plan, call, info, Ptags, peer, taken, sbuf, mpi>>

\* Mutant of Send: processors for which nothing is staged get no message.
SendSkipsEmpty(p) ==
  /\ pc[p] = "sending"
  /\ \E q \in First(toSend[p]) :
     LET m == [pts |-> Plist[p][q], call |-> call[p]]
     IN /\ toSend' = [toSend EXCEPT ![p] = @ \ {q}]
        /\ IF m.pts = {}
           THEN UNCHANGED <<pc, peer, sbuf, net>>
           ELSE IF q = p
           THEN sbuf' = [sbuf EXCEPT ![p] = m] /\ UNCHANGED <<pc, peer, net>>
           ELSE /\ net' = net \union
                     {[src |-> p, dst |-> q, kind |-> Op(p).kind, msg |-> m]}
                /\ peer' = [peer EXCEPT ![p] = q]
                /\ pc' \in {pc, [pc EXCEPT ![p] = "blocked"]}
                /\ UNCHANGED sbuf
  /\ UNCHANGED <<plan, call, info, Plist, Ptags, taken, rbuf, posted, done>>

\* RSL_BCAST_MSGS, RSL_MERGE_MSGS: to every processor of the send list a
\* message of the points staged for it, were it none.  More points than were
\* counted stop the program; the message to the process itself stays in the
\* send buffer.
Send(p) ==
  /\ pc[p] = "sending"
  /\ \E q \in First(toSend[p]) :
     LET m == [pts |-> Plist[p][q], call |-> call[p]]
     IN /\ toSend' = [toSend EXCEPT ![p] = @ \ {q}]
        /\ IF Cardinality(m.pts) > info[p].send[List(p)][q]
           THEN pc' = [pc EXCEPT ![p] = "aborted"] /\ UNCHANGED <<peer, sbuf, net>>
           ELSE IF q = p
           THEN sbuf' = [sbuf EXCEPT ![p] = m] /\ UNCHANGED <<pc, peer, net>>
           ELSE /\ net' = net \union
                     {[src |-> p, dst |-> q, kind |-> Op(p).kind, msg |-> m]}
                /\ peer' = [peer EXCEPT ![p] = q]
                /\ pc' \in {pc, [pc EXCEPT ![p] = "blocked"]}
                /\ UNCHANGED sbuf
  /\ UNCHANGED <<plan, call, info, Plist, Ptags, taken, rbuf, posted, done>>

\* A blocking MPI_Send returns once its message has been matched.
SendReturns(p) ==
  /\ pc[p] = "blocked"
  /\ ~ \E m \in net : m.src = p /\ m.dst = peer[p] /\ m.msg.call = call[p]
  /\ pc' = [pc EXCEPT ![p] = "sending"]
  /\ UNCHANGED <<plan, call, info, Plist, toSend, Ptags, peer, taken, sbuf, mpi>>

Unpacked(m) == {[point |-> x, call |-> m.call] : x \in m.pts}

\* RSL_FROM_PARENT_INFO, RSL_FROM_CHILD_INFO: the next message of the receive
\* list; one of the process itself is taken from its send buffer, up to the end
\* marker, and one of another processor is waited for.
NextMessage(p) ==
  /\ pc[p] = "sending" /\ toSend[p] = {}
  /\ \E q \in First(Ptags[p]) :
       /\ peer' = [peer EXCEPT ![p] = q]
       /\ IF q = p
          THEN /\ Ptags' = [Ptags EXCEPT ![p] = @ \ {p}]
               /\ taken' = [taken EXCEPT ![p] = @ \union Unpacked(sbuf[p])]
               /\ UNCHANGED pc
          ELSE /\ pc' = [pc EXCEPT ![p] = "waiting"]
               /\ UNCHANGED <<Ptags, taken>>
  /\ UNCHANGED <<plan, call, info, Plist, toSend, sbuf, mpi>>

\* RSL_RECVEND of its tag returns and its points are unpacked.
WaitUnpack(p) ==
  /\ pc[p] = "waiting"
  /\ \E h \in done[p] : /\ h.src = peer[p] /\ h.kind = Op(p).kind
                        /\ done' = [done EXCEPT ![p] = @ \ {h}]
  /\ Ptags' = [Ptags EXCEPT ![p] = @ \ {peer[p]}]
  /\ taken' = [taken EXCEPT ![p] = @ \union Unpacked(rbuf[p][peer[p]])]
  /\ pc' = [pc EXCEPT ![p] = "sending"]
  /\ UNCHANGED <<plan, call, info, Plist, toSend, peer, sbuf, rbuf, posted, net>>

\* No message is outstanding: cleanup_after_bcast, cleanup_after_merge.
Return(p) ==
  /\ pc[p] = "sending" /\ toSend[p] = {} /\ Ptags[p] = {}
  /\ pc' = [pc EXCEPT ![p] = "idle"]
  /\ Plist' = [Plist EXCEPT ![p] = [q \in Proc |-> {}]]
  /\ UNCHANGED <<plan, call, info, toSend, Ptags, peer, taken, sbuf, mpi>>

-------------------------------------------------------------------------------
(* MPI *)

\* Messages of one sender with one tag match in the order they were sent.
Matches(m, p, h) ==
  /\ m.dst = p /\ m.src = h.src /\ m.kind = h.kind
  /\ \A m2 \in net : m2.dst = p /\ m2.src = m.src /\ m2.kind = m.kind =>
                       m.msg.call <= m2.msg.call

Deliver(p) ==
  \E m \in net, h \in posted[p] :
    /\ Matches(m, p, h)
    /\ net' = net \ {m}
    /\ posted' = [posted EXCEPT ![p] = @ \ {h}]
    /\ done' = [done EXCEPT ![p] = @ \union {h}]
    /\ rbuf' = [rbuf EXCEPT ![p][m.src] = m.msg]
    /\ UNCHANGED <<plan, pc, call, info, Plist, toSend, Ptags, peer, taken, sbuf>>

-------------------------------------------------------------------------------

Step(p) == \/ \E o \in Operation : Redecompose(p, o) \/ Enter(p, o)
           \/ Pack(p)
           \/ Send(p)
           \/ SendReturns(p)
           \/ NextMessage(p)
           \/ WaitUnpack(p)
           \/ Return(p)

\* The run is over.
Finished == /\ \A p \in Proc : pc[p] = "idle" /\ call[p] = MaxCall
            /\ UNCHANGED vars

Next == Finished \/ \E p \in Proc : Step(p) \/ Deliver(p)

Spec == Init /\ [][Next]_vars

\* Every processor keeps running its program, and MPI makes progress.
FairSpec == /\ Spec
            /\ \A p \in Proc : WF_vars(Step(p)) /\ WF_vars(Deliver(p))

-------------------------------------------------------------------------------
(* Correctness *)

Counts  == [Proc -> 0..Cardinality(Point)]
Message == [pts : SUBSET NestPoint, call : 0..MaxCall]
Requests == [src : Proc, kind : Kind, call : 1..MaxCall, size : 1..Cardinality(Point)]
Info    == [P : [Point -> Proc], mother_P : [NestPoint -> Proc],
            child_compiled : SUBSET Lists, parent_compiled : SUBSET Lists,
            send : [Lists -> Counts], recv : [Lists -> Counts],
            Xlist : [Lists -> SUBSET NestPoint]]

TypeOK ==
  /\ plan \in Seq(Operation) /\ Len(plan) <= MaxCall
  /\ pc \in [Proc -> {"idle", "packing", "sending", "blocked", "waiting", "aborted"}]
  /\ call \in [Proc -> 0..Len(plan)]
  /\ info \in [Proc -> Info]
  /\ Plist \in [Proc -> [Proc -> SUBSET NestPoint]]
  /\ toSend \in [Proc -> SUBSET Proc]
  /\ Ptags \in [Proc -> SUBSET Proc]
  /\ peer \in [Proc -> Proc]
  /\ taken \in [Proc -> SUBSET [point : NestPoint, call : 0..MaxCall]]
  /\ sbuf \in [Proc -> Message]
  /\ rbuf \in [Proc -> [Proc -> Message]]
  /\ posted \in [Proc -> SUBSET Requests]
  /\ done \in [Proc -> SUBSET Requests]
  /\ net \subseteq [src : Proc, dst : Proc, kind : Kind, msg : Message]

\* When a forcing or a feedback has returned on p, the unpacking loop has
\* yielded exactly the points the model packed, anywhere, whose nest point or
\* mother p owns now, each with the data of this very call
\* (the notes of RSL_BCAST_MSGS and RSL_MERGE_MSGS).
TransferExact ==
  \A p \in Proc : pc[p] = "idle" /\ call[p] > 0 /\ Op(p).kind # "cut" =>
    LET mine == {x \in Op(p).packs : Target(info[p], Op(p).kind, x) = p}
    IN taken[p] = {[point |-> x, call |-> call[p]] : x \in mine}

\* Lists that both flags call compiled are those of the decompositions of now,
\* and a nest point knows its mother's processor: a cut of either domain,
\* which the comment at decomp.c:456 says is still to be handled, is noticed.
ListsCurrent(g, p) ==
  /\ \A x \in NestPoint : g.mother_P[x] = g.P[Mother[x]]
  /\ \A l \in g.child_compiled \intersect g.parent_compiled :
       /\ g.send[l] = SendList(g, p, l)
       /\ g.recv[l] = RecvList(g, p, l)
       /\ g.Xlist[l] \in {{}, LocalPoints(g, p, l)}

CompiledIsCurrent == \A p \in Proc : ListsCurrent(info[p], p)

\* Every operation returns on every processor, even where the model packs
\* nothing for a receiver that waits (rsl_bcast.c:569-575, 777-812).
EveryCallReturns ==
  <>(\A p \in Proc : pc[p] = "idle" /\ call[p] = MaxCall)

\* The inductive invariant of RslNestProofs: a process that is not idle is in a
\* transfer.
InTransfer == \A p \in Proc : pc[p] # "idle" => call[p] > 0 /\ Op(p).kind # "cut"

IInv == TypeOK /\ InTransfer /\ CompiledIsCurrent
===============================================================================
