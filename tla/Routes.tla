------------------------------- MODULE Routes -------------------------------
(***************************************************************************)
(* The catalogue's routes: one model serving the requests of another       *)
(* (model: Create, Update, EnableIfAutoDisabled, Delete, lockRouteTarget,  *)
(* checkRouteTx; provider: Update, Delete).                                *)
(*                                                                         *)
(* Every writer is a transaction under READ COMMITTED: it takes row locks  *)
(* with updates that change nothing, one statement after another, reads,   *)
(* and writes as it commits. What keeps two of them apart is which rows    *)
(* they lock and in which order.                                           *)
(***************************************************************************)
EXTENDS Naturals, Sequences, FiniteSets, SequencesExt

CONSTANTS
    RouteEditors,       \* administrators, and the checker
    IdOrder,            \* the models there may be, lower id first
    OwnerOf             \* model -> its provider, which never changes

VARIABLES
    entry,      \* models: whether the row is there, and route_to_id
    owners,     \* the providers that are there
    work        \* the transaction of each editor

routeVars == <<entry, owners, work>>

Shelf == ToSet(IdOrder)
NoRoute == "no route"
Before(m, n) == \E i, j \in DOMAIN IdOrder : i < j /\ IdOrder[i] = m /\ IdOrder[j] = n
There(row) == row \in owners \/ (row \in Shelf /\ entry[row].at = "there")
Incoming(m) == {n \in Shelf : There(n) /\ entry[n].route = m}
OfProvider(p) == SelectSeq(IdOrder, LAMBDA m : OwnerOf[m] = p)
Providers == {OwnerOf[m] : m \in Shelf}

\* Ids tell rows apart; and what SelectSeq selects, of which the provers know nothing.
ASSUME RoutesAssumption ==
    /\ IdOrder \in Seq(Shelf) /\ Providers \cap Shelf = {} /\ NoRoute \notin Shelf \cup Providers
    /\ \A i, j \in DOMAIN IdOrder : IdOrder[i] = IdOrder[j] => i = j
    /\ \A p \in Providers :
         LET own == OfProvider(p)
         IN  /\ own \in Seq(Shelf) /\ ToSet(own) = {m \in Shelf : OwnerOf[m] = p}
             /\ \A i, j \in DOMAIN own : i < j => Before(own[i], own[j])

Begun(kind, on, target, locks) ==
    [kind |-> kind, on |-> on, target |-> target, locks |-> locks, held |-> {}, checked |-> FALSE]
NoWork == Begun("none", NoRoute, NoRoute, << >>)

RoutesTypeOK ==
    /\ entry \in [Shelf -> [at : {"unborn", "there", "gone"}, route : Shelf \cup {NoRoute}]]
    /\ owners \subseteq Providers
    /\ \A e \in RouteEditors : \A row \in work[e].held :
          There(row) /\ \A f \in RouteEditors \ {e} : row \notin work[f].held

RoutesInit ==
    /\ \E unborn \in Shelf : entry = [m \in Shelf |-> [at |-> IF m = unborn THEN "unborn" ELSE "there", route |-> NoRoute]]
    /\ owners = Providers
    /\ work = [e \in RouteEditors |-> NoWork]

-----------------------------------------------------------------------------
(* What each transaction locks, and in which order. *)

\* A mutated form of LocksOfRoute: the rows in the order the request names them.
LocksOfRouteAsNamed(m, t) == <<OwnerOf[m], m>> \o (IF t = NoRoute THEN << >> ELSE <<t>>)

\* A route takes two rows, the lower id first.
LocksOfRoute(m, t) ==
    <<OwnerOf[m]>> \o (IF t = NoRoute \/ t = m THEN <<m>> ELSE IF Before(m, t) THEN <<m, t>> ELSE <<t, m>>)
LocksOfCreate(m, t) == <<OwnerOf[m]>> \o (IF t = NoRoute THEN << >> ELSE <<t>>)
\* The checker switches a model on under the provider that serves it.
LocksOfEnable(m) == <<OwnerOf[IF entry[m].route = NoRoute THEN m ELSE entry[m].route], m>>
LocksOfProvider(p) == <<p>> \o OfProvider(p)

Start(e, kind, on, target, locks) ==
    /\ work[e].kind = "none"
    /\ work' = [work EXCEPT ![e] = Begun(kind, on, target, locks)]
    /\ UNCHANGED <<entry, owners>>

\* An id is made for one row, and known to others once the row is there.
Known(t) == t \in {n \in Shelf : entry[n].at # "unborn"} \cup {NoRoute}
StartCreate(e, m, t) ==
    /\ entry[m].at = "unborn" /\ Known(t)
    /\ \A f \in RouteEditors : ~(work[f].kind = "create" /\ work[f].on = m)
    /\ Start(e, "create", m, t, LocksOfCreate(m, t))
StartRoute(e, m, t) == There(m) /\ Known(t) /\ Start(e, "route", m, t, LocksOfRoute(m, t))
StartEnable(e, m) == There(m) /\ Start(e, "enable", m, NoRoute, LocksOfEnable(m))
StartDelete(e, m) == There(m) /\ Start(e, "delete", m, NoRoute, <<m>>)
\* A provider is deleted, or switched off with its models.
StartProvider(e, p, kind) == p \in owners /\ Start(e, kind, p, NoRoute, LocksOfProvider(p))

\* An update of a row: it waits for the holder; a row that is gone locks nothing.
LockRow(e) ==
    /\ work[e].locks # << >>
    /\ LET row == Head(work[e].locks)
       IN  /\ \A f \in RouteEditors \ {e} : row \notin work[f].held
           /\ work' = [work EXCEPT ![e].locks = Tail(@),
                                   ![e].held = @ \cup (IF There(row) THEN {row} ELSE {})]
    /\ UNCHANGED <<entry, owners>>

-----------------------------------------------------------------------------
(* Checks, under the locks. *)

\* A chain would be served one hop short of its end.
RouteFits(m, t) ==
    /\ t # m /\ There(t)
    /\ entry[t].route = NoRoute
    /\ Incoming(m) = {}

\* A mutated form of MayDelete: no look at what routes there.
MayDeleteAny(m) == There(m)

MayDelete(m) == Incoming(m) = {}
MayDeleteProvider(p) == \A m \in Shelf : There(m) /\ OwnerOf[m] = p => \A n \in Incoming(m) : OwnerOf[n] = p

Fits(w) ==
    /\ w.kind = "create" =>
         w.on \in Shelf /\ OwnerOf[w.on] \in owners /\ (w.target # NoRoute => RouteFits(w.on, w.target))
    /\ w.kind = "route" => There(w.on) /\ (w.target \notin {NoRoute, entry[w.on].route} => RouteFits(w.on, w.target))
    /\ w.kind = "delete" => MayDelete(w.on)
    /\ w.kind = "provider" => MayDeleteProvider(w.on)

Locked(e) == work[e].kind # "none" /\ work[e].locks = << >> /\ ~work[e].checked

CheckPasses(e) ==
    /\ Locked(e) /\ Fits(work[e])
    /\ work' = [work EXCEPT ![e].checked = TRUE]
    /\ UNCHANGED <<entry, owners>>

\* Refused, or the database fails: the transaction rolls back.
RollBack(e) ==
    /\ work[e].kind # "none" /\ (Locked(e) => ~Fits(work[e]))
    /\ work' = [work EXCEPT ![e] = NoWork]
    /\ UNCHANGED <<entry, owners>>

-----------------------------------------------------------------------------
(* Commits. *)

Committing(e, kind) == work[e].kind = kind /\ work[e].checked
Committed(e) == work' = [work EXCEPT ![e] = NoWork]

WriteRoute(e) ==
    /\ Committing(e, "route") \/ Committing(e, "create")
    /\ LET w == work[e] IN entry' = [entry EXCEPT ![w.on] = [at |-> "there", route |-> w.target]]
    /\ Committed(e) /\ UNCHANGED owners

\* The foreign key clears the routes to a row that goes.
WithoutRows(dead) == [m \in Shelf |-> IF m \in dead THEN [at |-> "gone", route |-> NoRoute]
                                  ELSE IF entry[m].route \in dead THEN [entry[m] EXCEPT !.route = NoRoute] ELSE entry[m]]

WriteDelete(e) ==
    /\ Committing(e, "delete")
    /\ entry' = WithoutRows({work[e].on} \cap {m \in Shelf : There(m)})
    /\ Committed(e) /\ UNCHANGED owners

WriteDeleteProvider(e) ==
    /\ Committing(e, "provider")
    /\ owners' = owners \ {work[e].on}
    /\ entry' = WithoutRows({m \in Shelf : There(m) /\ OwnerOf[m] = work[e].on})
    /\ Committed(e)

\* A switch: nothing a route depends on.
WriteSwitch(e) ==
    /\ Committing(e, "enable") \/ Committing(e, "cascade")
    /\ Committed(e) /\ UNCHANGED <<entry, owners>>

RoutesNext == \E e \in RouteEditors :
    \/ \E m \in Shelf : \/ \E t \in Shelf \cup {NoRoute} : StartCreate(e, m, t) \/ StartRoute(e, m, t)
                        \/ StartEnable(e, m) \/ StartDelete(e, m)
    \/ \E p \in owners, kind \in {"provider", "cascade"} : StartProvider(e, p, kind)
    \/ LockRow(e) \/ CheckPasses(e) \/ RollBack(e)
    \/ WriteRoute(e) \/ WriteDelete(e) \/ WriteDeleteProvider(e) \/ WriteSwitch(e)

RoutesSpec == RoutesInit /\ [][RoutesNext]_routeVars

-----------------------------------------------------------------------------
(* Properties. *)

\* A route ends at a model that is there and has no route of its own: the gateway
\* follows one hop (model.go:1271).
RoutesAreOneHop ==
    \A m \in Shelf : There(m) /\ entry[m].route # NoRoute =>
        There(entry[m].route) /\ entry[entry[m].route].route = NoRoute

Table == INSTANCE RouteTable WITH Models <- Shelf

\* The locks do what they are for: however the transactions overlap, each takes effect
\* as if it had checked and written at one moment. What was found to fit still fits at
\* the commit, and no deletion clears a route and sends its readers back to the
\* provider they were routed away from (model.go:1227, 1248).
WritesAreAtomic == Table!TableSpec

\* No two transactions wait for each other (model.go:477).
AwaitsRow(e, f) == e # f /\ work[e].locks # << >> /\ Head(work[e].locks) \in work[f].held
NoCircleOfWaits == \A e, f \in RouteEditors : ~(AwaitsRow(e, f) /\ AwaitsRow(f, e))

\* The rows are well formed and locked by one writer at a time, routes take one hop,
\* and no writers wait in a circle.
RoutesStand == RoutesTypeOK /\ RoutesAreOneHop /\ NoCircleOfWaits
=============================================================================
