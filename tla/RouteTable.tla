----------------------------- MODULE RouteTable -----------------------------
(***************************************************************************)
(* What the writers of the catalogue promise of its routes: each of them   *)
(* takes effect at once, on the table as it stands, or not at all. There   *)
(* are no locks here and nothing is read before it is used. Module Routes  *)
(* is how the code keeps the promise.                                      *)
(***************************************************************************)
CONSTANTS
    Models,     \* the models there may be
    OwnerOf,    \* model -> its provider
    NoRoute     \* serves its requests itself

VARIABLES
    entry,      \* models: whether the row is there, and route_to_id
    owners      \* the providers that are there

tableVars == <<entry, owners>>

Listed(m) == m \in Models /\ entry[m].at = "there"
RoutedTo(m) == {n \in Models : Listed(n) /\ entry[n].route = m}

\* One hop: the target serves itself, and nobody is served through the source.
MayRoute(m, t) == t = NoRoute \/ (t # m /\ Listed(t) /\ entry[t].route = NoRoute /\ RoutedTo(m) = {})

TableInit ==
    /\ entry \in [Models -> {[at |-> at, route |-> NoRoute] : at \in {"unborn", "there"}}]
    /\ owners = {OwnerOf[m] : m \in Models}

Add(m, t) ==
    /\ entry[m].at = "unborn" /\ OwnerOf[m] \in owners /\ MayRoute(m, t)
    /\ entry' = [entry EXCEPT ![m] = [at |-> "there", route |-> t]]

SetRoute(m, t) ==
    /\ Listed(m) /\ MayRoute(m, t)
    /\ entry' = [entry EXCEPT ![m].route = t]

\* What goes takes no route of a model that stays along.
Remove(gone) ==
    /\ \A m \in gone : Listed(m) /\ RoutedTo(m) \subseteq gone
    /\ entry' = [m \in Models |-> IF m \in gone THEN [at |-> "gone", route |-> NoRoute] ELSE entry[m]]

RemoveProvider(p) ==
    /\ Remove({m \in Models : Listed(m) /\ OwnerOf[m] = p})
    /\ owners' = owners \ {p}

\* A write that changes nothing is no step.
TableNext ==
    \/ /\ entry' # entry /\ UNCHANGED owners
       /\ \E m \in Models : Remove({m}) \/ \E t \in Models \cup {NoRoute} : Add(m, t) \/ SetRoute(m, t)
    \/ owners' # owners /\ \E p \in owners : RemoveProvider(p)

TableSpec == TableInit /\ [][TableNext]_tableVars
=============================================================================

