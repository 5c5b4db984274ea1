---------------------------- MODULE Destinations ----------------------------
(***************************************************************************)
(* Where backups go (systembackup/store.go, Save and Load): one row with a *)
(* destination for each kind of storage and the sealed credentials, which  *)
(* a form may leave blank to keep. Every save writes both destinations:    *)
(* also that of the kind it does not select, as the form still shows it.   *)
(* A credential is known by the destination it was typed for.              *)
(***************************************************************************)
EXTENDS FiniteSets

CONSTANTS
    Places,       \* destinations: an endpoint with its bucket and region, or a WebDAV address
    Senders       \* runs and connection tests, each loading the configuration once and using it

ASSUME DestinationsAssumption == IsFiniteSet(Places) /\ IsFiniteSet(Senders) /\ {"nowhere", "unsaved"} \cap Places = {}

VARIABLES
    config,       \* the row
    sender        \* the configuration a sender has loaded, Nothing before

destinationVars == <<config, sender>>

Kinds == {"s3", "webdav"}
Credentials == {"access key", "secret key", "webdav password"}
KindOf(c) == IF c = "webdav password" THEN "webdav" ELSE "s3"
PlacesOrNone == Places \cup {"nowhere"}
Unsaved == "unsaved"
Loaded(kind, place, typed) == [kind |-> kind, place |-> place, typed |-> typed]
Nothing == Loaded("s3", "nowhere", [c \in Credentials |-> Unsaved])

DestinationsTypeOK ==
    LET Typed == [Credentials -> PlacesOrNone \cup {Unsaved}]
    IN  /\ config \in [kind : Kinds, enabled : BOOLEAN, place : [Kinds -> PlacesOrNone], typed : Typed]
        /\ sender \in [Senders -> [kind : Kinds, place : PlacesOrNone, typed : Typed]]

DestinationsInit ==
    /\ config = [kind |-> "s3", enabled |-> FALSE, place |-> [k \in Kinds |-> "nowhere"], typed |-> [c \in Credentials |-> Unsaved]]
    /\ sender = [s \in Senders |-> Nothing]

\* ValidateConfig: the selected kind has its destination and its credentials.
Complete(kind, place, typed) ==
    place[kind] # "nowhere" /\ \A c \in Credentials : KindOf(c) = kind => typed[c] # Unsaved

\* Mutant: only the destination of the kind that is selected is compared.
MovedOfSelected(kind, place, blank) ==
    place[kind] # config.place[kind] /\ \E c \in blank : KindOf(c) = kind /\ config.typed[c] # Unsaved
\* A destination has moved under a credential that is left blank.
Moved(kind, place, blank) ==
    \E c \in blank : place[KindOf(c)] # config.place[KindOf(c)] /\ config.typed[c] # Unsaved

\* Save, under the row lock: what was left blank keeps its sealed value.
Save(kind, enabled, place, blank) ==
    LET typed == [c \in Credentials |-> IF c \in blank THEN config.typed[c] ELSE place[KindOf(c)]]
    IN  /\ ~Moved(kind, place, blank)
        /\ enabled => Complete(kind, place, typed)
        /\ config' = [kind |-> kind, enabled |-> enabled, place |-> place, typed |-> typed]
        /\ UNCHANGED sender

\* Load reads the row at once; ValidateConfig refuses what is not complete. The sender
\* then talks to the destination of its kind, whatever is saved meanwhile.
Load(s) ==
    /\ Complete(config.kind, config.place, config.typed)
    /\ sender' = [sender EXCEPT ![s] = Loaded(config.kind, config.place[config.kind],
                     [c \in Credentials |-> IF KindOf(c) = config.kind THEN config.typed[c] ELSE Unsaved])]
    /\ UNCHANGED config

DestinationsNext ==
    \/ \E kind \in Kinds, enabled \in BOOLEAN, place \in [Kinds -> PlacesOrNone], blank \in SUBSET Credentials :
          Save(kind, enabled, place, blank)
    \/ \E s \in Senders : Load(s)

DestinationsSpec == DestinationsInit /\ [][DestinationsNext]_destinationVars

-----------------------------------------------------------------------------
(* A saved credential is kept only for the destination it was typed for,   *)
(* of either kind, and no run sends one anywhere else.                     *)
CredentialsStay ==
    /\ \A c \in Credentials : config.typed[c] \in {Unsaved, config.place[KindOf(c)]}
    /\ \A s \in Senders, c \in Credentials : sender[s].typed[c] \in {Unsaved, sender[s].place}
=============================================================================
