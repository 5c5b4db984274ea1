---------------------------- MODULE ProviderKeys ----------------------------
(***************************************************************************)
(* The keys of a provider and the address they are sent to (provider:      *)
(* Create, Update, nextKeys, keep, Delete).                                *)
(*                                                                         *)
(* An administrator edits a form that shows hints of the keys, never the   *)
(* keys. A duplicate takes the keys of its source inside the database,     *)
(* after a check made in an earlier statement.                             *)
(***************************************************************************)
EXTENDS Naturals, Sequences, FiniteSets, SequencesExt

CONSTANTS
    KeyEditors,         \* administrators with a form open
    Original, Duplicate,    \* a provider, and one made from it
    Urls,
    Hints,              \* what a form shows of a key: its last characters
    MaxAPIKeys

ASSUME KeysAssumption == MaxAPIKeys \in Nat \ {0}

VARIABLES
    upstreams,  \* providers: the address, and the keys with what they were typed for
    form        \* the form of each editor, with the hints and the address it was opened with

keyVars == <<upstreams, form>>

Ends == {Original, Duplicate}
KeyOf == [for : Urls, hint : Hints]
Gone == [url |-> "gone", keys |-> << >>]
NoForm == [at |-> "closed", of |-> Original, seen |-> << >>, url |-> "gone", keep |-> << >>, typed |-> << >>, keys |-> << >>]

HintsOf(keys) == [i \in DOMAIN keys |-> keys[i].hint]
Exists(p) == upstreams[p] # Gone

KeysInit ==
    /\ \E u \in Urls, h \in Hints :
          upstreams = [p \in Ends |-> IF p = Original THEN [url |-> u, keys |-> <<[for |-> u, hint |-> h]>>] ELSE Gone]
    /\ form = [e \in KeyEditors |-> NoForm]

-----------------------------------------------------------------------------
(* The list an update leaves behind: nextKeys, keep. *)

\* Positions of another list are refused.
KeptFits(keys, f) == HintsOf(keys) = f.seen /\ \A i \in ToSet(f.keep) : i \in DOMAIN keys
Kept(keys, f) == [i \in DOMAIN f.keep |-> keys[f.keep[i]]]

\* unique: the first of equals stays, in the order they came.
FirstPlaces(keys) == {i \in DOMAIN keys : \A j \in 1..(i - 1) : keys[j] # keys[i]}
Nth(places, n) == CHOOSE i \in places : Cardinality({j \in places : j < i}) = n - 1
Unique(keys) == [n \in 1..Cardinality(FirstPlaces(keys)) |-> keys[Nth(FirstPlaces(keys), n)]]
Fitting(keys) == keys # << >> /\ Len(keys) <= MaxAPIKeys

TypedFor(u, hints) == [i \in DOMAIN hints |-> [for |-> u, hint |-> hints[i]]]

\* Every key follows to a new address because it was typed for it.
MayMove(f) == f.keep = << >> /\ f.typed # << >>

-----------------------------------------------------------------------------
(* The form of a provider that exists. *)

\* What a form may ask: which of the keys it shows to keep, and keys typed beside them.
Positions(n) == {<< >>} \cup {<<i>> : i \in 1..n} \cup (IF n = 0 THEN {} ELSE {[i \in 1..n |-> i]})
TypedHints == {<< >>} \cup {<<h>> : h \in Hints}

OpenForm(e, p, at) ==
    /\ form[e].at = "closed" /\ Exists(p)
    /\ \E u \in Urls, keep \in Positions(Len(upstreams[p].keys)), typed \in TypedHints :
          form' = [form EXCEPT ![e] = [at |-> at, of |-> p, seen |-> HintsOf(upstreams[p].keys),
                                       url |-> u, keep |-> keep, typed |-> typed, keys |-> << >>]]
    /\ UNCHANGED upstreams

Close(e) == form' = [form EXCEPT ![e] = NoForm]

\* One transaction, under the row's lock. A replacement keeps none.
UpdateProvider(e) ==
    LET f == form[e]
        current == upstreams[f.of]
        list == Unique(Kept(current.keys, f) \o TypedFor(f.url, f.typed))
    IN  /\ f.at = "edit" /\ Exists(f.of)
        /\ f.keep # << >> => KeptFits(current.keys, f)
        /\ f.url # current.url => MayMove(f)
        /\ Fitting(list)
        /\ upstreams' = [upstreams EXCEPT ![f.of] = [url |-> f.url, keys |-> list]]
        /\ Close(e)

\* A save with no list of keys keeps them all, and moves nothing.
UpdateKeepingAll(e) ==
    LET f == form[e]
        current == upstreams[f.of]
        list == Unique(current.keys \o TypedFor(f.url, f.typed))
    IN  /\ f.at = "edit" /\ Exists(f.of)
        /\ f.url = current.url /\ Fitting(list)
        /\ upstreams' = [upstreams EXCEPT ![f.of].keys = list]
        /\ Close(e)

\* Refused, or given up.
Leave(e) == form[e].at # "closed" /\ Close(e) /\ UNCHANGED upstreams

-----------------------------------------------------------------------------
(* A duplicate, a statement at a time. *)

\* The address of the source is read first, and compared.
CheckSource(e) ==
    /\ form[e].at = "duplicate" /\ Exists(Original)
    /\ upstreams[Original].url = form[e].url
    /\ form' = [form EXCEPT ![e].at = IF form[e].keep = << >> /\ form[e].typed = << >> THEN "copying" ELSE "taking"]
    /\ UNCHANGED upstreams

\* A mutated form of SourceAt: the source may have moved since the check.
SourceAtAny(u) == Exists(Original) /\ u \in Urls

SourceAt(u) == Exists(Original) /\ upstreams[Original].url = u

\* The database moves the ciphertext, if the address still matches.
InsertCopy(e) ==
    /\ form[e].at = "copying" /\ ~Exists(Duplicate)
    /\ SourceAt(form[e].url)
    /\ upstreams' = [upstreams EXCEPT ![Duplicate] = [url |-> form[e].url, keys |-> upstreams[Original].keys]]
    /\ Close(e)

\* Some of the keys are opened, at the address the new row will have.
TakeKeys(e) ==
    LET f == form[e]
        list == Unique(Kept(upstreams[Original].keys, f) \o TypedFor(f.url, f.typed))
    IN  /\ f.at = "taking" /\ SourceAt(f.url)
        /\ f.keep # << >> => KeptFits(upstreams[Original].keys, f)
        /\ Fitting(list)
        /\ form' = [form EXCEPT ![e].at = "inserting", ![e].keys = list]
        /\ UNCHANGED upstreams

InsertTaken(e) ==
    /\ form[e].at = "inserting" /\ ~Exists(Duplicate)
    /\ upstreams' = [upstreams EXCEPT ![Duplicate] = [url |-> form[e].url, keys |-> form[e].keys]]
    /\ Close(e)

DeleteProvider(p) ==
    /\ Exists(p)
    /\ upstreams' = [upstreams EXCEPT ![p] = Gone]
    /\ UNCHANGED form

KeysNext ==
    \/ \E e \in KeyEditors :
          \/ OpenForm(e, Original, "duplicate") \/ CheckSource(e) \/ InsertCopy(e) \/ TakeKeys(e) \/ InsertTaken(e)
          \/ \E p \in Ends : OpenForm(e, p, "edit")
          \/ UpdateProvider(e) \/ UpdateKeepingAll(e) \/ Leave(e)
    \/ \E p \in Ends : DeleteProvider(p)

KeysSpec == KeysInit /\ [][KeysNext]_keyVars

-----------------------------------------------------------------------------
(* Properties. *)

\* A key is sent only to the address it was typed for: no move, no duplicate and no
\* stale form carries one elsewhere (provider.go:541, 347).
KeysGoWhereTyped == \A p \in Ends : \A i \in DOMAIN upstreams[p].keys : upstreams[p].keys[i].for = upstreams[p].url

\* A provider that is there has a key, and no more than the limit, none twice.
KeysWellFormed ==
    \A p \in Ends : Exists(p) => Fitting(upstreams[p].keys) /\ IsInjective(upstreams[p].keys)

KeysTypeOK ==
    /\ upstreams \in [Ends -> [url : Urls \cup {"gone"}, keys : Seq(KeyOf)]]
    /\ form \in [KeyEditors -> [at : {"closed", "edit", "duplicate", "copying", "taking", "inserting"}, of : Ends,
                                seen : Seq(Hints), url : Urls \cup {"gone"}, keep : Seq(Nat), typed : Seq(Hints),
                                keys : Seq(KeyOf)]]

\* Whatever order forms, moves and duplicates come in, a provider has a fitting set
\* of keys and each is of its address.
KeysHold == KeysTypeOK /\ KeysWellFormed /\ KeysGoWhereTyped
=============================================================================
