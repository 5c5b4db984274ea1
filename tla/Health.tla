------------------------------- MODULE Health -------------------------------
(***************************************************************************)
(* The liveness checker and the switch of a model (health: checker.go,     *)
(* health.go; model: DisableIfEnabled, EnableIfAutoDisabled, the switch in *)
(* Update; provider: the cascade; admin/health.go: the reset).             *)
(*                                                                         *)
(* Every instance that shares the database sweeps on its own timer. A pass *)
(* lists the models once and then takes minutes, asking providers, while   *)
(* operators switch models and providers and reset the uptime. What a pass *)
(* decides is written with a condition on the row, never as listed.        *)
(***************************************************************************)
EXTENDS Integers, Sequences, FiniteSets, Functions

CONSTANTS
    Checkers,           \* instances of the program, each with its sweep
    ListOrder,          \* the models of the catalogue, in the order a pass takes them
    HostOf,             \* model -> its provider
    RouteOf,            \* model -> the model that serves it, itself when it has no route
    DisableAfter,       \* health.disable_after: failures in a row
    DisableBelow,       \* health.disable_below: a success rate, in percent
    MinSamples,         \* MinSamplesToJudge
    MostSamples,        \* evidence about a model the instance keeps in view
    MostResets

ASSUME HealthAssumption ==
    /\ ListOrder \in Seq(Range(ListOrder))
    /\ RouteOf \in [Range(ListOrder) -> Range(ListOrder)]
    /\ \A m \in Range(ListOrder) : RouteOf[RouteOf[m]] = RouteOf[m]
    /\ {DisableAfter, DisableBelow, MinSamples, MostSamples} \subseteq Nat \ {0} /\ MostResets \in Nat

VARIABLES
    row,        \* models: enabled, auto_disabled
    hostOn,     \* providers.enabled
    answers,    \* whether the upstream of a model answers when asked
    evidence,   \* turns and probes within the window, newest first
    era,        \* how many resets have taken their moment
    baseline,   \* health.reset_at, as the reset it names
    pass,       \* the pass of each checker
    reset,      \* the reset under way: the models it listed and has yet to switch on
    decided,    \* who switched a model last
    excess      \* the notices pushed, less the models the checkers switched off

healthVars == <<row, hostOn, answers, evidence, era, baseline, pass, reset, decided, excess>>

Catalogue == Range(ListOrder)
Hosts == {HostOf[m] : m \in Catalogue}
NoPass == [at |-> "idle", next |-> 1, verdict |-> << >>, since |-> 0,
           listed |-> [m \in Catalogue |-> [on |-> FALSE, claim |-> FALSE]]]
NoReset == [at |-> "none", left |-> {}]

Switches == [on : BOOLEAN, claim : BOOLEAN]
Sample == [ok : BOOLEAN, era : 0..MostResets]

HealthTypeOK ==
    /\ row \in [Catalogue -> Switches] /\ hostOn \in [Hosts -> BOOLEAN]
    /\ answers \in [Catalogue -> BOOLEAN] /\ era \in 0..MostResets /\ baseline \in 0..MostResets
    /\ evidence \in [Catalogue -> Seq(Sample)] /\ \A m \in Catalogue : Len(evidence[m]) <= MostSamples
    /\ pass \in [Checkers -> [at : {"idle", "listed", "asking", "judging"}, next : {1} \cup DOMAIN ListOrder,
                              verdict : Seq(BOOLEAN), since : 0..MostResets, listed : [Catalogue -> Switches]]]
    /\ reset \in [at : {"none", "switching"}, left : SUBSET Catalogue]
    /\ decided \in [Catalogue -> {"operator", "checker"}]

HealthInit ==
    /\ row = [m \in Catalogue |-> [on |-> TRUE, claim |-> FALSE]]
    /\ hostOn = [p \in Hosts |-> TRUE]
    /\ answers = [m \in Catalogue |-> TRUE]
    /\ evidence = [m \in Catalogue |-> << >>]
    /\ era = 0 /\ baseline = 0
    /\ pass = [c \in Checkers |-> NoPass] /\ reset = NoReset
    /\ decided = [m \in Catalogue |-> "operator"]
    /\ excess = 0

-----------------------------------------------------------------------------
(* Evidence. *)

Observed(m, ok) == evidence' = [evidence EXCEPT ![m] = <<[ok |-> ok, era |-> era]>> \o @]

\* A reader's turn, in the ledger.
Turn(m) ==
    /\ row[m].on /\ Len(evidence[m]) < MostSamples
    /\ Observed(m, answers[RouteOf[m]])
    /\ UNCHANGED <<row, hostOn, answers, era, baseline, pass, reset, decided, excess>>

\* The oldest leaves the window.
Age(m) ==
    /\ evidence[m] # << >>
    /\ evidence' = [evidence EXCEPT ![m] = SubSeq(@, 1, Len(@) - 1)]
    /\ UNCHANGED <<row, hostOn, answers, era, baseline, pass, reset, decided, excess>>

Upstream(m) ==
    /\ RouteOf[m] = m
    /\ answers' = [answers EXCEPT ![m] = ~@]
    /\ UNCHANGED <<row, hostOn, evidence, era, baseline, pass, reset, decided, excess>>

-----------------------------------------------------------------------------
(* A pass: Run, probe, apply. *)

BeginPass(c) ==
    /\ pass[c].at = "idle"
    /\ pass' = [pass EXCEPT ![c] = [at |-> "listed", next |-> 1, verdict |-> << >>, since |-> baseline, listed |-> row]]
    /\ UNCHANGED <<row, hostOn, answers, evidence, era, baseline, reset, decided, excess>>

\* On, or off by a checker: any other is not down but switched off.
Concerns(c, m) == pass[c].listed[m].on \/ pass[c].listed[m].claim
\* The newest come first: what is recorded since the baseline leads.
Recent(c, m) == Cardinality({i \in 1..Len(evidence[m]) : evidence[m][i].era >= pass[c].since})
Samples(c, m) == SubSeq(evidence[m], 1, Recent(c, m))
Stands(c, step, m) == pass[c].at = step /\ m = ListOrder[pass[c].next]

\* On to the next model of the list.
Onward(c) ==
    [at |-> "listed", next |-> pass[c].next + 1, verdict |-> << >>, since |-> pass[c].since, listed |-> pass[c].listed]

Passed(c) == pass' = [pass EXCEPT ![c] = IF pass[c].next = Len(ListOrder) THEN NoPass ELSE Onward(c)]

\* A quiet one is left alone where probes are off, unless a checker switched it off.
Skip(c, m) ==
    /\ Stands(c, "listed", m)
    /\ ~Concerns(c, m) \/ (Samples(c, m) = << >> /\ ~pass[c].listed[m].claim)
    /\ Passed(c)
    /\ UNCHANGED <<row, hostOn, answers, evidence, era, baseline, reset, decided, excess>>

\* Readers first; a quiet model is asked.
Look(c, m) ==
    /\ Stands(c, "listed", m) /\ Concerns(c, m)
    /\ LET found == Samples(c, m)
       IN  pass' = [pass EXCEPT ![c].at = IF found = << >> THEN "asking" ELSE "judging",
                                ![c].verdict = [i \in 1..Len(found) |-> found[i].ok]]
    /\ UNCHANGED <<row, hostOn, answers, evidence, era, baseline, reset, decided, excess>>

\* The target of a route has to be on, and its provider.
Reachable(m) == RouteOf[m] = m \/ (row[RouteOf[m]].on /\ hostOn[HostOf[RouteOf[m]]])

\* A probe that cannot be recorded is judged all the same.
Probe(c, m) ==
    /\ Stands(c, "asking", m)
    /\ LET ok == Reachable(m) /\ answers[RouteOf[m]]
       IN  /\ pass' = [pass EXCEPT ![c].at = "judging", ![c].verdict = <<ok>>]
           /\ IF Len(evidence[m]) < MostSamples THEN Observed(m, ok) ELSE UNCHANGED evidence
    /\ UNCHANGED <<row, hostOn, answers, era, baseline, reset, decided, excess>>

\* Summarise.
Up(v) == v[1]
FailedInARow(v) == Cardinality({i \in 1..Len(v) : \A j \in 1..i : ~v[j]})
Rate(v) == 100 * Cardinality({i \in 1..Len(v) : v[i]})
Down(v) == FailedInARow(v) >= DisableAfter \/ (Len(v) >= MinSamples /\ Rate(v) < DisableBelow * Len(v))

\* A mutated form of Enables: what the pass listed is written as it is.
EnablesAsListed(m) == hostOn[HostOf[RouteOf[m]]]

\* The conditions of EnableIfAutoDisabled and DisableIfEnabled.
Enables(m) ==
    /\ ~row[m].on /\ row[m].claim
    /\ RouteOf[m] # m => row[RouteOf[m]].on
    /\ hostOn[HostOf[RouteOf[m]]]
Disables(m) == row[m].on

SwitchOn(c, m) ==
    /\ pass[c].listed[m].claim /\ Up(pass[c].verdict)
    /\ IF Enables(m)
       THEN row' = [row EXCEPT ![m] = [on |-> TRUE, claim |-> FALSE]] /\ decided' = [decided EXCEPT ![m] = "checker"]
       ELSE UNCHANGED <<row, decided>>
    /\ UNCHANGED excess

SwitchOff(c, m) ==
    /\ ~(pass[c].listed[m].claim /\ Up(pass[c].verdict))
    /\ IF pass[c].listed[m].on /\ Down(pass[c].verdict) /\ Disables(m)
       THEN /\ row' = [row EXCEPT ![m] = [on |-> FALSE, claim |-> TRUE]]
            /\ decided' = [decided EXCEPT ![m] = "checker"]
            /\ excess' = excess + (IF row[m].on THEN 0 ELSE 1)
       ELSE UNCHANGED <<row, decided, excess>>

Apply(c, m) ==
    /\ Stands(c, "judging", m)
    /\ SwitchOn(c, m) \/ SwitchOff(c, m)
    /\ Passed(c)
    /\ UNCHANGED <<hostOn, answers, evidence, era, baseline, reset>>

-----------------------------------------------------------------------------
(* Operators. *)

\* A mutated form of StaysOff: the provider is not asked.
StaysOffNever(m) == m \notin Catalogue

StaysOff(m) == ~hostOn[HostOf[m]]

\* Update of the switch alone: a change ends the claim, a refused enable keeps it.
Switched(m, on) ==
    LET next == on /\ ~StaysOff(m)
    IN  [on |-> next, claim |-> row[m].claim /\ next = row[m].on]

SetModel(m, on) ==
    /\ row' = [row EXCEPT ![m] = Switched(m, on)]
    /\ decided' = [decided EXCEPT ![m] = IF row'[m].on # row[m].on THEN "operator" ELSE @]
    /\ UNCHANGED <<hostOn, answers, evidence, era, baseline, pass, reset, excess>>

\* Switched off, a provider takes its models with it; a claim stays as it is.
SetProvider(p, on) ==
    /\ hostOn[p] # on
    /\ hostOn' = [hostOn EXCEPT ![p] = on]
    /\ row' = [m \in Catalogue |-> IF HostOf[m] = p /\ ~on THEN [row[m] EXCEPT !.on = FALSE] ELSE row[m]]
    /\ decided' = [m \in Catalogue |-> IF row'[m].on # row[m].on THEN "operator" ELSE decided[m]]
    /\ UNCHANGED <<answers, evidence, era, baseline, pass, reset, excess>>

\* The reset takes its moment, lists, and drops the probes.
BeginReset ==
    /\ reset.at = "none" /\ era < MostResets
    /\ era' = era + 1
    /\ reset' = [at |-> "switching", left |-> {m \in Catalogue : row[m].claim}]
    /\ \E kept \in {evidence, [m \in Catalogue |-> << >>]} : evidence' = kept
    /\ UNCHANGED <<row, hostOn, answers, baseline, pass, decided, excess>>

\* Update with both fields: the claim goes unless the provider refuses.
Reenable(m) ==
    /\ reset.at = "switching" /\ m \in reset.left
    /\ row' = [row EXCEPT ![m] = IF StaysOff(m) THEN [@ EXCEPT !.on = FALSE] ELSE [on |-> TRUE, claim |-> FALSE]]
    /\ decided' = [decided EXCEPT ![m] = IF row'[m].on # row[m].on THEN "operator" ELSE @]
    /\ reset' = [reset EXCEPT !.left = @ \ {m}]
    /\ UNCHANGED <<hostOn, answers, evidence, era, baseline, pass, excess>>

\* The new baseline is written last; a failure leaves the old one.
EndReset ==
    /\ reset.at = "switching" /\ reset.left = {}
    /\ reset' = NoReset
    /\ baseline' \in {baseline, era}
    /\ UNCHANGED <<row, hostOn, answers, evidence, era, pass, decided, excess>>

\* A process ends in the middle of its pass.
CheckerStops(c) ==
    /\ pass[c].at # "idle"
    /\ pass' = [pass EXCEPT ![c] = NoPass]
    /\ UNCHANGED <<row, hostOn, answers, evidence, era, baseline, reset, decided, excess>>

PassStep(c) == BeginPass(c) \/ \E m \in Catalogue : Skip(c, m) \/ Look(c, m) \/ Probe(c, m) \/ Apply(c, m)

HealthNext ==
    \/ \E c \in Checkers : PassStep(c) \/ CheckerStops(c)
    \/ \E m \in Catalogue : \/ Turn(m) \/ Age(m) \/ Upstream(m) \/ Reenable(m)
                          \/ \E on \in BOOLEAN : SetModel(m, on)
    \/ \E p \in Hosts, on \in BOOLEAN : SetProvider(p, on)
    \/ BeginReset \/ EndReset

HealthSpec == HealthInit /\ [][HealthNext]_healthVars

-----------------------------------------------------------------------------
(* Properties. *)

\* A model an operator switched off is never switched on by a checker, however old
\* the list its pass works from (checker.go:210).
OperatorStands ==
    [][\A m \in Catalogue : ~row[m].on /\ row'[m].on /\ decided'[m] = "checker" => decided[m] = "checker"]_healthVars

\* Two instances that decide on one model switch it off once and say so once
\* (checker.go:243).
OneNoticePerDisable == excess = 0

\* A model that has no route is on only while its provider is, whoever switched
\* either and in whichever order (model.go:658, provider.go:565).
OnUnderProvider == \A m \in Catalogue : row[m].on /\ RouteOf[m] = m => hostOn[HostOf[m]]

\* A claim is the checker's: a model that carries one is off, and nobody else has
\* switched it since (model.go:572).
ClaimIsTheCheckers == \A m \in Catalogue : row[m].claim => ~row[m].on /\ decided[m] = "checker"

\* The switches, the claims on them and the notices of several instances agree.
SwitchesHold == HealthTypeOK /\ OneNoticePerDisable /\ OnUnderProvider /\ ClaimIsTheCheckers
=============================================================================
