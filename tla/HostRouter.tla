----------------------------- MODULE HostRouter -----------------------------
(***************************************************************************)
(* Routing by host name (transport/hostrouter.go).  A host is the sequence *)
(* of its labels, in lower case; the label "" is an empty one.  A rule is  *)
(* [wild, labels]: an exact host, or the suffix that follows "*.".         *)
(***************************************************************************)
EXTENDS Naturals, Sequences, FiniteSets

CONSTANTS
  Labels,
  Depth,       \* bound on the labels of a rule
  MaxHosts     \* WithMaxHosts

ASSUME RouterAssumption == Depth \in Nat /\ MaxHosts \in Nat \ {0}

VARIABLES
  exact,       \* HostRouter.exact
  wildcards    \* HostRouter.wildcards, in the order of registration

routerVars == <<exact, wildcards>>

LabelSeqs(S, max) == UNION {[1..n -> S] : n \in 1..max}

\* Hosts a request may name: one label more than a rule, empty labels included.
RequestHosts == LabelSeqs(Labels \cup {""}, Depth + 1)

RouterInit == exact = {} /\ wildcards = <<>>

Wildcards == {wildcards[i] : i \in DOMAIN wildcards}

\* Handle panics at the limit, on a rule it has, and on a wildcard without a domain.
HandleExact(host) ==
  /\ Cardinality(exact) + Len(wildcards) < MaxHosts
  /\ host \notin exact
  /\ exact' = exact \cup {host}
  /\ UNCHANGED wildcards

HandleWildcard(suffix) ==
  /\ Cardinality(exact) + Len(wildcards) < MaxHosts
  /\ Len(suffix) >= 2 /\ suffix \notin Wildcards
  /\ wildcards' = Append(wildcards, suffix)
  /\ UNCHANGED exact

RemoveExact(host) ==
  /\ host \in exact
  /\ exact' = exact \ {host}
  /\ UNCHANGED wildcards

\* The rule is cut out of the slice; Handle lets in no second one with its suffix.
RemoveWildcard(suffix) ==
  /\ \E i \in DOMAIN wildcards :
       /\ wildcards[i] = suffix
       /\ wildcards' = SubSeq(wildcards, 1, i - 1) \o SubSeq(wildcards, i + 1, Len(wildcards))
  /\ UNCHANGED exact

\* Mutated form: the prefix may have several labels.
MatchesWildcard_AnyPrefix(suffix, host) ==
  LET n == Len(host) - Len(suffix)
  IN  n > 0 /\ SubSeq(host, n + 1, Len(host)) = suffix

\* HasSuffix with the leading dot, and a prefix that is one label and not empty.
MatchesWildcard(suffix, host) ==
  LET n == Len(host) - Len(suffix)
  IN  n > 0 /\ SubSeq(host, n + 1, Len(host)) = suffix /\ n = 1 /\ host[1] # ""

\* The rule ServeHTTP picks: the exact one, or the first wildcard that matches; <<>> is
\* the fallback or the not-found status.
ServeHTTP(host) ==
  LET matching == {i \in DOMAIN wildcards : MatchesWildcard(wildcards[i], host)}
      first    == CHOOSE i \in matching : \A j \in matching : i <= j
  IN  IF host \in exact THEN [wild |-> FALSE, labels |-> host]
      ELSE IF matching # {} THEN [wild |-> TRUE, labels |-> wildcards[first]]
      ELSE <<>>

RouterNext ==
  \E host \in LabelSeqs(Labels, Depth) :
    HandleExact(host) \/ HandleWildcard(host) \/ RemoveExact(host) \/ RemoveWildcard(host)

RouterSpec == RouterInit /\ [][RouterNext]_routerVars

-----------------------------------------------------------------------------
\* A request goes where its host says, whatever the order in which rules came and went:
\* to its own rule, else to the wildcard of its parent domain, else nowhere.
RouteByParent ==
  exact \cup Wildcards # {} =>
    \A host \in RequestHosts :
      ServeHTTP(host) =
        IF host \in exact THEN [wild |-> FALSE, labels |-> host]
        ELSE IF Tail(host) \in Wildcards /\ host[1] # "" THEN [wild |-> TRUE, labels |-> Tail(host)]
        ELSE <<>>

-----------------------------------------------------------------------------
\* A wildcard rule is a sequence of labels that Handle has found to have a domain.
RouterTypeOK ==
  /\ exact \subseteq LabelSeqs(Labels, Depth)
  /\ wildcards \in Seq({host \in LabelSeqs(Labels, Depth) : Len(host) >= 2})
=============================================================================
