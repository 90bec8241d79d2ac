--------------------------- MODULE ResourceReads ---------------------------
(***************************************************************************)
(* resources/read: an exact resource, or else the first template that      *)
(* matches (Server.ReadResource), with the registration of templates and   *)
(* the matcher of uritemplate.go.  URIs and templates are sequences of     *)
(* characters; "v" stands for a character that a variable name may hold,   *)
(* and a template is known by its place in the order of templates.         *)
(***************************************************************************)
EXTENDS Integers, Sequences, FiniteSets, Ordering
LOCAL SeqExt == INSTANCE SequencesExt

CONSTANTS
  Templates,        \* candidates for registration, a sequence in lexicographic order
  ReadUris,         \* the URIs of resources and of reads
  HiddenUris,       \* URIs of resources the tenant's ItemFilter denies
  HiddenTemplates,  \* indices of templates it denies
  MaxBacktrackSteps,
  MaxTemplates      \* bound on the templates that are registered

ASSUME ResourceReadsAssumption ==
  /\ Templates \in Seq(Seq(STRING)) /\ \A i \in DOMAIN Templates : Templates[i] # <<>>
  /\ HiddenUris \subseteq ReadUris /\ HiddenTemplates \subseteq DOMAIN Templates
  /\ {MaxBacktrackSteps, MaxTemplates} \subseteq Nat

VARIABLES
  resources,       \* URIs with a resource of their own
  templates,       \* indices of the registered templates
  sortedTemplates, \* the sorted slice, or <<>> for nil
  read             \* the read that is being served

readVars == <<resources, templates, sortedTemplates, read>>

NoAnswerYet == <<"none", 0>>
NotFound == <<"notFound", 0>>
NoRead == [pc |-> "none", uri |-> <<>>, answer |-> NoAnswerYet, resources |-> {}, templates |-> {}]

ReadsInit == resources = {} /\ templates = {} /\ sortedTemplates = <<>> /\ read = NoRead

(***************************************************************************)
(* uritemplate.go                                                          *)
(***************************************************************************)
Placeholder == "placeholder"
Malformed == <<"malformed">>

\* Where the next c of a template stands, from position i on; one past its end if none.
IndexFrom(tmpl, i, c) == Least({j \in i..Len(tmpl) : tmpl[j] = c} \cup {Len(tmpl) + 1})

WithoutPlus(inner) == IF inner # <<>> /\ inner[1] = "+" THEN Tail(inner) ELSE inner

\* parseTemplate: literal runs and placeholders, or Malformed for nil.
ParseTemplate(tmpl) ==
  LET segs[i \in 1..(Len(tmpl) + 1)] ==
        IF i > Len(tmpl) THEN <<>>
        ELSE IF tmpl[i] = "{"
          THEN LET end == IndexFrom(tmpl, i + 1, "}")
               IN  IF end > Len(tmpl) \/ WithoutPlus(SubSeq(tmpl, i + 1, end - 1)) = <<>>
                     THEN Malformed
                     ELSE <<Placeholder>> \o segs[end + 1]
        ELSE LET end == IndexFrom(tmpl, i, "{")
             IN  <<SubSeq(tmpl, i, end - 1)>> \o segs[end]
  IN  IF Malformed[1] \in SeqExt!ToSet(segs[1]) THEN Malformed ELSE segs[1]

IsValidVarName(s) == s # <<>> /\ s[1] = "v" /\ SeqExt!ToSet(s) \subseteq {"v", "."}

\* isValidURITemplate: balanced braces, not nested, around valid names.
IsValidURITemplate(tmpl) ==
  LET braces == SelectSeq(tmpl, LAMBDA c : c \in {"{", "}"})
  IN  /\ \A i \in DOMAIN braces : braces[i] = IF i % 2 = 1 THEN "{" ELSE "}"
      /\ Len(braces) % 2 = 0
      /\ \A i \in DOMAIN tmpl :
           tmpl[i] = "{" =>
             IsValidVarName(WithoutPlus(SubSeq(tmpl, i + 1, IndexFrom(tmpl, i, "}") - 1)))

\* matchSegs: segment si against the URI from uj on.  While a placeholder tries its split
\* points, start is the next one (0 before the first), and every try costs a step of the
\* budget, which the whole match shares.
MatchesParsedTemplate(segs, uri) ==
  LET Result(ok, left) == [ok |-> ok, left |-> left]
      match[si \in 1..(Len(segs) + 1), uj \in 0..Len(uri), start \in 0..(Len(uri) + 1),
            budget \in 0..MaxBacktrackSteps] ==
        IF si > Len(segs) THEN Result(uj = Len(uri), budget)
        ELSE IF segs[si] # Placeholder
          THEN IF SeqExt!IsPrefix(segs[si], SubSeq(uri, uj + 1, Len(uri)))
                 THEN match[si + 1, uj + Len(segs[si]), 0, budget]
                 ELSE Result(FALSE, budget)
        ELSE IF si = Len(segs)
          THEN Result(uj < Len(uri) /\ "/" \notin SeqExt!ToSet(SubSeq(uri, uj + 1, Len(uri))), budget)
        ELSE IF start = 0 THEN match[si, uj, uj + 1, budget]
        ELSE IF start > Len(uri) \/ uri[start] = "/" THEN Result(FALSE, budget)
        ELSE IF budget <= 1 THEN Result(FALSE, 0)
        ELSE IF segs[si + 1] # Placeholder /\ (start = Len(uri) \/ uri[start + 1] # segs[si + 1][1])
          THEN match[si, uj, start + 1, budget - 1]
        ELSE LET rest == match[si + 1, start, 0, budget - 1]
             IN  IF rest.ok THEN rest ELSE match[si, uj, start + 1, rest.left]
  IN  segs # Malformed /\ match[1, 0, 0, MaxBacktrackSteps].ok

(***************************************************************************)
(* Registration                                                            *)
(***************************************************************************)
AddResource(uri) ==
  /\ resources = {} /\ resources' = {uri}
  /\ UNCHANGED <<templates, sortedTemplates, read>>

\* Mutated form: the sorted slice outlives the registration.
AddTemplate_KeepsSorted(i) ==
  /\ IsValidURITemplate(Templates[i])
  /\ i \notin templates /\ Cardinality(templates) < MaxTemplates
  /\ templates' = templates \cup {i}
  /\ UNCHANGED <<resources, sortedTemplates, read>>

AddTemplate(i) ==
  /\ IsValidURITemplate(Templates[i])
  /\ i \notin templates /\ Cardinality(templates) < MaxTemplates
  /\ templates' = templates \cup {i} /\ sortedTemplates' = <<>>
  /\ UNCHANGED <<resources, read>>

(***************************************************************************)
(* ReadResource                                                            *)
(***************************************************************************)
\* An empty URI never gets here: handleResourcesRead refuses it.
ReadBegins(uri) ==
  /\ read.pc = "none" /\ uri # <<>>
  /\ read' = [pc |-> "exact", uri |-> uri, answer |-> NoAnswerYet,
              resources |-> resources, templates |-> templates]
  /\ UNCHANGED <<resources, templates, sortedTemplates>>

\* A denied resource is not found, and no template is tried for it.
ExactAnswer(uri) == IF uri \in HiddenUris THEN NotFound ELSE <<"resource", 0>>

ReadExact ==
  /\ read.pc = "exact"
  /\ read' = IF read.uri \in resources
               THEN [read EXCEPT !.pc = "done", !.answer = ExactAnswer(read.uri)]
               ELSE [read EXCEPT !.pc = "template"]
  /\ UNCHANGED <<resources, templates, sortedTemplates>>

\* findTemplateForURI: the first template of the slice that matches, and then the filter.
FindTemplateForURI(sorted, uri) ==
  LET hits == {k \in DOMAIN sorted :
                 MatchesParsedTemplate(ParseTemplate(Templates[sorted[k]]), uri)}
  IN  IF hits = {} \/ sorted[Least(hits)] \in HiddenTemplates
        THEN NotFound
        ELSE <<"template", sorted[Least(hits)]>>

ReadTemplate ==
  /\ read.pc = "template"
  /\ IF sortedTemplates # <<>>
       THEN read' = [read EXCEPT !.pc = "done",
                                 !.answer = FindTemplateForURI(sortedTemplates, read.uri)]
       ELSE read' = [read EXCEPT !.pc = "sort"]
  /\ UNCHANGED <<resources, templates, sortedTemplates>>

\* getSortedTemplates found nil, and sorts under the write lock.
SortTemplates ==
  /\ read.pc = "sort"
  /\ LET sorted == IF sortedTemplates # <<>> THEN sortedTemplates ELSE Ascending(templates)
     IN  /\ sortedTemplates' = sorted
         /\ read' = [read EXCEPT !.pc = "done", !.answer = FindTemplateForURI(sorted, read.uri)]
  /\ UNCHANGED <<resources, templates>>

ReadReturns ==
  /\ read.pc = "done" /\ read' = NoRead
  /\ UNCHANGED <<resources, templates, sortedTemplates>>

ReadsNext ==
  \/ \E uri \in ReadUris : AddResource(uri) \/ ReadBegins(uri)
  \/ \E i \in DOMAIN Templates : AddTemplate(i)
  \/ ReadExact \/ ReadTemplate \/ SortTemplates \/ ReadReturns

ReadsSpec == ReadsInit /\ [][ReadsNext]_readVars

-----------------------------------------------------------------------------
\* What it is for a URI to match a template: cut into one piece for each character or
\* placeholder of the template, literal pieces equal, the others within one path segment.
Expands(tmpl, uri) ==
  LET opens == {i \in DOMAIN tmpl : tmpl[i] = "{"}
      close(i) == IndexFrom(tmpl, i, "}")
      inside == UNION {(i + 1)..close(i) : i \in opens}
      parts == Ascending(DOMAIN tmpl \ inside)
      fits(k, piece) == IF tmpl[parts[k]] = "{" THEN piece # <<>> /\ "/" \notin SeqExt!ToSet(piece)
                                                ELSE piece = <<tmpl[parts[k]]>>
  IN  \E cut \in [0..Len(parts) -> 0..Len(uri)] :
        /\ cut[0] = 0 /\ cut[Len(parts)] = Len(uri)
        /\ \A k \in 1..Len(parts) :
             cut[k - 1] <= cut[k] /\ fits(k, SubSeq(uri, cut[k - 1] + 1, cut[k]))

\* The matcher, whose pruning and budget cut its search short, says of every template that can
\* be registered and of every URI at hand what Expands says.  With larger templates and URIs
\* the budget runs out, and it does not.
MatcherAgrees ==
  \A i \in DOMAIN Templates, uri \in ReadUris :
    IsValidURITemplate(Templates[i]) =>
      (MatchesParsedTemplate(ParseTemplate(Templates[i]), uri) <=> Expands(Templates[i], uri))

\* What a read of a URI may answer with these templates registered.
TemplateAnswer(uri, ts) ==
  LET hits == {i \in ts : Expands(Templates[i], uri)}
  IN  IF hits = {} \/ Least(hits) \in HiddenTemplates THEN NotFound ELSE <<"template", Least(hits)>>

\* A read answers with the resource of that URI, or else with the first template the URI
\* really expands, as they stood at some moments of the call: the matcher, its pruning and
\* its snapshot lose nothing that was registered before the read and invent nothing.
ReadIsRight ==
  read.pc = "done" =>
    \/ read.uri \in resources /\ read.answer = ExactAnswer(read.uri)
    \/ /\ read.uri \notin read.resources
       /\ \E ts \in SUBSET templates :
            read.templates \subseteq ts /\ read.answer = TemplateAnswer(read.uri, ts)

-----------------------------------------------------------------------------
(***************************************************************************)
(* The inductive invariant behind ReadIsRight, for a matcher that is right *)
(* about the templates and URIs at hand.                                   *)
(***************************************************************************)
ReadsTypeOK ==
  /\ templates \subseteq DOMAIN Templates /\ IsFiniteSet(templates)
  /\ read = [pc |-> read.pc, uri |-> read.uri, answer |-> read.answer,
              resources |-> read.resources, templates |-> read.templates]
  /\ read.pc \in {"none", "exact", "template", "sort", "done"}
  /\ read.pc # "none" => read.uri \in ReadUris

\* Only valid templates are registered, and a sorted slice that is not nil holds all of them.
TemplatesSorted ==
  /\ \A i \in templates : IsValidURITemplate(Templates[i])
  /\ sortedTemplates \in {<<>>, Ascending(templates)}

\* Nothing that was registered when the read began is gone, and templates are tried for no
\* resource that was.
ReadSees ==
  /\ read.resources \subseteq resources /\ read.templates \subseteq templates
  /\ read.pc \in {"template", "sort"} => read.uri \notin read.resources

ReadsInv == MatcherAgrees /\ ReadsTypeOK /\ TemplatesSorted /\ ReadSees /\ ReadIsRight
=============================================================================
