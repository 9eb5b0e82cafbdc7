------------------------------ MODULE MCRecords ------------------------------
(***************************************************************************)
(* Instances for TLC of the components of Records.                         *)
(***************************************************************************)
EXTENDS Records, TLC

CONSTANTS dir, file, secret, lint, deploy, clear, manyPlugin, barePlugin,
          p1, p2, small, large, plain, doc, npmServer, download, written

\* One optional plugin has a command, the other has none; `clear` is a Core command.
OptionalPlugins == {manyPlugin, barePlugin}
CommandNames    == {lint, deploy, clear}
Contributed     == (manyPlugin :> {lint}) @@ (barePlugin :> {})

\* A rule for a directory covers the files in it; one file is on the deny list.
AllCalls == {dir, file, secret}
Covered  == (dir :> {dir, file, secret}) @@ (file :> {file}) @@ (secret :> {secret})

\* Two providers; one model of one of them sees images. Of each form of a message one:
\* with an image, with a keyword, and with each kind of prefix; one of a prefix that
\* leads nowhere is classified, or falls through.
Bare == [form |-> "none", name |-> Nothing, model |-> Nothing, image |-> FALSE,
         words |-> {}, kind |-> "none"]
RoutedMessages ==
    {[Bare EXCEPT !.image = TRUE],
     [Bare EXCEPT !.kind = "short", !.words = {doc}],
     [Bare EXCEPT !.form = "word", !.name = p2, !.image = TRUE],
     [Bare EXCEPT !.form = "word", !.name = "big"],
     [Bare EXCEPT !.form = "pair", !.name = p1, !.model = large],
     [Bare EXCEPT !.form = "pair", !.name = p2, !.model = large, !.kind = "coding"]}
NoRules == [heuristics |-> FALSE, rules |-> << >>]
SomeRules ==
    [heuristics |-> TRUE,
     rules |-> <<[image |-> "yes", words |-> {}, provider |-> p2, model |-> plain],
                 [image |-> "any", words |-> {doc}, provider |-> p1, model |-> small]>>]
\* SAVVAGENT_MODEL names a model of another provider than the first, or is not set.
NamesSecond  == {[provider |-> p2, model |-> plain]}
NamesNothing == {Nothing}

Connectable == <<p1, p2>>
CatalogOf   == (p1 :> <<small, large>>) @@ (p2 :> <<plain>>)
DefaultOf   == (p1 :> small) @@ (p2 :> plain)
TierOf      == (small :> "cheap") @@ (large :> "premium") @@ (plain :> "standard")
Big         == {[alias |-> "big", provider |-> p1, model |-> large]}
RoutingFiles == {NoRules, SomeRules}

\* A batch of a download and an npm package, or of the latter alone.
Batched == {<<download, npmServer>>, <<npmServer>>}

\* The component that runs takes every initial state of its own, the others one; the rules
\* of SAVVAGENT.md are looked at by the permissions only.
MCInit ==
    /\ FocusInit
    /\ focus # "permissions" => front_matter = << >>
    /\ focus # "routes" => /\ pool = {p1, p2} /\ rules = NoRules
                           /\ app_model = CHOOSE m \in Routes!InitialModel(active) : TRUE

\* The turns of a session go to one provider service: a call begins with a new accumulator,
\* and what it leaves in history and log does not depend on the service.
OneService == spent.turns > 0 => acc'.by = acc.by

MCSpec == MCInit /\ [][FocusNext /\ OneService]_allVars
=============================================================================
