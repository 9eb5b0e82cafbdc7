--------------------------- MODULE PermissionRules ---------------------------
(***************************************************************************)
(* PermissionPolicy: the layers that decide a tool call (sensitive paths,  *)
(* front matter of SAVVAGENT.md, permissions.toml, defaults), the rules    *)
(* that an Always or Never records, and the file they go to.               *)
(*                                                                         *)
(* The calls are those of one tool. The pattern recorded for a call is the *)
(* call itself; a pattern matches further calls, as a directory matches    *)
(* the paths below it. One prompt is up at a time (module ToolPrompts      *)
(* treats overlapping ones).                                               *)
(***************************************************************************)
EXTENDS Naturals, Sequences, FiniteSets

CONSTANTS
    Calls,           \* the argument of a call, which is also its pattern
    OtherPatterns,   \* patterns only a person writes
    Covers,          \* the calls each pattern matches
    Sensitive,       \* calls on the deny list of sensitive paths
    AllowedByDefault,\* calls the built-in defaults allow; the others ask
    MaxRules,        \* bound: entries a person writes into the file
    MaxSessions,     \* bound: how often savvagent is started
    NoCall

VARIABLES
    up,              \* the process runs
    sessions,
    front_matter,    \* rules of SAVVAGENT.md
    toml_rules,      \* rules in memory, in the order they are tried
    entries,         \* permissions.toml: its entries from top to bottom
    asking,          \* the call whose prompt is up
    writing,         \* what a write of the file under way will leave there
    recorded,        \* the user's Always and Never answers of this session
    saved            \* the file is what the rules were loaded from or last written to

vars == <<up, sessions, front_matter, toml_rules, entries, asking, writing, recorded, saved>>

Decisions == {"allow", "deny"}
Patterns  == Calls \cup OtherPatterns
Rules     == [pattern : Patterns, decision : Decisions]
RuleLists == UNION {[1 .. n -> Rules] : n \in 0 .. MaxRules}
Idle      == [busy |-> FALSE, list |-> << >>]

TypeOK ==
    /\ up \in BOOLEAN /\ sessions \in 0 .. MaxSessions
    /\ front_matter \in Seq(Rules) /\ toml_rules \in Seq(Rules) /\ entries \in Seq(Rules)
    /\ asking \in Calls \cup {NoCall}
    /\ writing \in [busy : BOOLEAN, list : Seq(Rules)]
    /\ recorded \in [Calls -> Decisions \cup {"none"}]
    /\ saved \in BOOLEAN

Init ==
    /\ up = FALSE /\ sessions = 0
    /\ front_matter \in {<<r>> : r \in Rules} \cup {<< >>}
    /\ toml_rules = << >> /\ entries = << >>
    /\ asking = NoCall /\ writing = Idle
    /\ recorded = [c \in Calls |-> "none"]
    /\ saved = TRUE

-----------------------------------------------------------------------------
(* Matching.                                                               *)

MatchesCall(r, c) == c \in Covers[r.pattern]

\* match_first: the decision of the first rule that matches.
MatchFirst(rules, c) ==
    LET hits == {i \in DOMAIN rules : MatchesCall(rules[i], c)} IN
    IF hits = {} THEN "none" ELSE rules[CHOOSE i \in hits : \A j \in hits : i <= j].decision

\* evaluate: the first layer that has something to say.
Evaluate(c) ==
    IF c \in Sensitive THEN "deny"
    ELSE IF MatchFirst(front_matter, c) # "none" THEN MatchFirst(front_matter, c)
    ELSE IF MatchFirst(toml_rules, c) # "none" THEN MatchFirst(toml_rules, c)
    ELSE IF c \in AllowedByDefault THEN "allow" ELSE "ask"

\* Vec::retain, and the loops that sort rules by decision: those of the rules that are
\* among these, in their order.
Retained(rules, these) ==
    LET kept[i \in 0 .. Len(rules)] ==
            IF i = 0 THEN << >>
            ELSE IF rules[i] \in these THEN Append(kept[i - 1], rules[i]) ELSE kept[i - 1]
    IN  kept[Len(rules)]

WithDecision(rules, d) == Retained(rules, {r \in Rules : r.decision = d})

\* permissions_from_rules, rules_from_permissions: the file has an array of allow
\* entries and one of deny entries. Either way allow comes first.
ByDecision(rules) == WithDecision(rules, "allow") \o WithDecision(rules, "deny")

SetOf(rules) == {rules[i] : i \in DOMAIN rules}

-----------------------------------------------------------------------------
\* PermissionPolicy::default_for.
Start ==
    /\ ~up /\ sessions < MaxSessions
    /\ up' = TRUE /\ sessions' = sessions + 1
    /\ toml_rules' = ByDecision(entries)
    /\ saved' = TRUE
    /\ recorded' = [c \in Calls |-> "none"]
    /\ UNCHANGED <<front_matter, entries, asking, writing>>

\* A call that no layer decides: the modal goes up.
AskUser(c) ==
    /\ up /\ asking = NoCall /\ ~writing.busy
    /\ Evaluate(c) = "ask"
    /\ asking' = c
    /\ UNCHANGED <<up, sessions, front_matter, toml_rules, entries, writing, recorded, saved>>

AnswerOnce ==
    /\ up /\ asking # NoCall
    /\ asking' = NoCall
    /\ UNCHANGED <<up, sessions, front_matter, toml_rules, entries, writing, recorded, saved>>

WithoutPattern(rules, p) == Retained(rules, {r \in Rules : r.pattern # p})

\* Variant: the newest rule is tried first.
RecordedFirst(rules, rule) == <<rule>> \o WithoutPattern(rules, rule.pattern)

\* retain and push.
Recorded(rules, rule) == Append(WithoutPattern(rules, rule.pattern), rule)

\* Variant: what was there before is written.
SerializedBefore(rules, rule) == ByDecision(rules)

Serialized(rules, rule) == ByDecision(Recorded(rules, rule))

\* add_rule up to the write: the file is opened, which truncates it, or cannot be
\* written at all. The rule is in force either way.
AnswerAlways(d) ==
    /\ up /\ asking # NoCall
    /\ LET rule == [pattern |-> asking, decision |-> d] IN
        /\ toml_rules' = Recorded(toml_rules, rule)
        /\ \/ /\ writing' = [busy |-> TRUE, list |-> Serialized(toml_rules, rule)]
              /\ entries' = << >>
           \/ UNCHANGED <<writing, entries>>
    /\ saved' = FALSE
    /\ recorded' = [recorded EXCEPT ![asking] = d]
    /\ asking' = NoCall
    /\ UNCHANGED <<up, sessions, front_matter>>

\* The write is complete; when it fails half way the file stays cut off, which does
\* not parse and loads as no rules.
WriteEnds ==
    /\ up /\ writing.busy
    /\ \/ entries' = writing.list /\ saved' = TRUE
       \/ UNCHANGED <<entries, saved>>
    /\ writing' = Idle
    /\ UNCHANGED <<up, sessions, front_matter, toml_rules, asking, recorded>>

\* The user quits, or the process dies; a write under way is lost.
Stop ==
    /\ up
    /\ up' = FALSE
    /\ asking' = NoCall /\ writing' = Idle
    /\ UNCHANGED <<sessions, front_matter, toml_rules, entries, recorded, saved>>

\* The user edits the file by hand between two sessions.
HandEdit ==
    /\ ~up
    /\ entries' \in RuleLists
    /\ saved' = FALSE
    /\ UNCHANGED <<up, sessions, front_matter, toml_rules, asking, writing, recorded>>

Next ==
    \/ Start \/ AnswerOnce \/ WriteEnds \/ Stop \/ HandEdit
    \/ \E c \in Calls : AskUser(c)
    \/ \E d \in Decisions : AnswerAlways(d)

Spec == Init /\ [][Next]_vars

-----------------------------------------------------------------------------
\* An Always or Never holds for its call as long as the session lasts, whatever is
\* answered for other calls, wider ones included, and whether or not it could be saved.
AnswerIsObeyed ==
    up => \A c \in Calls : recorded[c] # "none" => Evaluate(c) = recorded[c]

\* What the next start would load is what this session decides on, up to its order:
\* no answer is lost on its way to the file and none comes back that was replaced.
SavedRulesAreTheRules == up /\ saved => SetOf(ByDecision(entries)) = SetOf(toml_rules)

\* "Within a source, rules are matched in order and the first match wins. (...) Place
\* more-specific deny entries above more-general allow entries" (permissions.rs:31):
\* the topmost entry that matches decides. Every allow entry is tried before any deny.
TopmostEntryDecides ==
    up /\ saved => \A c \in Calls : MatchFirst(toml_rules, c) = MatchFirst(entries, c)
=============================================================================
