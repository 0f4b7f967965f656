------------------------------- MODULE Robots -------------------------------
(***************************************************************************)
(* robots.txt (src/crates/amber-core/src/robots.rs): the parser as a fold  *)
(* over the lines of a file, and what its groups then answer.  A line is a *)
(* field and a value; comments, blank and malformed lines have the field   *)
(* "other".  Tokens, patterns and paths are sequences of characters.       *)
(*                                                                         *)
(* A definition whose name starts with Bug is a seeded defect the model    *)
(* checker must detect; no specification uses it.                          *)
(***************************************************************************)
EXTENDS Documents

CONSTANTS
  UserAgent,    \* the crawler's, in lower case
  NoDelay       \* a Crawl-delay that is missing or does not parse

-----------------------------------------------------------------------------
\* Robots::parse.  [groups, cur, lastWasRule]: the complete groups, the one
\* under construction (a sequence of at most one), and the flag.

NewGroup == [agents |-> <<>>, rules |-> <<>>, delay |-> NoDelay]

\* Consecutive User-agent lines share a group.
UserAgentLine(a, v) ==
  LET ends == a.lastWasRule \/ a.cur = <<>>
      g == IF ends THEN NewGroup ELSE a.cur[1] IN
  [groups |-> IF ends THEN a.groups \o a.cur ELSE a.groups,
   cur |-> <<[g EXCEPT !.agents = Append(@, v)]>>,
   lastWasRule |-> FALSE]

\* What comes before the first User-agent line is dropped.
RuleLine(a, changed) ==
  IF a.cur = <<>> THEN a ELSE [a EXCEPT !.cur = changed, !.lastWasRule = TRUE]

ReadLine(a, l) ==
  CASE l.field = "user-agent" -> UserAgentLine(a, l.value)
    [] l.field \in {"allow", "disallow"} ->
         RuleLine(a, [i \in DOMAIN a.cur |-> [a.cur[i] EXCEPT !.rules =
           Append(@, [allow |-> l.field = "allow", pattern |-> l.value])]])
    [] l.field = "crawl-delay" ->
         RuleLine(a, [i \in DOMAIN a.cur |-> [a.cur[i] EXCEPT !.delay = l.value]])
    [] OTHER -> a

Parse(file) ==
  LET a == FoldLeft(ReadLine, [groups |-> <<>>, cur |-> <<>>, lastWasRule |-> FALSE], file)
  IN a.groups \o a.cur

-----------------------------------------------------------------------------
\* Matching.

IsAnchored(pattern) == pattern # <<>> /\ Last(pattern) = "$"
Unanchored(pattern) == IF IsAnchored(pattern) THEN Front(pattern) ELSE pattern

\* rule_matches: each literal where it first occurs after the one before.
RuleMatches(pattern, path) ==
  LET pat == Unanchored(pattern)
      segments == SplitAt(pat, {"*"})
      first == Head(segments)
      pos == FoldLeft(LAMBDA at, seg : FindFrom(seg, path, at) + Len(seg),
                      Len(first), Tail(segments)) IN
  /\ OccursAt(first, path, 0)
  /\ pos <= Len(path)
  /\ IsAnchored(pattern) /\ (pat = <<>> \/ Last(pat) # "*") => pos = Len(path)

BugBetter(r, best) ==   \* a later rule of the same length wins
  best = <<>> \/ Len(r.pattern) >= best[1].spec

\* Robots::allows: the longest pattern, Allow before Disallow.
Better(r, best) ==
  \/ best = <<>>
  \/ Len(r.pattern) > best[1].spec
  \/ Len(r.pattern) = best[1].spec /\ r.allow

BestRule(g, path) ==
  FoldLeft(LAMBDA best, r :
             IF r.pattern # <<>> /\ RuleMatches(r.pattern, path) /\ Better(r, best)
             THEN <<[spec |-> Len(r.pattern), allow |-> r.allow]>> ELSE best,
           <<>>, g.rules)

\* Robots::group_for: the first of the longest tokens the user agent contains,
\* then "*".
GroupFor(groups) ==
  LET tokens == UNION {{<<i, j>> : j \in DOMAIN groups[i].agents} : i \in DOMAIN groups}
      Token(t) == groups[t[1]].agents[t[2]]
      stars == {t \in tokens : Token(t) = <<"*">>}
      matching == {t \in tokens \ stars : HasText(UserAgent, Token(t))}
      most == {t \in matching : \A u \in matching : Len(Token(u)) <= Len(Token(t))}
      from == IF most # {} THEN most ELSE stars IN
  IF from = {} THEN <<>> ELSE <<groups[Min({t[1] : t \in from})]>>

Allows(groups, path) ==
  \/ GroupFor(groups) = <<>>
  \/ LET best == BestRule(GroupFor(groups)[1], path) IN best = <<>> \/ best[1].allow

CrawlDelay(groups) ==
  IF GroupFor(groups) = <<>> THEN NoDelay ELSE GroupFor(groups)[1].delay

-----------------------------------------------------------------------------
\* What the documentation of the module says, as definitions of their own.

CONSTANT RobotsPaths   \* paths to ask about

\* "`*` (any sequence) and a trailing `$` (end-anchor)": the path is cut into
\* the literals of the pattern and anything in between.
Denotes(pattern, path) ==
  LET places == 0..Len(path)
      from[i \in 0..Len(pattern)] ==   \* the places at which a path may go on, behind i characters
        IF i = Len(pattern) THEN places
        ELSE IF pattern[i + 1] = "$" /\ i + 1 = Len(pattern) THEN {Len(path)}
        ELSE IF pattern[i + 1] = "*" THEN {j \in places : \E k \in from[i + 1] : j <= k}
        ELSE {j \in places : j < Len(path) /\ pattern[i + 1] = path[j + 1] /\ j + 1 \in from[i + 1]}
  IN 0 \in from[0]

\* A pattern matches the paths it denotes, and no other; of a pattern with both
\* a wildcard and an anchor, not all of them.
MatchesWhatItDenotes(pattern) ==
  \A path \in RobotsPaths :
    /\ RuleMatches(pattern, path) => Denotes(pattern, path)
    /\ Denotes(pattern, path) /\ ~("*" \in ToSet(pattern) /\ IsAnchored(pattern)) =>
         RuleMatches(pattern, path)

\* The User-agent lines a line of the file is under: those before it that no
\* rule separates from the last of them.
RuleFields == {"allow", "disallow", "crawl-delay"}
Under(file, i) ==
  LET before == {j \in 1..(i - 1) : file[j].field = "user-agent"} IN
  {j \in before : ~\E r \in j..Max(before) : file[r].field \in RuleFields}

\* Every rule is in the group of the user agents above it, and in no other.
GroupsFollowLines(file) ==
  UNION {{<<ToSet(g.agents), r>> : r \in ToSet(g.rules)} : g \in ToSet(Parse(file))}
  = {<<{file[j].value : j \in Under(file, i)},
       [allow |-> file[i].field = "allow", pattern |-> file[i].value]>> :
       i \in {k \in DOMAIN file : file[k].field \in {"allow", "disallow"} /\ Under(file, k) # {}}}

\* The most specific group applies, else the `*` group; the rule with the
\* longest pattern decides, and of two as long an Allow.
VerdictIsLongest(file) ==
  LET groups == Parse(file)
      Specific(g) == {Len(a) : a \in {b \in ToSet(g.agents) : b # <<"*">> /\ HasText(UserAgent, b)}}
      best == UNION {Specific(g) : g \in ToSet(groups)}
      applies == {i \in DOMAIN groups :
                    IF best # {} THEN Max(best) \in Specific(groups[i])
                    ELSE <<"*">> \in ToSet(groups[i].agents)}
      Verdict(g, path) ==
        LET live == {r \in ToSet(g.rules) : r.pattern # <<>> /\ RuleMatches(r.pattern, path)} IN
        live = {} \/ \E r \in live : r.allow /\ \A q \in live : Len(q.pattern) <= Len(r.pattern)
  IN \A path \in RobotsPaths :
       IF applies = {} THEN Allows(groups, path) /\ CrawlDelay(groups) = NoDelay
       ELSE LET g == groups[Min(applies)] IN
            Allows(groups, path) = Verdict(g, path) /\ CrawlDelay(groups) = g.delay

-----------------------------------------------------------------------------
\* Properties, of the documents that are a pattern or a file.

\* The crawler's name, patterns and paths are texts, and a Crawl-delay is
\* anything: it is only looked up.
ASSUME RobotsAssumption ==
  /\ UserAgent \in Seq(STRING)
  /\ RobotsPaths \subseteq Seq(STRING)
  /\ \A p \in Parts :
       /\ p[1] = "pattern" => p[2] \subseteq STRING
       /\ p[1] = "robots" => \A l \in p[2] :
            /\ l = [field |-> l.field, value |-> l.value]
            /\ l.field \in {"user-agent", "allow", "disallow", "crawl-delay", "other"}
            /\ l.field \in {"user-agent", "allow", "disallow"} => l.value \in Seq(STRING)

\* rule_matches accepts only paths that a robots.txt pattern denotes, and, unless
\* the pattern has both a wildcard and an anchor, all of them.
PatternsExact == Is("pattern") => MatchesWhatItDenotes(doc)

\* A rule of robots.txt belongs to the user agents above it, whatever lines lie
\* between groups.
GroupsExact == Is("robots") => GroupsFollowLines(doc)

\* is_allowed goes by the most specific group and in it by the longest rule; of an
\* allow and a disallow as long, the allow.
AllowsExact == Is("robots") => VerdictIsLongest(doc)

\* A crawl goes by the rules a robots.txt states.
RobotsExact == PatternsExact /\ GroupsExact /\ AllowsExact

=============================================================================
