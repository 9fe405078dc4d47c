------------------------------ MODULE Routing ------------------------------
(***************************************************************************)
(* What happens inside Dispatcher.feed once the outer middleware let the   *)
(* event through: the depth-first walk over the router tree, the filters   *)
(* of each handler, the inner middleware around the handler that matched,  *)
(* and SkipHandler (dispatch/dispatcher.py, dispatch/router.py,            *)
(* middleware/errors.py).                                                  *)
(*                                                                         *)
(* The walk takes its list of routers once, at its start, but iterates     *)
(* over the live list of handlers of each.  A task inside feed suspends    *)
(* only where it awaits: in the outer middleware, in a filter, or in a     *)
(* handler.  There, any other task, or the handler itself, may register    *)
(* handlers and include routers.  Between two awaits nothing else runs.    *)
(*                                                                         *)
(* What a filter answers is what module MagicFilter says of it; how a      *)
(* handler ends is a choice.  A filter of the SDK does not suspend: while  *)
(* a task is at one, nothing else runs.                                    *)
(*                                                                         *)
(* include_router() appends whatever it is given.  That the routers remain *)
(* a tree is up to the consumer, and assumed of it in RoutingNext: a cycle *)
(* would recurse without end in walk(), and a router included twice would  *)
(* be walked twice.                                                        *)
(***************************************************************************)
EXTENDS MagicFilter, SequencesExt

CONSTANTS
    Tasks,        \* the tasks that call feed
    Routers,      \* the routers, in the tree or not yet
    Root,         \* the dispatcher's root router
    Handlers,     \* the handler objects that on() creates
    Filters,      \* per handler, what each of its filters answers, in order
    Boundary,     \* TRUE: ErrorBoundaryMiddleware is an inner middleware
    None          \* no event, no outcome

ASSUME RoutingAssumption ==
    /\ Root \in Routers
    /\ Filters \in [Handlers -> Seq([Events -> Answers])]
    /\ Boundary \in BOOLEAN
    /\ None \notin Events \cup {"HANDLED", "SKIPPED", "ERRORED"}

VARIABLES
    children,     \* per router, the routers it includes, in order
    handlers,     \* per router, its own handlers, in order of registration
    feed,         \* per task, the local variables of its call of feed
    settled,      \* history: the events whose dispatch ended without an error
    begun,        \* history: per task, the handlers there were at the start
    tried,        \* history: per task, the handlers this dispatch went past
    ending        \* history: per task, how the last handler it called ended

treeVars == <<children, handlers>>
historyVars == <<settled, begun, tried, ending>>
routingVars == <<treeVars, feed, historyVars>>

\* outside: not in feed.  entering: in the outer middleware.  filtering: in
\* the f-th filter of the h-th handler of the r-th router.  handling: in that
\* handler, inside the inner middleware.
Phases == {"outside", "entering", "filtering", "handling"}

Endings == {"return", "skip", "raise"}

Outcomes == {"HANDLED", "SKIPPED", "ERRORED"}

\* No call of feed, the last one having returned that outcome.
Outside(outcome) ==
    [phase |-> "outside", event |-> None, routers |-> <<>>, r |-> 1, h |-> 1, f |-> 1,
     extra |-> {}, outcome |-> outcome]

RoutingInit ==
    /\ children = [r \in Routers |-> <<>>]
    /\ handlers = [r \in Routers |-> <<>>]
    /\ feed = [t \in Tasks |-> Outside(None)]
    /\ settled = {}
    /\ begun = [t \in Tasks |-> {}]
    /\ tried = [t \in Tasks |-> {}]
    /\ ending = [t \in Tasks |-> None]

-----------------------------------------------------------------------------
(* The router tree. *)

\* Everything below r, and r itself.
Subtree(r) ==
    {x \in Routers: \A S \in SUBSET Routers:
        (r \in S /\ \A p \in S: Range(children[p]) \subseteq S) => x \in S}

Registered == UNION {Range(handlers[r]): r \in Routers}
Included == UNION {Range(children[r]): r \in Routers}

\* router.on(...) decorates a callback.
On(r, h) ==
    /\ h \notin Registered
    /\ handlers' = [handlers EXCEPT ![r] = Append(@, h)]
    /\ UNCHANGED <<children, feed, historyVars>>

\* What the consumer takes care of: with r.include_router(child), the routers
\* remain a tree.
KeepsTree(r, child) ==
    /\ child \notin Included \cup {Root}
    /\ r \notin Subtree(child)

\* r.include_router(child)
IncludeRouter(r, child) ==
    /\ children' = [children EXCEPT ![r] = Append(@, child)]
    /\ UNCHANGED <<handlers, feed, historyVars>>

\* Mutant of Walk: the children come before the router they belong to.
WalkChildrenFirst ==
    LET walk[r \in Routers] ==
            FlattenSeq([i \in DOMAIN children[r] |-> walk[children[r][i]]]) \o <<r>>
    IN  walk[Root]

\* Mutant of Walk: a router lists its children, and then they walk themselves.
WalkListingTwice ==
    LET walk[r \in Routers] ==
            <<r>> \o children[r] \o FlattenSeq([i \in DOMAIN children[r] |-> walk[children[r][i]]])
    IN  walk[Root]

\* root.walk(): a router, then what each of its children walks.
Walk ==
    LET walk[r \in Routers] ==
            <<r>> \o FlattenSeq([i \in DOMAIN children[r] |-> walk[children[r][i]]])
    IN  walk[Root]

-----------------------------------------------------------------------------
(* One call of feed. *)

\* Where the two loops over l.routers come by, and what they find there: the
\* p[2]-th handler of the p[1]-th router.
Positions(l) == UNION {{i} \X DOMAIN handlers[l.routers[i]]: i \in DOMAIN l.routers}
At(l, p) == handlers[l.routers[p[1]]][p[2]]
Found(l) == {At(l, p): p \in Positions(l)}

Earlier(p, q) == p[1] < q[1] \/ (p[1] = q[1] /\ p[2] < q[2])

\* The handler the loops are at.
Current(l) == At(l, <<l.r, l.h>>)

\* What the filter the loop is at answers.
Answer(l) == Filters[Current(l)][l.f][l.event]

\* The task runs a filter that does not suspend.
InMagic(t) == feed[t].phase = "filtering" /\ Answer(feed[t]) # "anything"

\* The positions of the walk from the h-th handler of the r-th router on.
Ahead(l, r, h) == {p \in Positions(l): ~Earlier(p, <<r, h>>)}

\* Mutant of Stop: what the filters of the last handler added is kept.
StopKeepingExtra(l, p) ==
    [l EXCEPT !.r = p[1], !.h = p[2], !.f = 1,
              !.phase = IF Filters[At(l, p)] = <<>> THEN "handling" ELSE "filtering"]

\* The loop arrives at a handler: no extra data, first filter if there is one.
Stop(l, p) ==
    [l EXCEPT !.r = p[1], !.h = p[2], !.f = 1, !.extra = {},
              !.phase = IF Filters[At(l, p)] = <<>> THEN "handling" ELSE "filtering"]

\* The loops over routers and handlers go on from there, to the next handler
\* or to their end.
GoOn(l, r, h) ==
    LET ahead == Ahead(l, r, h)
    IN  IF ahead = {} THEN Outside("SKIPPED")
        ELSE Stop(l, CHOOSE p \in ahead: \A q \in ahead: ~Earlier(q, p))

\* Mutant of Become: whatever is not ERRORED counts as done.
BecomeUnlessErrored(t, l) ==
    /\ feed' = [feed EXCEPT ![t] = l]
    /\ settled' = IF l.outcome # "ERRORED" THEN settled \cup {feed[t].event} ELSE settled

\* The task's locals become l; an event that ends without an error is settled.
Become(t, l) ==
    /\ feed' = [feed EXCEPT ![t] = l]
    /\ settled' = IF l.outcome \in {"HANDLED", "SKIPPED"} THEN settled \cup {feed[t].event}
                                                           ELSE settled

\* The history of a dispatch ends where the next begins, or with an exception.
ForgetDispatch(t) ==
    /\ begun' = [begun EXCEPT ![t] = {}]
    /\ tried' = [tried EXCEPT ![t] = {}]
    /\ ending' = [ending EXCEPT ![t] = None]

\* feed is called: the outer middleware is awaited.
Begin(t, e) ==
    /\ feed[t].phase = "outside"
    /\ feed' = [feed EXCEPT ![t] = [Outside(None) EXCEPT !.phase = "entering", !.event = e]]
    /\ ForgetDispatch(t)
    /\ UNCHANGED <<treeVars, settled>>

\* The outer middleware calls on: the walk is listed and the loops start.
StartWalk(t) ==
    LET l == [feed[t] EXCEPT !.routers = Walk] IN
    /\ feed[t].phase = "entering"
    /\ Become(t, GoOn(l, 1, 1))
    /\ begun' = [begun EXCEPT ![t] = Found(l)]
    /\ UNCHANGED <<treeVars, tried, ending>>

\* Mutant of FilterFails: the failing filter breaks out of both loops.
FilterFailsBreaking(t) ==
    LET l == feed[t] IN
    /\ l.phase = "filtering"
    /\ Answer(l) \in {"fails", "anything"}
    /\ tried' = [tried EXCEPT ![t] = @ \cup {Current(l)}]
    /\ Become(t, GoOn(l, l.r + 1, 1))
    /\ UNCHANGED <<treeVars, begun, ending>>

\* A filter fails: on to the next handler.
FilterFails(t) ==
    LET l == feed[t] IN
    /\ l.phase = "filtering"
    /\ Answer(l) \in {"fails", "anything"}
    /\ tried' = [tried EXCEPT ![t] = @ \cup {Current(l)}]
    /\ Become(t, GoOn(l, l.r, l.h + 1))
    /\ UNCHANGED <<treeVars, begun, ending>>

\* Mutant of FilterPasses: off by one at the last filter.
FilterPassesBeyond(t, adds) ==
    LET l == feed[t] IN
    /\ l.phase = "filtering"
    /\ Answer(l) \in {"passes", "anything"}
    /\ adds => Answer(l) = "anything"
    /\ Become(t, [l EXCEPT
         !.extra = IF adds THEN @ \cup {Current(l)} ELSE @,
         !.f = @ + 1,
         !.phase = IF l.f > Len(Filters[Current(l)]) THEN "handling" ELSE @])
    /\ UNCHANGED <<treeVars, begun, tried, ending>>

\* A filter passes, with or without data of its own; after the last one the
\* handler is called.
FilterPasses(t, adds) ==
    LET l == feed[t] IN
    /\ l.phase = "filtering"
    /\ Answer(l) \in {"passes", "anything"}
    /\ adds => Answer(l) = "anything"
    /\ Become(t, [l EXCEPT
         !.extra = IF adds THEN @ \cup {Current(l)} ELSE @,
         !.f = @ + 1,
         !.phase = IF l.f = Len(Filters[Current(l)]) THEN "handling" ELSE @])
    /\ UNCHANGED <<treeVars, begun, tried, ending>>

\* ErrorBoundaryMiddleware raises a HandlerError for every Exception of the
\* handler, and SkipHandler is one.
InnerChain(how) == IF Boundary /\ how = "skip" THEN "raise" ELSE how

\* The handler returns, falls through, or raises.
HandlerEnds(t, how) ==
    LET l == feed[t] IN
    /\ l.phase = "handling"
    /\ Become(t, CASE InnerChain(how) = "return" -> Outside("HANDLED")
                   [] InnerChain(how) = "raise"  -> Outside("ERRORED")
                   [] InnerChain(how) = "skip"   -> GoOn(l, l.r, l.h + 1))
    /\ tried' = [tried EXCEPT ![t] = @ \cup {Current(l)}]
    /\ ending' = [ending EXCEPT ![t] = how]
    /\ UNCHANGED <<treeVars, begun>>

\* feed is left by an exception: the outer middleware or a filter raised, or
\* the task was cancelled where it was suspended.
Leave(t) ==
    /\ feed[t].phase # "outside"
    /\ InMagic(t) => Answer(feed[t]) = "raises"
    /\ feed' = [feed EXCEPT ![t] = Outside(None)]
    /\ ForgetDispatch(t)
    /\ UNCHANGED <<treeVars, settled>>

-----------------------------------------------------------------------------
RoutingNext ==
    \/ /\ \A t \in Tasks: ~InMagic(t)
       /\ \/ \E r \in Routers, h \in Handlers: On(r, h)
          \/ \E r, child \in Routers: KeepsTree(r, child) /\ IncludeRouter(r, child)
    \/ \E t \in Tasks:
       /\ \A u \in Tasks \ {t}: ~InMagic(u)
       /\ \/ \E e \in Events: Begin(t, e)
          \/ StartWalk(t) \/ FilterFails(t) \/ Leave(t)
          \/ \E adds \in BOOLEAN: FilterPasses(t, adds)
          \/ \E how \in Endings: HandlerEnds(t, how)

RoutingSpec == RoutingInit /\ [][RoutingNext]_routingVars

-----------------------------------------------------------------------------
\* Every variable has the values the code can give it, and a task that awaits
\* a filter or a handler is at one.
RoutingTypeOK ==
    /\ children \in [Routers -> Seq(Routers)]
    /\ handlers \in [Routers -> Seq(Handlers)]
    /\ feed \in [Tasks -> [phase: Phases, event: Events \cup {None}, routers: Seq(Routers),
                           r: Nat, h: Nat, f: Nat, extra: SUBSET Handlers,
                           outcome: Outcomes \cup {None}]]
    /\ \A t \in Tasks: LET l == feed[t] IN
        /\ l.phase = "outside" <=> l.event = None
        /\ l.phase \in {"filtering", "handling"} => <<l.r, l.h>> \in Positions(l)
        /\ l.phase = "filtering" => l.f \in DOMAIN Filters[Current(l)]
    /\ settled \subseteq Events
    /\ begun \in [Tasks -> SUBSET Handlers]
    /\ tried \in [Tasks -> SUBSET Handlers]
    /\ ending \in [Tasks -> Endings \cup {None}]

AtHandler(t) == feed[t].phase \in {"filtering", "handling"}

\* Depth first, "own handlers first, then children in include order"
\* (dispatch/router.py:51): the walk has every router of the tree once, and of
\* two routers the first contains the second or belongs to an earlier child.
WalkIsPreorder ==
    LET w == Walk IN
    /\ w \in Seq(Routers)
    /\ Range(w) = Subtree(Root)
    /\ IsInjective(w)
    /\ \A i, j \in DOMAIN w: i < j =>
        \/ w[j] \in Subtree(w[i])
        \/ \E r \in Routers: \E k, l \in DOMAIN children[r]:
            /\ k < l
            /\ w[i] \in Subtree(children[r][k])
            /\ w[j] \in Subtree(children[r][l])

\* First match wins: a dispatch never passes over a handler that was there
\* when it began.  Those before the current one, and all of them when nothing
\* matched, failed a filter or fell through, whatever is registered meanwhile.
NoneOvertaken ==
    \A t \in Tasks: LET l == feed[t] IN
        /\ AtHandler(t) =>
            \A p \in Positions(l):
                Earlier(p, <<l.r, l.h>>) /\ At(l, p) \in begun[t] => At(l, p) \in tried[t]
        /\ l.outcome = "SKIPPED" => begun[t] \subseteq tried[t]

\* A dispatch does not come to the same handler twice, although the lists it
\* iterates over grow under it.
TriedOnce == \A t \in Tasks: AtHandler(t) => Current(feed[t]) \notin tried[t]

\* A handler gets the data of its own filters only: what a filter of an
\* earlier handler added before another filter failed is gone.
OwnExtras == \A t \in Tasks: AtHandler(t) => feed[t].extra \subseteq {Current(feed[t])}

\* "Forward-compat with the open event catalog" (dispatch/filters.py:94): the
\* filters of a handler that an event reaches also accept the event with a
\* field more.  (An earlier handler may still match it first.)  A filter that
\* negates a field that is not there would break this.
KeepsMatching ==
    \A t \in Tasks: feed[t].phase = "handling" =>
        \A x \in Extensions[feed[t].event]:
            \A i \in DOMAIN Filters[Current(feed[t])]:
                Filters[Current(feed[t])][i][x] \in {"passes", "anything"}

\* "Raise inside a handler to fall through to the next matching handler"
\* (dispatch/router.py:12): SkipHandler never makes a dispatch fail.
SkipFallsThrough ==
    \A t \in Tasks: feed[t].outcome = "ERRORED" => ending[t] # "skip"

\* Seen from outside, feed behaves as the dispatcher of module Dispatch
\* behind whose middleware the event has passed.
Feed == INSTANCE Dispatch WITH
    Keys <- Events, Failing <- Events, Dedup <- FALSE, Durable <- FALSE,
    Expiring <- {}, seen <- {},
    running <- [t \in Tasks |-> IF feed[t].phase = "outside" THEN None ELSE feed[t].event]

FeedSpec == Feed!DispatchSpec
=============================================================================
