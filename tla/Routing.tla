------------------------------ MODULE Routing ------------------------------
(* Roles, groups and the handlers around an action: role.go, group.go and   *)
(* initWebRoutes of sunny.go.  First the application registers, in any      *)
(* order; then Init goes through the configured routes; then a request is   *)
(* served.  Requests share nothing that still changes by then, each has its *)
(* own Context: one of them stands for all.                                 *)
(*                                                                          *)
(* A path is one segment, as the lookup in pathRoles wants it; the group    *)
(* label is the same everywhere, so a role has one group or none.           *)
EXTENDS Naturals, Sequences, SequencesExt

CONSTANTS
    Routings,       \* the configured routes: sequences of [path, role]
    Paths, Roles,
    Decorated,      \* bound: the roles that the application registers for
    Orders,
    MaxHandlers,    \* bound on the handlers that are registered
    NoRole

ASSUME RoutingAssumption ==
    /\ Decorated \subseteq Roles
    /\ Orders \subseteq Nat \ {0}
    /\ MaxHandlers \in Nat
    /\ Routings \subseteq Seq([path : Paths, role : Roles])
    /\ NoRole \notin Roles

Sides == {"before", "after"}
NoHandlers == [s \in Sides |-> <<>>]

VARIABLES
    routes,         \* the config.WebRoutes still to be gone through
    pathRoles,      \* pathRoles[p], NoRole while p has none
    multi,          \* the paths with a multiRoleHandler
    count,          \* how many handlers have been registered
    registered,     \* registered[x]: rolesBeforeHandlers, rolesAfterHandlers
    known,          \* the keys of s.roles
    roles,          \* roles[x]: beforeActions and afterActions of the role
    grouped,        \* the roles with a group in s.groups
    groups,         \* groups[x]: the same of x's group
    injectRole,     \* the role that initWebRoutes is injecting into
    toInject,       \* what has been registered for it and is not in yet
    request,        \* where the request is, and the role of its Context
    ran,            \* history: the handlers run for it, and the action
    aborted         \* actionNext: 0 while it is true, then the length that
                    \* ran had when AbortAction was called

setup == <<multi, count, registered, grouped, groups>>
routing == <<routes, pathRoles, known, roles, injectRole, toInject>>
answering == <<request, ran, aborted>>
routingVars == <<setup, routing, answering>>

RoutingInit ==
    /\ routes \in Routings
    /\ pathRoles = [p \in Paths |-> NoRole]
    /\ multi \in SUBSET Paths
    /\ count = 0
    /\ registered = [x \in Roles |-> NoHandlers]
    /\ known = {}
    /\ roles = [x \in Roles |-> NoHandlers]
    /\ grouped = {}
    /\ groups = [x \in Roles |-> NoHandlers]
    /\ injectRole = NoRole
    /\ toInject = NoHandlers
    /\ request = [at |-> "setup", role |-> NoRole, index |-> 1]
    /\ ran = <<>>
    /\ aborted = 0

\* A handler is known by the number of its registration.
Handler(o) == [order |-> o, id |-> count + 1]
Action == [order |-> 0, id |-> 0]

\* append and sort.Slice, which leaves equal orders as they came while the
\* list has no more than twelve handlers: h gets the one place of a sorted
\* list that has no later order before it and no equal one behind it.
Places(list, h) ==
    {n \in 1..Len(list) + 1 :
        /\ \A j \in 1..n - 1 : list[j].order <= h.order
        /\ \A j \in n..Len(list) : list[j].order > h.order}

\* UseBefore and UseAfter of h, on one of the lists of a role or a group.
Use(lists, x, s, h) ==
    {[lists EXCEPT ![x][s] = InsertAt(@, n, h)] : n \in Places(lists[x][s], h)}

\* A faulty variant of the next definition: only into a role that the loop
\* has made.
SlipInjected(x) == IF x \in known THEN NoHandlers ELSE registered[x]

\* What a route of role x injects, all that has been registered for it.
Injected(x) == registered[x]

\* Where the request goes on at the end of a list ...
AfterList == [roleBefore |-> "group", groupBefore |-> "action",
              groupAfter |-> "roleAfter", roleAfter |-> "done"]

\* A faulty variant of the next definition: the list is left, not the request.
SlipAfterAbort(l) == AfterList[l]

\* ... and when a handler has aborted in list l.
AfterAbort(l) == IF l \in {"groupBefore", "groupAfter"} THEN "roleAfter" ELSE "done"

----------------------------------------------------------------------------
(* Registration.  A second role or group with the same label panics.        *)

MoreHandlers == request.at = "setup" /\ count < MaxHandlers /\ count' = count + 1

\* AddRoleBeforeHandler and AddRoleAfterHandler: unsorted, for the routes.
AddRoleHandler(x, s, o) ==
    /\ MoreHandlers
    /\ registered' = [registered EXCEPT ![x][s] = Append(@, Handler(o))]
    /\ UNCHANGED <<multi, grouped, groups, routing, answering>>

UseRoles(x) ==
    /\ request.at = "setup"
    /\ x \notin known
    /\ known' = known \cup {x}
    /\ UNCHANGED <<routes, pathRoles, roles, injectRole, toInject, setup, answering>>

\* UseBefore and UseAfter of a role ...
UseOnRole(x, s, o) ==
    /\ MoreHandlers
    /\ x \in known
    /\ roles' \in Use(roles, x, s, Handler(o))
    /\ UNCHANGED <<multi, registered, grouped, groups, routes, pathRoles, known,
                   injectRole, toInject, answering>>

UseGroups(x) ==
    /\ request.at = "setup"
    /\ x \notin grouped
    /\ grouped' = grouped \cup {x}
    /\ UNCHANGED <<multi, count, registered, groups, routing, answering>>

\* ... and of a group.
UseOnGroup(x, s, o) ==
    /\ MoreHandlers
    /\ x \in grouped
    /\ groups' \in Use(groups, x, s, Handler(o))
    /\ UNCHANGED <<multi, registered, grouped, routing, answering>>

Start ==
    /\ request.at = "setup"
    /\ request' = [request EXCEPT !.at = "routing"]
    /\ UNCHANGED <<setup, routing, ran, aborted>>

\* One route of initWebRoutes: a role that is missing is made, and what has
\* been registered for the role is to be injected, once more if it has had a
\* route ...
AddRoute ==
    /\ request.at = "routing"
    /\ toInject = NoHandlers
    /\ routes # <<>>
    /\ routes' = Tail(routes)
    /\ LET route == Head(routes)
       IN /\ pathRoles' = [pathRoles EXCEPT ![route.path] = route.role]
          /\ known' = known \cup {route.role}
          /\ injectRole' = route.role
          /\ toInject' = Injected(route.role)
    /\ UNCHANGED <<roles, setup, answering>>

\* ... one handler after the other, those of the before list first.
Inject(s) ==
    /\ request.at = "routing"
    /\ toInject[s] # <<>>
    /\ s = "after" => toInject["before"] = <<>>
    /\ roles' \in Use(roles, injectRole, s, Head(toInject[s]))
    /\ toInject' = [toInject EXCEPT ![s] = Tail(@)]
    /\ UNCHANGED <<routes, pathRoles, known, injectRole, setup, answering>>

----------------------------------------------------------------------------
(* A request.                                                               *)

Continue(where) == request' = [at |-> where, role |-> request.role, index |-> 1]

\* The role of the path, or the one its multiRoleHandler chooses.
FindRole(p) ==
    /\ request.at = "routing"
    /\ routes = <<>> /\ toInject = NoHandlers
    /\ pathRoles[p] # NoRole
    /\ \E x \in IF p \in multi THEN Roles \cup {NoRole} ELSE {pathRoles[p]} :
         request' = [request EXCEPT !.at = IF x \in known THEN "roleBefore" ELSE "done",
                                    !.role = x]
    /\ UNCHANGED <<setup, routing, ran, aborted>>

List ==
    LET x == request.role
    IN  [roleBefore |-> roles[x].before, groupBefore |-> groups[x].before,
         groupAfter |-> groups[x].after, roleAfter |-> roles[x].after]

Lists == {"roleBefore", "groupBefore", "groupAfter", "roleAfter"}
InList == request.at \in Lists
ThisList == List[request.at]

\* h runs; it may call AbortAction.
Run(h) ==
    /\ ran' = Append(ran, h)
    /\ aborted' \in IF aborted = 0 THEN {0, Len(ran) + 1} ELSE {aborted}

\* ActionNext is looked at after each handler, never before the first one.
RunHandler ==
    /\ InList
    /\ request.index <= Len(ThisList)
    /\ Run(ThisList[request.index])
    /\ IF aborted' = 0
       THEN request' = [request EXCEPT !.index = @ + 1]
       ELSE Continue(AfterAbort(request.at))
    /\ UNCHANGED <<setup, routing>>

ListEnds ==
    /\ InList
    /\ request.index > Len(ThisList)
    /\ Continue(AfterList[request.at])
    /\ UNCHANGED <<setup, routing, ran, aborted>>

FindGroup ==
    /\ request.at = "group"
    /\ Continue(IF request.role \in grouped THEN "groupBefore" ELSE "done")
    /\ UNCHANGED <<setup, routing, ran, aborted>>

\* The action; an abort in it is noticed after the next handler.
CallAction ==
    /\ request.at = "action"
    /\ Run(Action)
    /\ Continue("groupAfter")
    /\ UNCHANGED <<setup, routing>>

ActionNotFound ==
    /\ request.at = "action"
    /\ Continue("roleAfter")
    /\ UNCHANGED <<setup, routing, ran, aborted>>

\* A handler or the action panics: gin's Recovery ends the request.
Panic ==
    /\ \/ InList /\ request.index <= Len(ThisList)
       \/ request.at = "action"
    /\ Continue("panicked")
    /\ UNCHANGED <<setup, routing, ran, aborted>>

Registering(x) ==
    \/ UseRoles(x)
    \/ UseGroups(x)
    \/ \E s \in Sides, o \in Orders :
          AddRoleHandler(x, s, o) \/ UseOnRole(x, s, o) \/ UseOnGroup(x, s, o)

ServeRequest ==
    \/ \E p \in Paths : FindRole(p)
    \/ RunHandler \/ ListEnds \/ FindGroup
    \/ CallAction \/ ActionNotFound \/ Panic

RoutingNext ==
    \/ \E x \in Decorated : Registering(x)
    \/ Start \/ AddRoute \/ (\E s \in Sides : Inject(s)) \/ ServeRequest

RoutingSpec == RoutingInit /\ [][RoutingNext]_routingVars

----------------------------------------------------------------------------
\* An action runs only after every before-handler of its role and its group
\* has run, those registered for a role that has a route included, whatever
\* the order of the registrations; each list in ascending order
\* (sunny.go lines 404-416 and 378-391, "order: the smaller, the earlier").
GuardsPassed ==
    \A i \in DOMAIN ran :
        ran[i] = Action =>
            LET x == request.role
                Before == {ran[j] : j \in 1..i - 1}
                Routed == \E p \in Paths : pathRoles[p] = x
            IN  /\ ToSet(roles[x].before) \cup ToSet(groups[x].before) \subseteq Before
                /\ Routed => ToSet(registered[x].before) \subseteq Before
                /\ \A lists \in {roles[x], groups[x]}, j, k \in 1..i - 1 :
                     j < k /\ {ran[j], ran[k]} \subseteq ToSet(lists.before) =>
                         ran[j].order <= ran[k].order

\* After an abort no before-handler and no action runs any more, and of the
\* after-handlers only the first of the group, if it was the action that
\* aborted, and the first of the role (group.go lines 80-105, role.go 60-84).
AbortStops ==
    aborted # 0 =>
        LET x == request.role
            First(list) == {list[i] : i \in DOMAIN list \cap {1}}
        IN  /\ Len(ran) <= aborted + 2
            /\ \A i \in aborted + 1..Len(ran) :
                 \/ ran[i] \in First(roles[x].after)
                 \/ ran[aborted] = Action /\ i = aborted + 1 /\ ran[i] \in First(groups[x].after)
============================================================================
