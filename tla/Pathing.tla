------------------------------- MODULE Pathing -------------------------------
(***************************************************************************)
(* The pathing service: what it answers to a PathRequest.  If the tiles on *)
(* the line from start to end are free the answer is the line, otherwise   *)
(* A* looks for a route from tile to tile, the edges it crosses become     *)
(* portals, and the funnel pulls a string through them.  One action is one *)
(* turn of a loop.                                                         *)
(*                                                                         *)
(* Points are in whole units with the origin at a corner of the map; the   *)
(* costs of A*, floating-point numbers in the code, are in thousandths.    *)
(* Equal costs leave the heap in any order.  A request with a point off    *)
(* the map is not answered and changes nothing.                            *)
(***************************************************************************)
EXTENDS Integers, Sequences, FiniteSets

CONSTANTS
  Width, Height,  \* of the map in tiles
  TileSize,       \* in units
  Padding,        \* from the end of a tile's edge to that of its portal
  Maps,           \* the sets of walls the map can have
  Spots,          \* where in a tile, from its corner, a point can be
  NoSearch        \* the funnel before there is a route

ASSUME MapAssumption ==
  /\ Width \in Nat \ {0} /\ Height \in Nat \ {0}
  /\ TileSize \in Nat /\ Padding \in Nat /\ 2 * Padding < TileSize
  /\ Spots \subseteq (0 .. TileSize - 1) \X (0 .. TileSize - 1)

VARIABLES
  walls,       \* the tiles no node of the graph stands for
  phase,       \* "idle", "search", "funnel" or "done"
  start, end,  \* the points of the request
  open,        \* open_set: the heap of A*
  g_score,     \* g_score[n]: the steps of the shortest way found to n
  came_from,   \* came_from[n]: the tile before n on it
  route,       \* the tiles A* has found
  funnel,      \* the local variables of run_funnel, or NoSearch
  path         \* the points of the answer

searchVars == << open, g_score, came_from >>
pathingVars == << walls, phase, start, end, searchVars, route, funnel, path >>

Tiles == (0 .. Width - 1) \X (0 .. Height - 1)
Points == (0 .. Width * TileSize - 1) \X (0 .. Height * TileSize - 1)
Free == Tiles \ walls
TileOf(p) == << p[1] \div TileSize, p[2] \div TileSize >>
PointIn(n, spot) == << n[1] * TileSize + spot[1], n[2] * TileSize + spot[2] >>

Abs(x) == IF x < 0 THEN -x ELSE x
Manhattan(n, o) == Abs(n[1] - o[1]) + Abs(n[2] - o[2])
Neighbors(n) == {o \in Free : n \in Free /\ Manhattan(n, o) = 1}

PathingInit ==
  /\ walls \in Maps
  /\ phase = "idle"
  /\ start = << 0, 0 >> /\ end = << 0, 0 >>
  /\ open = {}
  /\ g_score = [n \in {} |-> 0]
  /\ came_from = [n \in {} |-> n]
  /\ route = << >>
  /\ funnel = NoSearch
  /\ path = << >>
----------------------------------------------------------------------------
(***************************************************************************)
(* has_line_of_sight.                                                      *)
(***************************************************************************)

\* The tiles of the line from n to o, by Bresenham's algorithm: in one step
\* both coordinates may change.
Line(n, o) ==
  LET dx == Abs(o[1] - n[1])
      dy == -Abs(o[2] - n[2])
      sx == IF n[1] < o[1] THEN 1 ELSE -1
      sy == IF n[2] < o[2] THEN 1 ELSE -1
      steps == IF dx > -dy THEN dx ELSE -dy
      at[k \in 0 .. steps] ==
        IF k = 0 THEN [tile |-> n, err |-> dx + dy]
        ELSE LET p == at[k - 1]
                 inX == 2 * p.err >= dy
                 inY == 2 * p.err <= dx
             IN  [tile |-> << p.tile[1] + (IF inX THEN sx ELSE 0),
                              p.tile[2] + (IF inY THEN sy ELSE 0) >>,
                  err |-> p.err + (IF inX THEN dy ELSE 0) + (IF inY THEN dx ELSE 0)]
  IN  {at[k].tile : k \in 0 .. steps}

HasLineOfSight(n, o) == Line(n, o) \subseteq Free

HandlePathRequest(s, e) ==
  /\ phase = "idle"
  /\ start' = s /\ end' = e
  /\ IF HasLineOfSight(TileOf(s), TileOf(e))
     THEN /\ phase' = "done" /\ path' = << s, e >>
          /\ UNCHANGED searchVars
     ELSE /\ phase' = "search"
          /\ open' = {[node |-> TileOf(s), f |-> 0, g |-> 0]}
          /\ g_score' = [n \in {TileOf(s)} |-> 0]
          /\ UNCHANGED << came_from, path >>
  /\ UNCHANGED << walls, route, funnel >>
----------------------------------------------------------------------------
(***************************************************************************)
(* run_a_star.                                                             *)
(***************************************************************************)

\* Mutant: the distance left counts twice.
Cost_Twice(n, g) == 1000 * g + 2000 * Manhattan(n, TileOf(end))

\* The steps made and 1.001 times the distance left.
Cost(n, g) == 1000 * g + 1001 * Manhattan(n, TileOf(end))

Cheapest == {c \in open : \A o \in open : c.f <= o.f}

Stale(c) == c.g > g_score[c.node]

\* The neighbours c gives a shorter way to.
Improved(c) == {n \in Neighbors(c.node) : n \in DOMAIN g_score => c.g + 1 < g_score[n]}

Extend(f, S, v) == [n \in DOMAIN f \cup S |-> IF n \in S THEN v ELSE f[n]]

Searches == phase = "search" /\ UNCHANGED << walls, start, end >>

Skip(c) ==
  /\ Searches /\ c \in Cheapest /\ c.node # TileOf(end) /\ Stale(c)
  /\ TileOf(end) \in Free
  /\ open' = open \ {c}
  /\ UNCHANGED << phase, g_score, came_from, route, funnel, path >>

Expand(c) ==
  /\ Searches /\ c \in Cheapest /\ c.node # TileOf(end) /\ ~Stale(c)
  /\ TileOf(end) \in Free
  /\ open' = (open \ {c}) \cup {[node |-> n, f |-> Cost(n, c.g + 1), g |-> c.g + 1]
                                : n \in Improved(c)}
  /\ g_score' = Extend(g_score, Improved(c), c.g + 1)
  /\ came_from' = Extend(came_from, Improved(c), c.node)
  /\ UNCHANGED << phase, route, funnel, path >>

\* Mutant: only an end that is a wall is given up.
GiveUp_Walls ==
  /\ Searches /\ TileOf(end) \notin Free
  /\ phase' = "done" /\ path' = << start, end >>
  /\ UNCHANGED << searchVars, route, funnel >>

\* No route: the answer is the line though it is blocked.
GiveUp ==
  /\ Searches /\ (TileOf(end) \notin Free \/ open = {})
  /\ phase' = "done" /\ path' = << start, end >>
  /\ UNCHANGED << searchVars, route, funnel >>

\* The way back along came_from.
Back == LET to[n \in Tiles] ==
              IF n \in DOMAIN came_from THEN Append(to[came_from[n]], n) ELSE << n >>
        IN  to[TileOf(end)]
----------------------------------------------------------------------------
(***************************************************************************)
(* build_portals_from_nodes and run_funnel.                                *)
(***************************************************************************)

\* Mutant: the padding goes outwards.
Portal_Outwards(n, o) ==
  LET x == n[1] * TileSize
      y == n[2] * TileSize
      near == -Padding
      far == TileSize + Padding
  IN  CASE o[1] > n[1] -> [left |-> << x + TileSize, y + far >>, right |-> << x + TileSize, y + near >>]
        [] o[1] < n[1] -> [left |-> << x, y + near >>, right |-> << x, y + far >>]
        [] o[2] > n[2] -> [left |-> << x + near, y + TileSize >>, right |-> << x + far, y + TileSize >>]
        [] o[2] < n[2] -> [left |-> << x + far, y >>, right |-> << x + near, y >>]

\* The edge between two neighbouring tiles as it is seen on the way from n to o.
Portal(n, o) ==
  LET x == n[1] * TileSize
      y == n[2] * TileSize
      near == Padding
      far == TileSize - Padding
  IN  CASE o[1] > n[1] -> [left |-> << x + TileSize, y + far >>, right |-> << x + TileSize, y + near >>]
        [] o[1] < n[1] -> [left |-> << x, y + near >>, right |-> << x, y + far >>]
        [] o[2] > n[2] -> [left |-> << x + near, y + TileSize >>, right |-> << x + far, y + TileSize >>]
        [] o[2] < n[2] -> [left |-> << x + far, y >>, right |-> << x + near, y >>]

portals == [j \in 1 .. Len(route) - 1 |-> Portal(route[j], route[j + 1])]

Reconstruct(c) ==
  /\ Searches /\ c \in Cheapest /\ c.node = TileOf(end) /\ TileOf(end) \in Free
  /\ route' = Back
  /\ LET first == Portal(route'[1], route'[2])
     IN  funnel' = [apex |-> start, left |-> first.left, right |-> first.right,
                    left_index |-> 1, right_index |-> 1, i |-> 2]
  /\ phase' = "funnel" /\ path' = << start >>
  /\ UNCHANGED searchVars

\* The sign says on which side of the line from o through a the point b lies.
CrossProduct(o, a, b) ==
  (a[1] - o[1]) * (b[2] - o[2]) - (a[2] - o[2]) * (b[1] - o[1])

Pulls == phase = "funnel" /\ UNCHANGED << walls, start, end, searchVars, route >>
Turns == Pulls /\ funnel.i <= Len(portals)
Here == portals[funnel.i]

TightensRight == CrossProduct(funnel.apex, funnel.right, Here.right) <= 0
CrossesLeft == /\ TightensRight /\ funnel.apex # funnel.left
               /\ CrossProduct(funnel.apex, funnel.left, Here.right) <= 0
NewRight == IF TightensRight THEN Here.right ELSE funnel.right

TightensLeft == CrossProduct(funnel.apex, funnel.left, Here.left) >= 0
CrossesRight == /\ TightensLeft /\ funnel.apex # NewRight
                /\ CrossProduct(funnel.apex, NewRight, Here.left) >= 0

\* The funnel after a corner on the portal at; the sides stay if it is the last.
FunnelFrom(corner, at, sides) ==
  LET next == IF at + 1 <= Len(portals) THEN portals[at + 1] ELSE sides
  IN  [apex |-> corner, left |-> next.left, right |-> next.right,
       left_index |-> at, right_index |-> at, i |-> at + 1]

TurnLeft ==
  /\ Turns /\ CrossesLeft
  /\ path' = Append(path, funnel.left)
  /\ funnel' = FunnelFrom(funnel.left, funnel.left_index,
                       [left |-> funnel.left, right |-> funnel.right])
  /\ UNCHANGED phase

\* The right side has been tightened already.
TurnRight ==
  /\ Turns /\ ~CrossesLeft /\ CrossesRight
  /\ funnel' = FunnelFrom(NewRight, IF TightensRight THEN funnel.i ELSE funnel.right_index,
                       [left |-> funnel.left, right |-> NewRight])
  /\ path' = Append(path, NewRight)
  /\ UNCHANGED phase

GoStraight ==
  /\ Turns /\ ~CrossesLeft /\ ~CrossesRight
  /\ funnel' = [funnel EXCEPT
                  !.right = NewRight,
                  !.right_index = IF TightensRight THEN funnel.i ELSE @,
                  !.left = IF TightensLeft THEN Here.left ELSE @,
                  !.left_index = IF TightensLeft THEN funnel.i ELSE @,
                  !.i = @ + 1]
  /\ UNCHANGED << phase, path >>

\* Whatever is left of the funnel, the end is the last point.
Answer ==
  /\ Pulls /\ funnel.i > Len(portals)
  /\ phase' = "done" /\ path' = Append(path, end)
  /\ UNCHANGED funnel
----------------------------------------------------------------------------
Requests == \E n, o \in Tiles, s, e \in Spots : HandlePathRequest(PointIn(n, s), PointIn(o, e))

Turn ==
  \/ \E c \in open : Skip(c) \/ Expand(c) \/ Reconstruct(c)
  \/ GiveUp
  \/ TurnLeft
  \/ TurnRight
  \/ GoStraight
  \/ Answer

PathingNext == Requests \/ Turn

PathingSpec == PathingInit /\ [][PathingNext]_pathingVars

\* The service computes until it has the answer.
PathingFairSpec == PathingSpec /\ WF_pathingVars(Turn)
----------------------------------------------------------------------------
(***************************************************************************)
(* What the answers are measured by.                                       *)
(***************************************************************************)

\* The tiles within k steps of n.
Within(n, k) ==
  LET ball[j \in 0 .. k] ==
        IF j = 0 THEN {n} \cap Free
        ELSE UNION {{o \in Free : Manhattan(m, o) <= 1} : m \in ball[j - 1]}
  IN  ball[k]

\* The segment from p to q and the inside of the tile n have a point in common.
CutsInto(p, q, n) ==
  LET x == n[1] * TileSize
      y == n[2] * TileSize
      corners == {x, x + TileSize} \X {y, y + TileSize}
  IN  /\ p[1] > x \/ q[1] > x
      /\ p[1] < x + TileSize \/ q[1] < x + TileSize
      /\ p[2] > y \/ q[2] > y
      /\ p[2] < y + TileSize \/ q[2] < y + TileSize
      /\ \E c \in corners : CrossProduct(p, q, c) > 0
      /\ \E c \in corners : CrossProduct(p, q, c) < 0

ClearUpTo(k) ==
  \A j \in 1 .. k - 1, n \in walls : ~CutsInto(path[j], path[j + 1], n)

\* A* finds a route of free tiles, each next to the one before, and no other is
\* shorter by more than a thousandth (by nothing, up to a thousand steps), although
\* the heuristic overestimates and entries of the heap go stale; it gives up only
\* if there is no route.
ShortestRoute ==
  /\ route # << >> =>
       /\ route[1] = TileOf(start) /\ route[Len(route)] = TileOf(end)
       /\ \A j \in 1 .. Len(route) : route[j] \in Free
       /\ \A j \in 1 .. Len(route) - 1 : Manhattan(route[j], route[j + 1]) = 1
       /\ \A k \in 0 .. Len(route) - 2 : TileOf(end) \in Within(TileOf(start), k) =>
            1000 * (Len(route) - 1) <= 1001 * k
  /\ phase = "done" /\ route = << >> /\ ~HasLineOfSight(TileOf(start), TileOf(end)) =>
       TileOf(end) \notin Within(TileOf(start), Cardinality(Free))

\* The string the funnel pulls cuts through no wall up to its last corner.
CornersAreClear ==
  route # << >> => ClearUpTo(IF phase = "done" THEN Len(path) - 1 ELSE Len(path))

\* What Architecture.md says of the service: a route that was found is smoothed
\* to a path free of obstacles, to its end.
PathIsClear == route # << >> /\ phase = "done" => ClearUpTo(Len(path))

\* Every request on the map is answered: neither loop turns for ever.
EveryRequestIsAnswered == (phase \in {"search", "funnel"}) ~> (phase = "done")
=============================================================================
