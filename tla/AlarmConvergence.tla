--------------------------- MODULE AlarmConvergence ---------------------------
(***************************************************************************)
(* Alarm convergence of the rca-agent: the alarms of one request become    *)
(* one or more incidents.  Alarms of the same fingerprint collapse, the    *)
(* rest is grouped by site and time window, and groups are merged along    *)
(* parent-child and upstream declarations and the topology graph.          *)
(*                                                                         *)
(* An alarm is a record [id, fp, site, cell, at (minutes), parent,         *)
(* upstream (sites), severity (0 is critical)]; its start time is one that *)
(* can be parsed.  A request has [window, lag, topology] in minutes and    *)
(* the graph, a function from sites to the sites upstream of them.         *)
(***************************************************************************)
EXTENDS Integers, Sequences, FiniteSets, FiniteSetsExt, SequencesExt

CONSTANT NoParent

(* The first alarm of every fingerprint.                                   *)
DedupByFingerprint(alarms) ==
    LET firsts == {i \in DOMAIN alarms : \A j \in 1 .. i - 1 : alarms[j].fp # alarms[i].fp}
        order == SetToSortSeq(firsts, <)
    IN  [k \in DOMAIN order |-> alarms[order[k]]]

Position(alarms, e) == CHOOSE i \in DOMAIN alarms : alarms[i] = e
SiteRank(alarms, site) == Min({i \in DOMAIN alarms : alarms[i].site = site})

(* Within a site, an alarm joins the last group while it starts within the *)
(* window of the group's first one.                                        *)
JoinGroup(groups, e, window) ==
    LET last == Last(groups)
    IN  IF groups # << >> /\ last[1].site = e.site /\ e.at - last[1].at <= window
        THEN Append(Front(groups), Append(last, e))
        ELSE Append(groups, << e >>)

GroupBySiteAndWindow(alarms, window) ==
    LET Before(e, f) ==
            \/ SiteRank(alarms, e.site) < SiteRank(alarms, f.site)
            \/ e.site = f.site /\ e.at < f.at
            \/ e.site = f.site /\ e.at = f.at /\ Position(alarms, e) < Position(alarms, f)
        Earlier(g, h) ==
            \/ g[1].at < h[1].at
            \/ g[1].at = h[1].at /\ SiteRank(alarms, g[1].site) < SiteRank(alarms, h[1].site)
        bySite == FoldLeft(LAMBDA groups, e : JoinGroup(groups, e, window), << >>,
                           SortSeq(alarms, Before))
    IN  SortSeq(bySite, Earlier)

(* A child starts no earlier than its parent and no later than the lag.    *)
ChildOf(e, p, lag) == /\ e.parent = p.id /\ e.site = p.site /\ e.cell = p.cell
                      /\ e.at - p.at \in 0 .. lag

(* The group a group is merged into for the parents of its alarms: its     *)
(* last child decides, and an id names the alarm of the last group with it.*)
ParentTargets(groups, lag) ==
    LET Named(pid) == {g \in DOMAIN groups : \E p \in Range(groups[g]) : p.id = pid}
        First(g, pid) == SelectInSeq(groups[g], LAMBDA p : p.id = pid)
        Holder(e) == Max(Named(e.parent))
        Moves(g, e) == /\ Named(e.parent) # {} /\ Holder(e) # g
                       /\ ChildOf(e, groups[Holder(e)][First(Holder(e), e.parent)], lag)
        Movers(g) == {k \in DOMAIN groups[g] : Moves(g, groups[g][k])}
    IN  [g \in {h \in DOMAIN groups : Movers(h) # {}} |-> Holder(groups[g][Max(Movers(g))])]

(* An alarm on a site upstream of another one goes to the group of that    *)
(* one: the first group that names the site, within the window, or else    *)
(* the first group the graph puts downstream of it, at any time.           *)
Upstream(e, f, window) == f.site \in e.upstream /\ e.at - f.at \in -window .. window
GraphUpstream(e, f, graph) == f.site \in graph[e.site]

TopologyTargets(groups, window, graph) ==
    LET Declaring(h) == {g \in DOMAIN groups \ {h} : \E e \in Range(groups[g]), f \in Range(groups[h]) :
                             Upstream(e, f, window)}
        Downstream(h) == {g \in DOMAIN groups \ {h} : \E e \in Range(groups[g]), f \in Range(groups[h]) :
                             GraphUpstream(e, f, graph)}
    IN  [h \in {g \in DOMAIN groups : Declaring(g) \cup Downstream(g) # {}} |->
            Min(IF Declaring(h) # {} THEN Declaring(h) ELSE Downstream(h))]

(* The group at the end of a chain of targets, which is followed for 33    *)
(* steps at most.                                                          *)
Follow(target, g) == IF g \in DOMAIN target THEN target[g] ELSE g
RootOfOne(target, g) == Follow(target, g)   \* mutant: chains are followed for one step
Root(target, g) ==
    LET walk[n \in 0 .. 33] == IF n = 0 THEN g ELSE Follow(target, walk[n - 1])
    IN  walk[33]

(* The groups of a common end become one, in the order of their earliest   *)
(* alarms; the sort keeps the order in which the ends were met.            *)
ApplyGroupMerges(groups, target) ==
    LET root == [g \in DOMAIN groups |-> Root(target, g)]
        Members(r) == SetToSortSeq({g \in DOMAIN groups : root[g] = r}, <)
        bucket == [r \in Range(root) |-> FlattenSeq([k \in DOMAIN Members(r) |-> groups[Members(r)[k]]])]
        Earliest(r) == Min({e.at : e \in Range(bucket[r])})
        Before(r, s) == \/ Earliest(r) < Earliest(s)
                        \/ Earliest(r) = Earliest(s) /\ Members(r)[1] < Members(s)[1]
        order == SetToSortSeq(Range(root), Before)
    IN  IF target = << >> THEN groups ELSE [k \in DOMAIN order |-> bucket[order[k]]]

MergeParentChild(groups, lag) ==
    IF lag = 0 THEN groups ELSE ApplyGroupMerges(groups, ParentTargets(groups, lag))
MergeByTopology(groups, window, graph) ==
    IF window = 0 THEN groups ELSE ApplyGroupMerges(groups, TopologyTargets(groups, window, graph))

Survivors(alarms, request) == GroupBySiteAndWindow(DedupByFingerprint(alarms), request.window)
Converge(alarms, request) ==
    MergeByTopology(MergeParentChild(Survivors(alarms, request), request.lag),
                    request.topology, request.graph)

(* The first of the most severe alarms, in the order of the group.         *)
PrimaryAlarm(group) ==
    LET worst == Min({e.severity : e \in Range(group)})
    IN  group[SelectInSeq(group, LAMBDA e : e.severity = worst)]

-----------------------------------------------------------------------------
(* What the merges are for, said of the groups and the links between them. *)

ParentLink(g, h, lag) == g # h /\ \E e \in Range(g), p \in Range(h) : ChildOf(e, p, lag)
UpstreamLink(g, h, request) ==
    g # h /\ \E e \in Range(h), f \in Range(g) :
                \/ Upstream(e, f, request.topology) \/ GraphUpstream(e, f, request.graph)

(* Do the links lead from a group back to it?                              *)
Circular(groups, Link(_, _)) ==
    \E c \in SUBSET Range(groups) : c # {} /\ \A g \in c : \E h \in c : Link(g, h)

(* Unless links are circular, every group that has links ends beside one   *)
(* it is linked with, and groups end together only along links.            *)
FollowsLinks(before, after, Link(_, _)) ==
    LET Together(g, h) == \E i \in DOMAIN after : Range(g) \cup Range(h) \subseteq Range(after[i])
    IN  \/ Circular(before, Link)
        \/ \A g \in Range(before) :
               /\ (\E h \in Range(before) : Link(g, h)) =>
                      \E h \in Range(before) : Link(g, h) /\ Together(g, h)
               /\ (\E h \in Range(before) \ {g} : Together(g, h)) =>
                      \E h \in Range(before) \ {g} : Together(g, h) /\ (Link(g, h) \/ Link(h, g))

(* Nothing is lost and nothing is counted twice.                           *)
Partitions(groups, alarms) ==
    /\ \A a \in Range(alarms) : \E i \in DOMAIN groups : \E e \in Range(groups[i]) : e.fp = a.fp
    /\ \A i, j \in DOMAIN groups : \A k \in DOMAIN groups[i], l \in DOMAIN groups[j] :
           groups[i][k].fp = groups[j][l].fp => i = j /\ k = l
=============================================================================
