------------------------------- MODULE GroupStore -------------------------------
(***************************************************************************)
(* The SCIM group directory (store/groups.go, server/scim_groups.go), and  *)
(* a client that pages through it the way the SDK does.  A group is its    *)
(* display name under an id.                                               *)
(***************************************************************************)
EXTENDS Files, Naturals, FiniteSets

CONSTANTS DisplayNames,
          NoGroup,     \* no group under this id
          MaxGroups,   \* bound on the ids given out
          PageSize     \* count of the client that pages

VARIABLES
    group,      \* Groups.all
    nextID,     \* Groups.nextID
    groupFile,  \* groups/state.json
    named,      \* the name each id was given out for
    pager       \* the client that pages

groupVars == <<group, nextID, groupFile, named, pager>>

Id     == 1..MaxGroups
Groups == [Id -> DisplayNames \cup {NoGroup}]
Directory == [all : Groups, nextID : 0..MaxGroups]
Index  == 1..(MaxGroups + 1)
Pager  == [on : BOOLEAN, startIndex : Index, seen : SUBSET Id,
           had : SUBSET Id]    \* the groups that were there when it began

ASSUME GroupAssumption ==
    /\ NoGroup \notin DisplayNames
    /\ MaxGroups \in Nat
    /\ PageSize \in Nat \ {0}
    /\ \A x \in {Absent, Torn} : x \notin Directory

GroupTypeOK ==
    /\ group \in Groups
    /\ nextID \in 0..MaxGroups
    /\ groupFile \in Directory \cup {Absent, Torn}
    /\ named \in Groups
    /\ pager \in Pager

NoGroups == [i \in Id |-> NoGroup]
NotPaging == [on |-> FALSE, startIndex |-> 1, seen |-> {}, had |-> {}]

GroupInit ==
    /\ group = NoGroups
    /\ nextID = 0
    /\ groupFile = Absent
    /\ named = NoGroups
    /\ pager = NotPaging

DirectoryOnFile == IF groupFile = Absent THEN [all |-> NoGroups, nextID |-> 0] ELSE groupFile

StoredNextID_Counted(d) == Cardinality({i \in Id : d.all[i] # NoGroup})
StoredNextID(d) == d.nextID

\* openGroups; a file that does not parse ends the start, see DataDir.
openGroups ==
    /\ group' = DirectoryOnFile.all
    /\ nextID' = StoredNextID(DirectoryOnFile)
    /\ pager' = NotPaging
    /\ UNCHANGED <<groupFile, named>>

persistGroups(all, next) == WriteFile(groupFile, [all |-> all, nextID |-> next])

--------------------------------------------------------------------------------
(* Create and Delete                                                           *)

NameIsFree(d) == \A i \in Id : group[i] # d

\* A group that could not be persisted is taken back; its id is not.
Create(d) ==
    /\ nextID < MaxGroups
    /\ NameIsFree(d)
    /\ nextID' = nextID + 1
    /\ LET made == [group EXCEPT ![nextID + 1] = d]
       IN \E o \in persistGroups(made, nextID + 1) :
             /\ groupFile' = o.file
             /\ ServedOn(o)
             /\ group' = IF o.end = "error" THEN group ELSE made
             /\ named' = IF o.end = "ok" THEN [named EXCEPT ![nextID + 1] = d] ELSE named
    /\ UNCHANGED pager

scimGroupsCreate(d) == proc = "up" /\ Create(d)

\* A group whose removal could not be persisted is gone from memory, and the
\* client is told there is no such group.  Positions after it shift, so a
\* client that pages cannot be promised the ones it has not seen.
Delete(i) ==
    /\ group[i] # NoGroup
    /\ group' = [group EXCEPT ![i] = NoGroup]
    /\ \E o \in persistGroups(group', nextID) : groupFile' = o.file /\ ServedOn(o)
    /\ pager' = [pager EXCEPT !.had = @ \cap pager.seen]
    /\ UNCHANGED <<nextID, named>>

scimGroupsDelete(i) == proc = "up" /\ Delete(i)

--------------------------------------------------------------------------------
(* Listing                                                                     *)

\* List sorts by id, so a group comes after those of lesser ids.
List == {i \in Id : group[i] # NoGroup}
Position(all, i) == Cardinality({j \in all : j <= i})

\* scimGroupsList: 1-based startIndex, and at most count groups.
PageOf_ZeroBased(all, start, count) ==
    {i \in all : Position(all, i) \in (start + 1)..(start + count)}
PageOf(all, start, count) ==
    {i \in all : Position(all, i) \in start..(start + count - 1)}

StartPaging ==
    /\ proc = "up"
    /\ ~pager.on
    /\ pager' = [NotPaging EXCEPT !.on = TRUE, !.had = List]
    /\ UNCHANGED <<proc, group, nextID, groupFile, named>>

\* One request of the client, which stops at a short page.  Index bounds how
\* far it asks, and is one more than there can be groups.
scimGroupsList ==
    /\ proc = "up"
    /\ pager.on
    /\ LET page == PageOf(List, pager.startIndex, PageSize)
           next == pager.startIndex + Cardinality(page)
       IN pager' = [pager EXCEPT !.seen = @ \cup page,
                                 !.startIndex = IF next \in Index THEN next ELSE @,
                                 !.on = Cardinality(page) >= PageSize]
    /\ UNCHANGED <<proc, group, nextID, groupFile, named>>

--------------------------------------------------------------------------------
(* Properties                                                                  *)

\* An id that was given out names that group or none: not after a restart, nor
\* after a create that failed and was taken back, is it given to another.
IdsNameOneGroup ==
    /\ proc = "up" => \A i \in Id :
           named[i] # NoGroup /\ group[i] # NoGroup => group[i] = named[i]
    /\ groupFile # Torn => \A i \in Id :
           named[i] # NoGroup /\ DirectoryOnFile.all[i] # NoGroup
               => DirectoryOnFile.all[i] = named[i]

\* Two groups never have one display name: Create holds the lock from its look
\* at the names to its write, and a group that comes back after a restart
\* because its removal was never written comes back alone.
DisplayNamesDiffer ==
    proc = "up" => \A i, j \in Id : group[i] = group[j] /\ group[i] # NoGroup => i = j

\* Neither ids nor names ever stand for two groups.
GroupsStayApart == IdsNameOneGroup /\ DisplayNamesDiffer

\* A client that has read its short page has seen every group that was there
\* all along, unless one was deleted meanwhile.
PagingSeesAll ==
    proc = "up" /\ ~pager.on => pager.had \subseteq pager.seen
================================================================================
