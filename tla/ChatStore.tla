------------------------------ MODULE ChatStore ------------------------------
(***************************************************************************)
(* The tables of the chat server's database and the statements that        *)
(* UserModel, FriendModel and GroupModel execute on them.                  *)
(*                                                                         *)
(* A table is the sequence of its rows, and the AUTO_INCREMENT id of a row *)
(* of user or allgroup is its position.  chat.sql makes user.name and      *)
(* allgroup.groupname unique; friend and groupuser have no unique and no   *)
(* foreign key, so a row may be there twice and may name what does not     *)
(* exist.  Every method opens a connection of its own, whose failure it    *)
(* reports, if at all, as the failure of its statement: with DbFails a     *)
(* method may leave the tables alone, and a query may find nothing.        *)
(***************************************************************************)
EXTENDS Naturals, Sequences, FiniteSets, SequencesExt

CONSTANTS Name,       \* names of users
          GroupName,  \* names of groups
          MaxRows,    \* bound: rows of user and of allgroup
          MaxLinks,   \* bound: rows of friend and groupuser together
          DbFails     \* MySQL::connect() and the statements may fail

ASSUME StoreAssumption ==
  /\ IsFiniteSet(Name)
  /\ MaxRows \in Nat \ {0} /\ MaxLinks \in Nat /\ DbFails \in BOOLEAN

Id == 1..MaxRows

UserRow == [name : Name, state : {"online", "offline"}]
FriendRow == [userid : Id, friendid : Id]
GroupUserRow == [groupid : Id, userid : Id, role : {"creator", "normal"}]

TableType ==
  [user : Seq(UserRow), friend : Seq(FriendRow), allgroup : Seq(GroupName),
   groupuser : Seq(GroupUserRow)]

-----------------------------------------------------------------------------
(* A method that changes t yields the set of its outcomes: the tables it   *)
(* may leave and the id it reports, 0 when it returns false.               *)

Outcome(t, id) == [tables |-> t, id |-> id]

\* MySQL::connect() and MySQL::update(): nothing happens, or the new tables
Update(t, new, id) ==
  {Outcome(new, id)} \union (IF DbFails THEN {Outcome(t, 0)} ELSE {})

Refused(t) == {Outcome(t, 0)}

\* The bound on the two tables that have no key: an insert beyond it fails.
Full(t) == Len(t.friend) + Len(t.groupuser) = MaxLinks

\* UserModel::insert(): the state of a new row is "offline"
UserInsert(t, name) ==
  IF Len(t.user) = MaxRows \/ \E i \in DOMAIN t.user : t.user[i].name = name
  THEN Refused(t)
  ELSE Update(t, [t EXCEPT !.user =
                    Append(@, [name |-> name, state |-> "offline"])],
              Len(t.user) + 1)

\* UserModel::updateState()
UpdateState(t, id, state) ==
  IF id \in DOMAIN t.user
  THEN Update(t, [t EXCEPT !.user[id].state = state], id)
  ELSE Refused(t)

\* FriendModel::insert()
FriendInsert(t, userid, friendid) ==
  IF Full(t) THEN Refused(t)
  ELSE Update(t, [t EXCEPT !.friend =
                    Append(@, [userid |-> userid, friendid |-> friendid])],
              userid)

\* GroupModel::createGroup()
CreateGroup(t, name) ==
  IF Len(t.allgroup) = MaxRows \/ name \in ToSet(t.allgroup) THEN Refused(t)
  ELSE Update(t, [t EXCEPT !.allgroup = Append(@, name)], Len(t.allgroup) + 1)

\* GroupModel::addGroup()
AddGroup(t, userid, groupid, role) ==
  IF Full(t) THEN Refused(t)
  ELSE Update(t, [t EXCEPT !.groupuser =
                    Append(@, [groupid |-> groupid, userid |-> userid,
                               role |-> role])],
              userid)

-----------------------------------------------------------------------------
(* The queries: what the rows say, or nothing when the query fails.        *)

\* The rows at some positions of a table: no statement has an ORDER BY.
Rows(table, positions) ==
  LET order == SetToSeq(positions) IN [i \in DOMAIN order |-> table[order[i]]]

Column(rows, field) == [i \in DOMAIN rows |-> rows[i][field]]

\* FriendModel::query(): user inner join friend, by the friend's id
FriendRows(t, userid) ==
  {i \in DOMAIN t.friend : /\ t.friend[i].userid = userid
                           /\ t.friend[i].friendid \in DOMAIN t.user}

Friends(t, userid) == Column(Rows(t.friend, FriendRows(t, userid)), "friendid")

\* GroupModel::queryGroups(), first statement: allgroup inner join groupuser
GroupRows(t, userid) ==
  {i \in DOMAIN t.groupuser : /\ t.groupuser[i].userid = userid
                              /\ t.groupuser[i].groupid \in DOMAIN t.allgroup}

GroupsOf(t, userid) == Column(Rows(t.groupuser, GroupRows(t, userid)), "groupid")

\* The second one, for each of the groups: user inner join groupuser
MemberRows(t, groupid) ==
  {i \in DOMAIN t.groupuser : /\ t.groupuser[i].groupid = groupid
                              /\ t.groupuser[i].userid \in DOMAIN t.user}

Members(t, groupid) ==
  LET rows == Rows(t.groupuser, MemberRows(t, groupid))
  IN  [i \in DOMAIN rows |-> [id |-> rows[i].userid, role |-> rows[i].role]]

\* MySQL::query(): a failure looks like an empty result
Query(result) == {result} \union (IF DbFails THEN {<<>>} ELSE {})

\* GroupModel::queryGroups(): each of its statements may fail by itself.
QueryGroups(t, userid) ==
  UNION {{[i \in DOMAIN ids |->
             [id |-> ids[i],
              users |-> IF i \in lost THEN <<>> ELSE Members(t, ids[i])]] :
            lost \in SUBSET {i \in DOMAIN ids : DbFails}} :
           ids \in Query(GroupsOf(t, userid))}
=============================================================================
