-------------------------- MODULE SampleApiProofs ---------------------------
(***************************************************************************)
(* Proofs about SampleApi for every value of its constants.                *)
(***************************************************************************)
EXTENDS SampleApi, TLAPS, FiniteSetTheorems

-----------------------------------------------------------------------------
(* Calls and tables.                                                       *)

\* A call has the fields of its operation: what the generated wrapper decoded.
LEMMA CallFields ==
    ASSUME NEW call \in OpCalls
    PROVE  /\ call.op = "Login" => call \in LoginCalls
           /\ call.op = "ListUsers" => call \in ListUsersCalls
           /\ call.op = "CreateUser" => call \in CreateUserCalls
           /\ call.op = "GetUser" => call \in GetUserCalls
           /\ call.op = "UpdateUser" => call \in UpdateUserCalls
           /\ call.op = "ReplaceUser" => call \in ReplaceUserCalls
           /\ call.op = "DeleteUser" => call \in DeleteUserCalls
           /\ call.op = "ListPosts" => call \in ListPostsCalls
           /\ call.op = "CreatePost" => call \in CreatePostCalls
           /\ call.op = "GetPost" => call \in GetPostCalls
           /\ call.op = "ReplacePost" => call \in ReplacePostCalls
           /\ call.op = "DeletePost" => call \in DeletePostCalls
           /\ call.op = "ListComments" => call \in ListCommentsCalls
           /\ call.op = "CreateComment" => call \in CreateCommentCalls
           /\ call.op = "UpdateComment" => call \in UpdateCommentCalls
           /\ call.op = "DeleteComment" => call \in DeleteCommentCalls
BY DEF OpCalls, AllCalls, UserCalls, PostCalls, CommentCalls,
       LoginCalls, ListUsersCalls, CreateUserCalls, GetUserCalls, UpdateUserCalls,
       ReplaceUserCalls, DeleteUserCalls, ListPostsCalls, CreatePostCalls,
       GetPostCalls, ReplacePostCalls, DeletePostCalls, ListCommentsCalls,
       CreateCommentCalls, UpdateCommentCalls, DeleteCommentCalls

\* Live ids are ids of the table, and their entries are rows.
LEMMA LiveRows ==
    ASSUME NEW Ids, NEW Row, NEW table \in [Ids -> Row \cup {Fresh, Gone}]
    PROVE  /\ LiveIds(table) \subseteq Ids
           /\ FreshIds(table) \subseteq Ids
           /\ \A i \in LiveIds(table) : table[i] \in Row
BY DEF LiveIds, FreshIds

\* A deletion leaves a table of the same type.
LEMMA WithoutType ==
    ASSUME NEW Ids, NEW Row, NEW table \in [Ids -> Row \cup {Fresh, Gone}], NEW ids
    PROVE  Without(table, ids) \in [Ids -> Row \cup {Fresh, Gone}]
BY DEF Without, LiveIds

\* The four parts of the type invariant.
UsersOK    == users    \in [UserIds -> UserRows \cup {Fresh, Gone}]
PostsOK    == posts    \in [PostIds -> PostRows \cup {Fresh, Gone}]
CommentsOK == comments \in [CommentIds -> CommentRows \cup {Fresh, Gone}]
ReqOK ==
    /\ req \in [Clients -> Requests]
    /\ \A c \in Clients :
          /\ req[c].stage \in Running => req[c].call \in OpCalls
          /\ req[c].stage \in Running => Admitted(req[c].call, req[c].stage)
          /\ req[c].stage = "load" => req[c].rows \subseteq UserIds \X APIUsers

\* The type invariant is not inductive: what a statement writes has its type only
\* because the handler's checks came before it.
TypeInv == TypeOK /\ StatementsAreAdmitted

TablesOK == UsersOK /\ PostsOK /\ CommentsOK

LEMMA TypeInvParts ==
    /\ TypeInv <=> TablesOK /\ ReqOK
    /\ TypeInv' <=> TablesOK' /\ ReqOK'
BY DEF TypeInv, TypeOK, StatementsAreAdmitted, TablesOK, UsersOK, PostsOK, CommentsOK, ReqOK

-----------------------------------------------------------------------------
(* The steps of a request.                                                 *)

\* What the answer to a list sets in a request.
Listed(r, status, total) ==
    [r EXCEPT !.stage = "done", !.status = status, !.total = total]

LEMMA ListedType ==
    ASSUME NEW r \in Requests, NEW status \in HttpStatuses, NEW total \in Nat
    PROVE  Listed(r, status, total) \in Requests /\ Listed(r, status, total).stage = "done"
BY DEF Listed, Requests

\* An answer keeps the type of the requests.
LEMMA AnswerType ==
    ASSUME ReqOK, NEW c \in Clients, NEW status \in HttpStatuses,
           NEW rows \in SUBSET Resources, Answer(c, status, rows)
    PROVE  ReqOK'
<1>1. req[c] \in Requests /\ req'[c] = [req[c] EXCEPT !.stage = "done", !.status = status, !.rows = rows]
  BY DEF ReqOK, Answer
<1>a. status \in HttpStatuses \cup {0} /\ "done" \in Running \cup {"idle", "done"}
  OBVIOUS
<1>2. req'[c] \in Requests /\ req'[c].stage = "done"
  BY <1>1, <1>a DEF Requests
<1>3. \A d \in Clients \ {c} : req'[d] = req[d]
  BY DEF ReqOK, Answer
<1>4. req' \in [Clients -> Requests]
  BY <1>2, <1>3 DEF ReqOK, Answer
<1> QED
  BY <1>2, <1>3, <1>4 DEF ReqOK, Running

\* So does the answer to a list, with its total.
LEMMA AnswerListType ==
    ASSUME ReqOK, NEW c \in Clients, NEW total \in Nat, AnswerList(c, total)
    PROVE  ReqOK'
<1>1. req[c] \in Requests /\ req'[c] = Listed(req[c], 200, total)
  BY DEF ReqOK, AnswerList, Listed
<1>2. req'[c] \in Requests /\ req'[c].stage = "done"
  <2>1. 200 \in HttpStatuses
    BY DEF HttpStatuses
  <2> QED
    BY <1>1, <2>1, ListedType
<1>3. \A d \in Clients \ {c} : req'[d] = req[d]
  BY DEF ReqOK, AnswerList
<1>4. req' \in [Clients -> Requests]
  BY <1>2, <1>3 DEF ReqOK, AnswerList
<1> QED
  BY <1>2, <1>3, <1>4 DEF ReqOK, Running

\* And so does going on to the next statement.
LEMMA ContinueType ==
    ASSUME ReqOK, NEW c \in Clients, req[c].stage \in Running, NEW stage \in Running,
           NEW rows \in SUBSET Resources, Continue(c, stage, rows),
           Admitted(req[c].call, stage),
           stage = "load" => rows \subseteq UserIds \X APIUsers
    PROVE  ReqOK'
<1>1. req[c] \in Requests /\ req'[c] = [req[c] EXCEPT !.stage = stage, !.rows = rows]
  BY DEF ReqOK, Continue
<1>2. /\ req'[c] \in Requests /\ req'[c].call = req[c].call
      /\ req'[c].stage = stage /\ req'[c].rows = rows
  BY <1>1 DEF Requests
<1>3. \A d \in Clients \ {c} : req'[d] = req[d]
  BY DEF ReqOK, Continue
<1>4. req' \in [Clients -> Requests]
  BY <1>2, <1>3 DEF ReqOK, Continue
<1> QED
  BY <1>2, <1>3, <1>4 DEF ReqOK

\* The answers that carry no rows.
LEMMA BareAnswerType ==
    ASSUME ReqOK, NEW c \in Clients, NEW status \in HttpStatuses, Answer(c, status, {})
    PROVE  ReqOK'
BY AnswerType

LEMMA ServerErrorType ==
    ASSUME ReqOK, NEW c \in Clients, ServerError(c)
    PROVE  ReqOK'
BY BareAnswerType DEF ServerError, HttpStatuses

LEMMA AnswerWrittenType ==
    ASSUME ReqOK, NEW c \in Clients, NEW status \in HttpStatuses,
           NEW rows \in SUBSET Resources, AnswerWritten(c, status, rows)
    PROVE  ReqOK'
BY AnswerType, ServerErrorType DEF AnswerWritten

\* A request in service is one of its operation's calls.
LEMMA Served ==
    ASSUME ReqOK, NEW c \in Clients, NEW op, NEW stage \in Running, Serves(c, op, stage)
    PROVE  req[c].call \in OpCalls /\ req[c].call.op = op /\ req[c].stage \in Running
BY DEF ReqOK, Serves

\* A list needs no check.
LEMMA ListsAdmitted ==
    ASSUME NEW call, call.op \in ListOps, NEW stage
    PROVE  Admitted(call, stage)
BY DEF ListOps, Admitted

-----------------------------------------------------------------------------
(* The resources of the answers.                                           *)

LEMMA UserViews ==
    ASSUME UsersOK, NEW ids \in SUBSET LiveIds(users)
    PROVE  ViewUsers(ids) \subseteq Resources
<1>1. \A u \in ids : u \in UserIds /\ users[u] \in UserRows
  BY LiveRows DEF UsersOK
<1>2. \A u \in ids : toAPIUser(users[u], users[u].role) \in APIUsers
  BY <1>1 DEF UserRows, toAPIUser, APIUsers, Optional
<1> QED
  BY <1>1, <1>2 DEF ViewUsers, Resources

\* Counting comments gives a number: their ids are finitely many.
LEMMA CommentCounts ==
    ASSUME CommentsOK, NEW p
    PROVE  CommentCount(comments, p) \in Nat
<1>1. CommentsOn(comments, {p}) \subseteq CommentIds
  BY LiveRows DEF CommentsOn, CommentsOK
<1> QED
  BY <1>1, StoreAssumption, FS_Subset, FS_CardinalityType DEF CommentCount

LEMMA PostViews ==
    ASSUME PostsOK, CommentsOK, NEW ids \in SUBSET LiveIds(posts)
    PROVE  ViewPosts(ids) \subseteq Resources
<1>1. \A p \in ids : p \in PostIds /\ posts[p] \in PostRows
  BY LiveRows DEF PostsOK
<1>2. \A p \in ids : toAPIPost(posts[p], CommentCount(comments, p)) \in APIPosts
  BY <1>1, CommentCounts DEF PostRows, toAPIPost, APIPosts
<1> QED
  BY <1>1, <1>2 DEF ViewPosts, Resources

\* A row one of the tables may hold, for each of the rows a call can make.
LEMMA UserRowType ==
    ASSUME NEW call \in OpCalls, call.op \in {"CreateUser", "ReplaceUser"},
           call.password # None, call.role \in Roles, NEW salt \in Salts
    PROVE  /\ UserRow(call, salt) \in UserRows
           /\ toAPIUser(UserRow(call, salt), call.role) \in APIUsers
<1>1. call.email \in Emails /\ call.password \in Passwords
  BY CallFields DEF CreateUserCalls, ReplaceUserCalls, Optional
<1>2. UserRow(call, salt) \in UserRows
  BY <1>1 DEF UserRow, UserRows, Hashes, HashOf
<1> QED
  BY <1>1, <1>2 DEF UserRow, toAPIUser, APIUsers, Optional

LEMMA UpdatedRowType ==
    ASSUME NEW call \in OpCalls, call.op = "UpdateUser", call.role \in Optional(Roles),
           NEW row \in UserRows, NEW salt \in Salts
    PROVE  /\ UpdatedRow(call, row, salt) \in UserRows
           /\ toAPIUser(UpdatedRow(call, row, salt), UpdatedRow(call, row, salt).role) \in APIUsers
<1>1. call.email \in Optional(Emails) /\ call.password \in Optional(Passwords)
  BY CallFields DEF UpdateUserCalls
<1>2. Coalesce(call.email, row.email) \in Emails /\ Coalesce(call.role, row.role) \in Roles
  BY <1>1 DEF Coalesce, UserRows, Optional
<1>3. /\ (IF call.password = None THEN row.hash ELSE HashOf(call.password, salt)) \in Hashes
      /\ (IF call.password = None THEN row.salt ELSE salt) \in Salts
  BY <1>1 DEF UserRows, Hashes, HashOf, Optional
<1>4. UpdatedRow(call, row, salt) \in UserRows
  BY <1>2, <1>3 DEF UpdatedRow, UserRows
<1> QED
  BY <1>4 DEF UserRows, toAPIUser, APIUsers, Optional

LEMMA PostRowType ==
    ASSUME NEW call, call.title \in Titles, Coalesce(call.status, "draft") \in Statuses,
           NEW author \in UserIds, NEW suffix \in Suffixes
    PROVE  /\ PostRow(author, call, suffix) \in PostRows
           /\ toAPIPost(PostRow(author, call, suffix), 0) \in APIPosts
<1>1. PostRow(author, call, suffix) \in PostRows
  BY DEF PostRow, PostRows, Slugs
<1> QED
  BY <1>1 DEF PostRows, toAPIPost, APIPosts

-----------------------------------------------------------------------------
(* Type correctness, action by action.                                     *)

\* Stages and statuses are told apart by enumeration: these two sets say which.
LEMMA StagesAndStatuses ==
    /\ "role" \in Running /\ "post" \in Running /\ "main" \in Running
    /\ "count" \in Running /\ "load" \in Running
    /\ 200 \in HttpStatuses /\ 201 \in HttpStatuses /\ 204 \in HttpStatuses
    /\ 400 \in HttpStatuses /\ 401 \in HttpStatuses /\ 404 \in HttpStatuses
    /\ 409 \in HttpStatuses /\ 422 \in HttpStatuses /\ 500 \in HttpStatuses
BY DEF Running, HttpStatuses

\* What a request in service may answer or go on with, for the actions that
\* leave the tables alone.
LEMMA UserReadsType ==
    ASSUME TypeInv, NEW c \in Clients,
           \/ Login(c) \/ ListUsers(c) \/ CountUsers(c) \/ CreateUserRole(c)
           \/ GetUser(c) \/ UpdateUserRole(c) \/ UpdateUserLoad(c) \/ ReplaceUserRole(c)
    PROVE  TypeInv'
<1> USE StagesAndStatuses
<1>1. TablesOK /\ ReqOK /\ UsersOK
  BY TypeInvParts DEF TablesOK
<1>2. tables' = tables
  BY DEF Login, ListUsers, CountUsers, CreateUserRole, GetUser, UpdateUserRole,
         UpdateUserLoad, ReplaceUserRole, LookupRole, tables
<1>3. TablesOK'
  BY <1>1, <1>2 DEF TablesOK, UsersOK, PostsOK, CommentsOK, tables
<1>4. ASSUME Login(c) PROVE ReqOK'
  <2>1. CASE Answer(c, 401, {})
    BY <1>1, <2>1, BareAnswerType
  <2>2. CASE \E u \in LiveIds(users) :
                Answer(c, 200, {<<u, toAPIUser(users[u], users[u].role)>>})
    <3>1. PICK u \in LiveIds(users) : Answer(c, 200, ViewUsers({u}))
      BY <2>2 DEF ViewUsers
    <3> QED
      BY <1>1, <3>1, UserViews, AnswerType
  <2> QED
    BY <1>4, <2>1, <2>2 DEF Login
<1>5. ASSUME ListUsers(c) PROVE ReqOK'
  <2>1. CASE ServerError(c)
    BY <1>1, <2>1, ServerErrorType
  <2>2. CASE \E ids \in SUBSET LiveIds(users) : Continue(c, "count", ViewUsers(ids))
    <3>1. PICK ids \in SUBSET LiveIds(users) : Continue(c, "count", ViewUsers(ids))
      BY <2>2
    <3> QED
      BY <1>1, <1>5, <3>1, UserViews, ContinueType, Served, ListsAdmitted DEF ListUsers, ListOps
  <2> QED
    BY <1>5, <2>1, <2>2 DEF ListUsers, Pages
<1>6. ASSUME CountUsers(c) PROVE ReqOK'
  <2>1. LiveIds(users) \subseteq UserIds
    BY <1>1, LiveRows DEF UsersOK
  <2>2. Cardinality(LiveIds(users)) \in Nat
    BY <2>1, StoreAssumption, FS_Subset, FS_CardinalityType
  <2> QED
    BY <1>1, <1>6, <2>2, AnswerListType DEF CountUsers
<1>7. ASSUME CreateUserRole(c) \/ ReplaceUserRole(c) PROVE ReqOK'
  <2>1. PICK op : LookupRole(c, op)
    BY <1>7 DEF CreateUserRole, ReplaceUserRole
  <2>2. req[c].call.op \in {"CreateUser", "ReplaceUser"} /\ req[c].stage = "role"
    BY <1>7 DEF CreateUserRole, ReplaceUserRole, LookupRole, Serves
  <2>3. CASE Answer(c, 422, {})
    BY <1>1, <2>3, BareAnswerType
  <2>4. CASE ServerError(c)
    BY <1>1, <2>4, ServerErrorType
  <2>5. CASE /\ req[c].call.role \in Roles /\ req[c].call.password \notin LongPasswords
             /\ Continue(c, "main", {})
    <3>1. Admitted(req[c].call, "main")
      BY <1>1, <2>2, <2>5 DEF ReqOK, Running, Admitted
    <3> QED
      BY <1>1, <2>2, <2>5, <3>1, ContinueType
  <2> QED
    BY <2>1, <2>3, <2>4, <2>5 DEF LookupRole
<1>8. ASSUME GetUser(c) PROVE ReqOK'
  BY <1>1, <1>8, BareAnswerType, AnswerType, UserViews DEF GetUser
<1>9. ASSUME UpdateUserRole(c) PROVE ReqOK'
  <2>1. req[c].call.op = "UpdateUser" /\ req[c].stage = "role"
    BY <1>9 DEF UpdateUserRole, Serves
  <2>2. CASE Answer(c, 422, {})
    BY <1>1, <2>2, BareAnswerType
  <2>3. CASE req[c].call.role \in Roles /\ Continue(c, "main", {})
    <3>1. Admitted(req[c].call, "main")
      BY <1>1, <2>1, <2>3 DEF ReqOK, Running, Admitted, Optional
    <3> QED
      BY <1>1, <2>1, <2>3, <3>1, ContinueType
  <2> QED
    BY <1>9, <2>2, <2>3 DEF UpdateUserRole
<1>10. ASSUME UpdateUserLoad(c) PROVE ReqOK'
  <2>1. req[c].rows \in SUBSET Resources
    BY <1>1 DEF ReqOK, Requests
  <2>2. CASE Answer(c, 200, req[c].rows)
    BY <1>1, <2>1, <2>2, AnswerType
  <2>3. CASE Answer(c, 200, {<<r[1], toAPIUser(r[2], None)>> : r \in req[c].rows})
    <3>1. req[c].rows \subseteq UserIds \X APIUsers
      BY <1>1, <1>10 DEF ReqOK, UpdateUserLoad, Serves
    <3>2. \A r \in req[c].rows : r[1] \in UserIds /\ toAPIUser(r[2], None) \in APIUsers
      BY <3>1 DEF toAPIUser, APIUsers, Optional
    <3>3. {<<r[1], toAPIUser(r[2], None)>> : r \in req[c].rows} \subseteq Resources
      BY <3>2 DEF Resources
    <3> QED
      BY <1>1, <2>3, <3>3, AnswerType
  <2> QED
    BY <1>10, <2>2, <2>3 DEF UpdateUserLoad
<1> QED
  BY <1>3, <1>4, <1>5, <1>6, <1>7, <1>8, <1>9, <1>10, TypeInvParts

\* A row written under an id of the table leaves the table its type.
LEMMA WriteType ==
    ASSUME NEW Ids, NEW Row, NEW table \in [Ids -> Row \cup {Fresh, Gone}],
           NEW i \in Ids, NEW row \in Row
    PROVE  [table EXCEPT ![i] = row] \in [Ids -> Row \cup {Fresh, Gone}]
OBVIOUS

\* The users' writes.
LEMMA UserWritesType ==
    ASSUME TypeInv, NEW c \in Clients,
           CreateUser(c) \/ UpdateUser(c) \/ ReplaceUser(c) \/ DeleteUser(c)
    PROVE  TypeInv'
<1> USE StagesAndStatuses
<1> DEFINE call == req[c].call
<1>1. TablesOK /\ ReqOK /\ UsersOK /\ PostsOK /\ CommentsOK
  BY TypeInvParts DEF TablesOK
<1>2. LiveIds(users) \subseteq UserIds /\ FreshIds(users) \subseteq UserIds
  BY <1>1, LiveRows DEF UsersOK
<1>3. ASSUME posts' = posts, comments' = comments, UsersOK' PROVE TablesOK'
  BY <1>1, <1>3 DEF TablesOK, PostsOK, CommentsOK
<1>4. ASSUME NEW u \in UserIds, NEW row \in UserRows, users' = [users EXCEPT ![u] = row]
      PROVE  UsersOK'
  BY <1>1, <1>4, WriteType DEF UsersOK
<1>5. ASSUME NEW status \in {404, 409}, Answer(c, status, {}), UNCHANGED tables
      PROVE  TypeInv'
  <2>1. UsersOK'
    BY <1>1, <1>5 DEF UsersOK, tables
  <2> QED
    BY <1>1, <1>3, <1>5, <2>1, BareAnswerType, TypeInvParts DEF tables
<1>6. ASSUME NEW op \in {"CreateUser", "ReplaceUser"}, Serves(c, op, "main"),
             NEW u \in UserIds, NEW salt \in Salts, NEW status \in {200, 201},
             users' = [users EXCEPT ![u] = UserRow(call, salt)],
             UNCHANGED <<posts, comments>>,
             AnswerWritten(c, status, {<<u, toAPIUser(UserRow(call, salt), call.role)>>})
      PROVE  TypeInv'
  <2>1. /\ call \in OpCalls /\ call.op \in {"CreateUser", "ReplaceUser"}
        /\ call.password # None /\ call.role \in Roles
    BY <1>1, <1>6 DEF ReqOK, Serves, Admitted
  <2>2. /\ UserRow(call, salt) \in UserRows
        /\ toAPIUser(UserRow(call, salt), call.role) \in APIUsers
    BY <1>6, <2>1, UserRowType
  <2>3. {<<u, toAPIUser(UserRow(call, salt), call.role)>>} \in SUBSET Resources
    BY <1>6, <2>2 DEF Resources
  <2>4. ReqOK'
    BY <1>1, <1>6, <2>3, AnswerWrittenType
  <2>5. TablesOK'
    BY <1>3, <1>4, <1>6, <2>2
  <2> QED
    BY <2>4, <2>5, TypeInvParts
<1>7. ASSUME CreateUser(c) PROVE TypeInv'
  <2>1. CASE Answer(c, 409, {}) /\ UNCHANGED users
    BY <1>5, <1>7, <2>1 DEF CreateUser, tables
  <2>2. CASE \E u \in FreshIds(users), salt \in Salts :
                /\ users' = [users EXCEPT ![u] = UserRow(call, salt)]
                /\ AnswerWritten(c, 201, {<<u, toAPIUser(UserRow(call, salt), call.role)>>})
    BY <1>2, <1>6, <1>7, <2>2, ZenonT(40) DEF CreateUser
  <2> QED
    BY <1>7, <2>1, <2>2 DEF CreateUser
<1>8. ASSUME ReplaceUser(c) PROVE TypeInv'
  <2>1. CASE (Answer(c, 404, {}) \/ Answer(c, 409, {})) /\ UNCHANGED users
    BY <1>5, <1>8, <2>1 DEF ReplaceUser, tables
  <2>2. CASE /\ call.user \in LiveIds(users)
             /\ \E salt \in Salts :
                /\ users' = [users EXCEPT ![call.user] = UserRow(call, salt)]
                /\ AnswerWritten(c, 200, {<<call.user, toAPIUser(UserRow(call, salt), call.role)>>})
    BY <1>2, <1>6, <1>8, <2>2, ZenonT(40) DEF ReplaceUser
  <2> QED
    BY <1>8, <2>1, <2>2, ZenonT(40) DEF ReplaceUser
<1>9. ASSUME UpdateUser(c) PROVE TypeInv'
  <2>1. CASE (Answer(c, 404, {}) \/ Answer(c, 409, {})) /\ UNCHANGED users
    BY <1>5, <1>9, <2>1, ZenonT(40) DEF UpdateUser, tables
  <2>2. CASE /\ call.user \in LiveIds(users)
             /\ \E salt \in Salts :
                   LET row == UpdatedRow(call, users[call.user], salt)
                   IN  /\ users' = [users EXCEPT ![call.user] = row]
                       /\ \/ Continue(c, "load", {<<call.user, toAPIUser(row, row.role)>>})
                          \/ ServerError(c)
    <3>1. PICK salt \in Salts :
             LET row == UpdatedRow(call, users[call.user], salt)
             IN  /\ users' = [users EXCEPT ![call.user] = row]
                 /\ \/ Continue(c, "load", {<<call.user, toAPIUser(row, row.role)>>})
                    \/ ServerError(c)
      BY <2>2
    <3> DEFINE row == UpdatedRow(call, users[call.user], salt)
               rows == {<<call.user, toAPIUser(row, row.role)>>}
    <3>2. call \in OpCalls /\ call.op = "UpdateUser" /\ call.role \in Optional(Roles)
      BY <1>1, <1>9 DEF UpdateUser, ReqOK, Serves, Admitted
    <3>3. users[call.user] \in UserRows /\ call.user \in UserIds
      BY <1>1, <1>2, <2>2, LiveRows DEF UsersOK
    <3>4. row \in UserRows /\ toAPIUser(row, row.role) \in APIUsers
      BY <3>2, <3>3, UpdatedRowType
    <3>5. rows \subseteq UserIds \X APIUsers /\ rows \in SUBSET Resources
      BY <3>3, <3>4 DEF Resources
    <3>6. UsersOK'
      BY <1>4, <3>1, <3>3, <3>4
    <3>7. Admitted(call, "load") /\ req[c].stage \in Running
      BY <1>1, <1>9, <3>2 DEF UpdateUser, ReqOK, Serves, Admitted
    <3>8. CASE Continue(c, "load", rows)
      BY <1>1, <1>3, <1>9, <3>5, <3>6, <3>7, <3>8, ContinueType, TypeInvParts DEF UpdateUser
    <3>9. CASE ServerError(c)
      BY <1>1, <1>3, <1>9, <3>6, <3>9, ServerErrorType, TypeInvParts DEF UpdateUser
    <3> QED
      BY <3>1, <3>8, <3>9
  <2> QED
    BY <1>9, <2>1, <2>2, ZenonT(40) DEF UpdateUser
<1>10. ASSUME DeleteUser(c) PROVE TypeInv'
  <2>1. UsersOK' /\ PostsOK' /\ CommentsOK'
    BY <1>1, <1>10, WithoutType DEF DeleteUser, UsersOK, PostsOK, CommentsOK
  <2>2. ReqOK'
    BY <1>1, <1>10, AnswerWrittenType DEF DeleteUser
  <2> QED
    BY <2>1, <2>2, TypeInvParts DEF TablesOK
<1> QED
  BY <1>7, <1>8, <1>9, <1>10

\* The handlers of post.go.
LEMMA PostStepType ==
    ASSUME TypeInv, NEW c \in Clients, PostStep(c)
    PROVE  TypeInv'
<1> USE StagesAndStatuses
<1> DEFINE call == req[c].call
<1>1. TablesOK /\ ReqOK /\ UsersOK /\ PostsOK /\ CommentsOK
  BY TypeInvParts DEF TablesOK
<1>2. LiveIds(posts) \subseteq PostIds /\ FreshIds(posts) \subseteq PostIds
  BY <1>1, LiveRows DEF PostsOK
<1>3. ASSUME UNCHANGED tables, ReqOK' PROVE TypeInv'
  BY <1>1, <1>3, TypeInvParts DEF TablesOK, UsersOK, PostsOK, CommentsOK, tables
<1>4. ASSUME NEW status \in HttpStatuses, Answer(c, status, {}), UNCHANGED tables
      PROVE  TypeInv'
  BY <1>1, <1>3, <1>4, BareAnswerType
<1>5. ASSUME ServerError(c), UNCHANGED tables PROVE TypeInv'
  BY <1>1, <1>3, <1>5, ServerErrorType
<1>6. ASSUME ListPosts(c) PROVE TypeInv'
  <2>1. CASE ServerError(c)
    BY <1>5, <1>6, <2>1 DEF ListPosts
  <2>2. CASE \E ids \in SUBSET LiveIds(posts) : Continue(c, "count", ViewPosts(ids))
    <3>1. PICK ids \in SUBSET LiveIds(posts) : Continue(c, "count", ViewPosts(ids))
      BY <2>2
    <3>2. ReqOK'
      BY <1>1, <1>6, <3>1, PostViews, ContinueType, Served, ListsAdmitted DEF ListPosts, ListOps
    <3> QED
      BY <1>3, <1>6, <3>2 DEF ListPosts
  <2> QED
    BY <1>6, <2>1, <2>2 DEF ListPosts, Pages, Selected
<1>7. ASSUME CountPosts(c) PROVE TypeInv'
  <2>1. Selected(call.status) \subseteq PostIds
    BY <1>2 DEF Selected
  <2>2. Cardinality(Selected(call.status)) \in Nat
    BY <2>1, StoreAssumption, FS_Subset, FS_CardinalityType
  <2> QED
    BY <1>1, <1>3, <1>7, <2>2, AnswerListType DEF CountPosts
<1>8. ASSUME NEW p \in PostIds, NEW row \in PostRows, NEW status \in {200, 201},
             toAPIPost(row, 0) \in APIPosts, posts' = [posts EXCEPT ![p] = row],
             UNCHANGED <<users, comments>>, AnswerWritten(c, status, {<<p, toAPIPost(row, 0)>>})
      PROVE  TypeInv'
  <2>1. PostsOK'
    BY <1>1, <1>8, WriteType DEF PostsOK
  <2>2. {<<p, toAPIPost(row, 0)>>} \in SUBSET Resources
    BY <1>8 DEF Resources
  <2>3. ReqOK'
    BY <1>1, <1>8, <2>2, AnswerWrittenType
  <2> QED
    BY <1>1, <1>8, <2>1, <2>3, TypeInvParts DEF TablesOK, UsersOK, CommentsOK
<1>9. ASSUME CreatePost(c) PROVE TypeInv'
  <2>1. call \in CreatePostCalls
    BY <1>1, <1>9, Served, CallFields DEF CreatePost
  <2>2. PICK suffix \in Suffixes :
           LET row     == PostRow(call.caller, call, suffix)
               allowed == /\ row.status \in Statuses
                          /\ ~SlugTaken(posts, row.slug, None)
                          /\ call.caller \in LiveIds(users)
           IN  \/ ~allowed /\ ServerError(c) /\ UNCHANGED posts
               \/ /\ allowed
                  /\ \E p \in FreshIds(posts) :
                        /\ posts' = [posts EXCEPT ![p] = row]
                        /\ AnswerWritten(c, 201, {<<p, toAPIPost(row, 0)>>})
    BY <1>9 DEF CreatePost
  <2> DEFINE row == PostRow(call.caller, call, suffix)
  <2>3. CASE ServerError(c) /\ UNCHANGED posts
    BY <1>5, <1>9, <2>3 DEF CreatePost, tables
  <2>4. CASE /\ row.status \in Statuses /\ call.caller \in LiveIds(users)
             /\ \E p \in FreshIds(posts) :
                   /\ posts' = [posts EXCEPT ![p] = row]
                   /\ AnswerWritten(c, 201, {<<p, toAPIPost(row, 0)>>})
    <3>1. call.caller \in UserIds /\ call.title \in Titles
      BY <1>1, <2>1, <2>4, LiveRows DEF CreatePostCalls, UsersOK
    <3>2. Coalesce(call.status, "draft") \in Statuses
      BY <2>4 DEF PostRow
    <3>3. row \in PostRows /\ toAPIPost(row, 0) \in APIPosts
      BY <3>1, <3>2, PostRowType
    <3> QED
      BY <1>2, <1>8, <1>9, <2>4, <3>3, ZenonT(40) DEF CreatePost
  <2> QED
    BY <2>2, <2>3, <2>4
<1>10. ASSUME GetPost(c) PROVE TypeInv'
  <2>1. CASE Answer(c, 404, {})
    BY <1>4, <1>10, <2>1 DEF GetPost
  <2>2. CASE call.post \in LiveIds(posts) /\ Answer(c, 200, ViewPosts({call.post}))
    <3>1. ReqOK'
      BY <1>1, <2>2, PostViews, AnswerType
    <3> QED
      BY <1>3, <1>10, <3>1 DEF GetPost
  <2> QED
    BY <1>10, <2>1, <2>2 DEF GetPost
<1>11. ASSUME ReplacePost(c) PROVE TypeInv'
  <2> DEFINE p == call.post
  <2>1. call \in ReplacePostCalls
    BY <1>1, <1>11, Served, CallFields DEF ReplacePost
  <2>2. PICK suffix \in Suffixes :
           \/ ServerError(c) /\ UNCHANGED posts
           \/ Answer(c, 404, {}) /\ UNCHANGED posts
           \/ /\ ValidStatus(call.status) /\ p \in LiveIds(posts)
              /\ posts' = [posts EXCEPT ![p] = PostRow(posts[p].author, call, suffix)]
              /\ AnswerWritten(c, 200, {<<p, toAPIPost(PostRow(posts[p].author, call, suffix), 0)>>})
    BY <1>11, ZenonT(40) DEF ReplacePost
  <2> DEFINE row == PostRow(posts[p].author, call, suffix)
  <2>3. CASE ServerError(c) /\ UNCHANGED posts
    BY <1>5, <1>11, <2>3 DEF ReplacePost, tables
  <2>4. CASE Answer(c, 404, {}) /\ UNCHANGED posts
    BY <1>4, <1>11, <2>4 DEF ReplacePost, tables
  <2>5. CASE /\ ValidStatus(call.status) /\ p \in LiveIds(posts)
             /\ posts' = [posts EXCEPT ![p] = row]
             /\ AnswerWritten(c, 200, {<<p, toAPIPost(row, 0)>>})
    <3>0. posts[p] \in PostRows
      BY <1>1, <2>5, LiveRows DEF PostsOK
    <3>1. posts[p].author \in UserIds /\ call.title \in Titles
      BY <2>1, <3>0 DEF ReplacePostCalls, PostRows
    <3>2. Coalesce(call.status, "draft") \in Statuses
      BY <2>5 DEF ValidStatus, Coalesce, Optional, Statuses
    <3>3. row \in PostRows /\ toAPIPost(row, 0) \in APIPosts
      BY <3>1, <3>2, PostRowType
    <3> QED
      BY <1>2, <1>8, <1>11, <2>5, <3>3, ZenonT(40) DEF ReplacePost
  <2> QED
    BY <2>2, <2>3, <2>4, <2>5
<1>12. ASSUME DeletePost(c) PROVE TypeInv'
  <2>1. PostsOK' /\ CommentsOK' /\ UsersOK'
    BY <1>1, <1>12, WithoutType DEF DeletePost, UsersOK, PostsOK, CommentsOK
  <2>2. ReqOK'
    BY <1>1, <1>12, AnswerWrittenType DEF DeletePost
  <2> QED
    BY <2>1, <2>2, TypeInvParts DEF TablesOK
<1> QED
  BY <1>6, <1>7, <1>9, <1>10, <1>11, <1>12 DEF PostStep

\* The handlers of comment.go.
LEMMA CommentStepType ==
    ASSUME TypeInv, NEW c \in Clients, CommentStep(c)
    PROVE  TypeInv'
<1> USE StagesAndStatuses
<1> DEFINE call == req[c].call
<1>1. TablesOK /\ ReqOK /\ UsersOK /\ PostsOK /\ CommentsOK
  BY TypeInvParts DEF TablesOK
<1>2. LiveIds(comments) \subseteq CommentIds /\ FreshIds(comments) \subseteq CommentIds
  BY <1>1, LiveRows DEF CommentsOK
<1>3. ASSUME UNCHANGED tables, ReqOK' PROVE TypeInv'
  BY <1>1, <1>3, TypeInvParts DEF TablesOK, UsersOK, PostsOK, CommentsOK, tables
<1>4. ASSUME NEW status \in HttpStatuses, Answer(c, status, {}), UNCHANGED tables
      PROVE  TypeInv'
  BY <1>1, <1>3, <1>4, BareAnswerType
<1>5. ASSUME ServerError(c), UNCHANGED tables PROVE TypeInv'
  BY <1>1, <1>3, <1>5, ServerErrorType
<1>6. ASSUME NEW k \in CommentIds, NEW row \in CommentRows, NEW status \in {200, 201},
             comments' = [comments EXCEPT ![k] = row],
             UNCHANGED <<users, posts>>, AnswerWritten(c, status, {<<k, toAPIComment(row)>>})
      PROVE  TypeInv'
  <2>1. CommentsOK'
    BY <1>1, <1>6, WriteType DEF CommentsOK
  <2>2. toAPIComment(row) \in APIComments
    BY DEF toAPIComment, APIComments, CommentRows
  <2>3. {<<k, toAPIComment(row)>>} \in SUBSET Resources
    BY <2>2 DEF Resources
  <2>4. ReqOK'
    BY <1>1, <1>6, <2>3, AnswerWrittenType
  <2> QED
    BY <1>1, <1>6, <2>1, <2>4, TypeInvParts DEF TablesOK, UsersOK, PostsOK
<1>7. ASSUME ListCommentsPost(c) PROVE TypeInv'
  <2>1. CASE Answer(c, 404, {})
    BY <1>4, <1>7, <2>1 DEF ListCommentsPost
  <2>2. CASE Continue(c, "main", {})
    <3>1. ReqOK'
      BY <1>1, <1>7, <2>2, ContinueType, Served, ListsAdmitted DEF ListCommentsPost, ListOps
    <3> QED
      BY <1>3, <1>7, <3>1 DEF ListCommentsPost
  <2> QED
    BY <1>7, <2>1, <2>2 DEF ListCommentsPost
<1>8. ASSUME ListComments(c) PROVE TypeInv'
  <2>1. CASE ServerError(c)
    BY <1>5, <1>8, <2>1 DEF ListComments
  <2>2. CASE \E ids \in SUBSET LiveIds(comments) :
                Continue(c, "count", {<<k, toAPIComment(comments[k])>> : k \in ids})
    <3>1. PICK ids \in SUBSET LiveIds(comments) :
             Continue(c, "count", {<<k, toAPIComment(comments[k])>> : k \in ids})
      BY <2>2
    <3>2. \A k \in ids : k \in CommentIds /\ comments[k] \in CommentRows
      BY <1>1, LiveRows DEF CommentsOK
    <3>3. \A k \in ids : toAPIComment(comments[k]) \in APIComments
      BY <3>2 DEF toAPIComment, APIComments, CommentRows
    <3>4. {<<k, toAPIComment(comments[k])>> : k \in ids} \in SUBSET Resources
      BY <3>2, <3>3 DEF Resources
    <3>5. ReqOK'
      BY <1>1, <1>8, <3>1, <3>4, ContinueType, Served, ListsAdmitted DEF ListComments, ListOps
    <3> QED
      BY <1>3, <1>8, <3>5 DEF ListComments
  <2> QED
    BY <1>8, <2>1, <2>2 DEF ListComments, Pages, CommentsOn
<1>9. ASSUME CountComments(c) PROVE TypeInv'
  <2>1. CommentCount(comments, call.post) \in Nat
    BY <1>1, CommentCounts
  <2> QED
    BY <1>1, <1>3, <1>9, <2>1, AnswerListType DEF CountComments
<1>10. ASSUME CreateComment(c) PROVE TypeInv'
  <2> DEFINE row == [post |-> call.post, author |-> call.caller, text |-> call.text]
  <2>1. call \in CreateCommentCalls
    BY <1>1, <1>10, Served, CallFields DEF CreateComment
  <2>2. CASE ServerError(c) /\ UNCHANGED comments
    BY <1>5, <1>10, <2>2 DEF CreateComment, tables
  <2>3. CASE /\ call.post \in LiveIds(posts) /\ call.caller \in LiveIds(users)
             /\ \E k \in FreshIds(comments) :
                   /\ comments' = [comments EXCEPT ![k] = row]
                   /\ AnswerWritten(c, 201, {<<k, toAPIComment(row)>>})
    <3>1. call.caller \in UserIds /\ call.post \in PostIds
      BY <1>1, <2>3, LiveRows, SMTT(30) DEF UsersOK, PostsOK
    <3>2. row \in CommentRows
      BY <2>1, <3>1 DEF CreateCommentCalls, CommentRows
    <3> QED
      BY <1>2, <1>6, <1>10, <2>3, <3>2, ZenonT(40) DEF CreateComment
  <2> QED
    BY <1>10, <2>2, <2>3 DEF CreateComment
<1>11. ASSUME UpdateComment(c) PROVE TypeInv'
  <2> DEFINE k   == call.comment
             row == [comments[k] EXCEPT !.text = call.text]
  <2>1. call \in UpdateCommentCalls
    BY <1>1, <1>11, Served, CallFields DEF UpdateComment
  <2>2. CASE Answer(c, 404, {}) /\ UNCHANGED comments
    BY <1>4, <1>11, <2>2 DEF UpdateComment, tables
  <2>3. CASE /\ k \in LiveIds(comments)
             /\ comments' = [comments EXCEPT ![k] = row]
             /\ AnswerWritten(c, 200, {<<k, toAPIComment(row)>>})
    <3>1. comments[k] \in CommentRows
      BY <1>1, <2>3, LiveRows DEF CommentsOK
    <3>2. row \in CommentRows
      BY <2>1, <3>1 DEF UpdateCommentCalls, CommentRows
    <3> QED
      BY <1>2, <1>6, <1>11, <2>3, <3>2, ZenonT(40) DEF UpdateComment
  <2> QED
    BY <1>11, <2>2, <2>3 DEF UpdateComment
<1>12. ASSUME DeleteComment(c) PROVE TypeInv'
  <2>1. CommentsOK' /\ UsersOK' /\ PostsOK'
    BY <1>1, <1>12, WithoutType DEF DeleteComment, UsersOK, PostsOK, CommentsOK
  <2>2. ReqOK'
    BY <1>1, <1>12, AnswerWrittenType DEF DeleteComment
  <2> QED
    BY <2>1, <2>2, TypeInvParts DEF TablesOK
<1> QED
  BY <1>7, <1>8, <1>9, <1>10, <1>11, <1>12 DEF CommentStep

\* The record of a request that has just arrived.
LEMMA Arrival ==
    ASSUME NEW stage \in Running \cup {"idle", "done"},
           NEW call \in OpCalls \cup MalformedCalls, NEW status \in HttpStatuses \cup {0}
    PROVE  LET r == Request(stage, call, status)
           IN  r \in Requests /\ r.stage = stage /\ r.call = call
BY DEF Request, Requests

\* That of one answered on arrival.
LEMMA Arrived ==
    ASSUME NEW call \in OpCalls \cup MalformedCalls, NEW status \in HttpStatuses
    PROVE  LET r == Request("done", call, status)
           IN  r \in Requests /\ r.stage = "done"
BY DEF Request, Requests

\* The steps all requests share: arrival, answer, failing statement.
LEMMA SharedStepType ==
    ASSUME TypeInv, NEW c \in Clients,
           Receive(c) \/ ReceiveMalformed(c) \/ Return(c) \/ StatementFails(c)
    PROVE  TypeInv'
<1> USE StagesAndStatuses
<1>1. TablesOK /\ ReqOK
  BY TypeInvParts
<1>2. TablesOK'
  BY <1>1 DEF Receive, ReceiveMalformed, Return, StatementFails, tables, TablesOK,
              UsersOK, PostsOK, CommentsOK
<1>3. ASSUME NEW r \in Requests, req' = [req EXCEPT ![c] = r], r.stage # "load",
             r.stage \in Running => r.call \in OpCalls /\ Admitted(r.call, r.stage)
      PROVE  ReqOK'
  <2>1. req'[c] = r /\ \A d \in Clients \ {c} : req'[d] = req[d]
    BY <1>1, <1>3 DEF ReqOK
  <2>2. req' \in [Clients -> Requests]
    BY <1>1, <1>3 DEF ReqOK
  <2> QED
    BY <1>1, <1>3, <2>1, <2>2 DEF ReqOK
<1>4. Idle \in Requests /\ Idle.stage = "idle"
  BY DEF Idle, Request, Requests
<1>5. ASSUME Receive(c) PROVE ReqOK'
  <2>1. PICK call \in OpCalls :
           req' = [req EXCEPT ![c] =
                IF EarlyStatus(call) # 0
                THEN Request("done", call, EarlyStatus(call))
                ELSE Request(FirstStage(call), call, 0)]
    BY <1>5 DEF Receive
  <2>2. CASE EarlyStatus(call) # 0
    <3>1. EarlyStatus(call) \in HttpStatuses
      BY <2>2 DEF EarlyStatus
    <3> DEFINE r == Request("done", call, EarlyStatus(call))
    <3>2. r \in Requests /\ r.stage = "done"
      BY <3>1, Arrived
    <3>3. "done" \notin Running
      BY DEF Running
    <3> QED
      BY <1>3, <2>1, <2>2, <3>2, <3>3
  <2>3. CASE EarlyStatus(call) = 0
    <3>1. /\ FirstStage(call) \in {"role", "post", "main"}
          /\ call.op \in {"CreateUser", "ReplaceUser"} => FirstStage(call) = "role"
          /\ call.op = "UpdateUser" /\ call.role # None => FirstStage(call) = "role"
      BY DEF FirstStage
    <3>2. /\ call.op \in {"CreateUser", "ReplaceUser"} => call.password # None
          /\ call.op = "UpdateUser" => call.password \notin LongPasswords
          /\ call.op \in {"CreatePost", "CreateComment"} => call.caller # None
      BY <2>3 DEF EarlyStatus
    <3>3. Admitted(call, FirstStage(call))
      BY <3>1, <3>2 DEF Admitted, Optional
    <3> DEFINE r == Request(FirstStage(call), call, 0)
    <3>4. r \in Requests /\ r.stage = FirstStage(call) /\ r.call = call
      BY <3>1, Arrival DEF Running
    <3>5. r.stage # "load" /\ r.call \in OpCalls /\ Admitted(r.call, r.stage)
      BY <3>1, <3>3, <3>4
    <3>6. req' = [req EXCEPT ![c] = r]
      BY <2>1, <2>3
    <3> HIDE DEF r
    <3> QED
      BY <1>3, <3>4, <3>5, <3>6
  <2> QED
    BY <2>2, <2>3
<1>6. ASSUME ReceiveMalformed(c) PROVE ReqOK'
  <2>1. PICK call \in MalformedCalls :
           req' = [req EXCEPT ![c] = Request("done", call, 400)]
    BY <1>6 DEF ReceiveMalformed
  <2> DEFINE r == Request("done", call, 400)
  <2>2. r \in Requests /\ r.stage = "done"
    BY Arrived
  <2>3. "done" \notin Running
    BY DEF Running
  <2> QED
    BY <1>3, <2>1, <2>2, <2>3, ZenonT(40)
<1>7. ASSUME Return(c) PROVE ReqOK'
  <2>1. "idle" \notin Running
    BY DEF Running
  <2> QED
    BY <1>3, <1>4, <1>7, <2>1 DEF Return
<1>8. ASSUME StatementFails(c) PROVE ReqOK'
  BY <1>1, <1>8, ServerErrorType DEF StatementFails
<1> QED
  BY <1>2, <1>5, <1>6, <1>7, <1>8, TypeInvParts

LEMMA TypeInit == Init => TypeInv
<1> SUFFICES ASSUME Init PROVE TypeInv
  OBVIOUS
<1>1. TablesOK
  BY SeedAssumption DEF Init, TablesOK, UsersOK, PostsOK, CommentsOK
<1>2. Idle \in Requests /\ Idle.stage = "idle" /\ "idle" \notin Running
  BY DEF Idle, Request, Requests, Running
<1>3. ReqOK
  BY <1>2 DEF Init, ReqOK
<1> QED
  BY <1>1, <1>3, TypeInvParts

LEMMA TypeStep == TypeInv /\ [Next]_vars => TypeInv'
<1> SUFFICES ASSUME TypeInv, [Next]_vars PROVE TypeInv'
  OBVIOUS
<1>1. CASE UNCHANGED vars
  BY <1>1 DEF vars, TypeInv, TypeOK, StatementsAreAdmitted
<1>2. ASSUME NEW c \in Clients,
             Receive(c) \/ ReceiveMalformed(c) \/ Handle(c) \/ Return(c)
      PROVE  TypeInv'
  <2>1. CASE UserStep(c)
    BY <2>1, UserReadsType, UserWritesType DEF UserStep
  <2> QED
    BY <1>2, <2>1, PostStepType, CommentStepType, SharedStepType DEF Handle
<1> QED
  BY <1>1, <1>2 DEF Next

\* No statement runs for a call its handler should have refused.
THEOREM Admission == Spec => []StatementsAreAdmitted
<1>1. TypeInv => StatementsAreAdmitted
  BY DEF TypeInv
<1> QED
  BY <1>1, TypeInit, TypeStep, PTL DEF Spec

\* Whatever requests do, the tables and the requests keep their types.
THEOREM TypeCorrect == Spec => []TypeOK
<1>1. TypeInv => TypeOK
  BY DEF TypeInv
<1> QED
  BY <1>1, TypeInit, TypeStep, PTL DEF Spec
=============================================================================
