-------------------------- MODULE SampleApiSafety ---------------------------
(***************************************************************************)
(* The integrity of the tables, proved for every value of the constants:   *)
(* every step of SampleApi makes one of four changes to the tables, and    *)
(* each of them keeps the rows' references, keys and credentials.  What    *)
(* was deleted stays deleted, and a refusal leaves no trace.               *)
(***************************************************************************)
EXTENDS SampleApiProofs

Integrity == ReferentialIntegrity /\ UniqueKeys /\ CredentialsUsable

-----------------------------------------------------------------------------
(* The changes a step may make to the tables.                              *)

\* One user is created or updated.
UserWrite ==
    \E u \in UserIds, row \in UserRows :
       /\ users' = [users EXCEPT ![u] = row]
       /\ UNCHANGED <<posts, comments>>
       /\ users[u] # Gone
       /\ UniqueKeys => ~EmailTaken(users, row.email, u)
       /\ CredentialsUsable => row.hash.salt = row.salt

\* One post is created or replaced, under the author it has.
PostWrite ==
    \E p \in PostIds, row \in PostRows :
       /\ posts' = [posts EXCEPT ![p] = row]
       /\ UNCHANGED <<users, comments>>
       /\ posts[p] # Gone
       /\ ~SlugTaken(posts, row.slug, p)
       /\ ReferentialIntegrity => row.author \in LiveIds(users)
       /\ p \in LiveIds(posts) => row.author = posts[p].author

\* One comment is created or updated, under the author and post it has.
CommentWrite ==
    \E k \in CommentIds, row \in CommentRows :
       /\ comments' = [comments EXCEPT ![k] = row]
       /\ UNCHANGED <<users, posts>>
       /\ comments[k] # Gone
       /\ ReferentialIntegrity => row.author \in LiveIds(users) /\ row.post \in LiveIds(posts)
       /\ k \in LiveIds(comments) => row.author = comments[k].author /\ row.post = comments[k].post

\* Rows are deleted, with all the rows that refer to them.
Deletion ==
    \E U, P, K :
       /\ users' = Without(users, U)
       /\ posts' = Without(posts, P)
       /\ comments' = Without(comments, K)
       /\ \A p \in LiveIds(posts) : posts[p].author \in U => p \in P
       /\ \A k \in LiveIds(comments) :
             comments[k].author \in U \/ comments[k].post \in P \cap LiveIds(posts) => k \in K

TablesStep == UNCHANGED tables \/ UserWrite \/ PostWrite \/ CommentWrite \/ Deletion

LEMMA RowMarkers ==
    /\ Fresh \notin UserRows /\ Gone \notin UserRows
    /\ Fresh \notin PostRows /\ Gone \notin PostRows
    /\ Fresh \notin CommentRows /\ Gone \notin CommentRows
BY StoreAssumption

\* User-table actions.
LEMMA UserStepTables ==
    ASSUME TypeInv, NEW c \in Clients, UserStep(c)
    PROVE  TablesStep
<1> DEFINE call == req[c].call
<1>1. TablesOK /\ ReqOK /\ UsersOK /\ PostsOK /\ CommentsOK
  BY TypeInvParts DEF TablesOK
<1>2. LiveIds(users) \subseteq UserIds /\ FreshIds(users) \subseteq UserIds
  BY <1>1, LiveRows DEF UsersOK
<1>3. CASE \/ Login(c) \/ ListUsers(c) \/ CountUsers(c) \/ CreateUserRole(c)
           \/ GetUser(c) \/ UpdateUserRole(c) \/ UpdateUserLoad(c) \/ ReplaceUserRole(c)
  BY <1>3 DEF Login, ListUsers, CountUsers, CreateUserRole, GetUser, UpdateUserRole,
              UpdateUserLoad, ReplaceUserRole, LookupRole, TablesStep
<1>4. ASSUME NEW u \in UserIds, NEW salt \in Salts, NEW op \in {"CreateUser", "ReplaceUser"},
             Serves(c, op, "main"), users[u] # Gone,
             ~EmailTaken(users, call.email, u),
             users' = [users EXCEPT ![u] = UserRow(call, salt)], UNCHANGED <<posts, comments>>
      PROVE  TablesStep
  <2>1. /\ call \in OpCalls /\ call.op \in {"CreateUser", "ReplaceUser"}
        /\ call.password # None /\ call.role \in Roles
    BY <1>1, <1>4 DEF ReqOK, Serves, Admitted, Running
  <2>2. UserRow(call, salt) \in UserRows
    BY <2>1, UserRowType
  <2>3. /\ UserRow(call, salt).email = call.email
        /\ UserRow(call, salt).hash.salt = UserRow(call, salt).salt
    BY DEF UserRow, HashOf
  <2> QED
    BY <1>4, <2>2, <2>3 DEF TablesStep, UserWrite
<1>5. CASE CreateUser(c)
  <2>1. CASE UNCHANGED users
    BY <1>5, <2>1 DEF CreateUser, TablesStep, tables
  <2>2. CASE /\ ~EmailTaken(users, call.email, None)
             /\ \E u \in FreshIds(users), salt \in Salts :
                   users' = [users EXCEPT ![u] = UserRow(call, salt)]
    <3>1. PICK u \in FreshIds(users), salt \in Salts :
             users' = [users EXCEPT ![u] = UserRow(call, salt)]
      BY <2>2
    <3>2. u \in UserIds /\ users[u] # Gone
      BY <1>2, <3>1, StoreAssumption DEF FreshIds
    <3>3. ~EmailTaken(users, call.email, u)
      BY <1>2, <2>2, <3>1, StoreAssumption DEF EmailTaken, FreshIds, LiveIds
    <3>4. Serves(c, "CreateUser", "main") /\ UNCHANGED <<posts, comments>>
      BY <1>5 DEF CreateUser
    <3> QED
      BY <1>4, <3>1, <3>2, <3>3, <3>4
  <2> QED
    BY <1>5, <2>1, <2>2 DEF CreateUser
<1>6. CASE ReplaceUser(c)
  <2>1. CASE UNCHANGED users
    BY <1>6, <2>1 DEF ReplaceUser, TablesStep, tables
  <2>2. CASE /\ call.user \in LiveIds(users) /\ ~EmailTaken(users, call.email, call.user)
             /\ \E salt \in Salts : users' = [users EXCEPT ![call.user] = UserRow(call, salt)]
    <3>1. PICK salt \in Salts : users' = [users EXCEPT ![call.user] = UserRow(call, salt)]
      BY <2>2
    <3>2. call.user \in UserIds /\ users[call.user] # Gone
      BY <1>2, <2>2 DEF LiveIds
    <3>3. Serves(c, "ReplaceUser", "main") /\ UNCHANGED <<posts, comments>>
      BY <1>6 DEF ReplaceUser
    <3> QED
      BY <1>4, <2>2, <3>1, <3>2, <3>3
  <2> QED
    BY <1>6, <2>1, <2>2 DEF ReplaceUser
<1>7. CASE UpdateUser(c)
  <2>1. CASE UNCHANGED users
    BY <1>7, <2>1 DEF UpdateUser, TablesStep, tables
  <2>2. CASE /\ call.user \in LiveIds(users)
             /\ ~(call.email # None /\ EmailTaken(users, call.email, call.user))
             /\ \E salt \in Salts :
                   users' = [users EXCEPT ![call.user] = UpdatedRow(call, users[call.user], salt)]
    <3> DEFINE u == call.user
    <3>1. PICK salt \in Salts : users' = [users EXCEPT ![u] = UpdatedRow(call, users[u], salt)]
      BY <2>2
    <3> DEFINE row == UpdatedRow(call, users[u], salt)
    <3>2. u \in UserIds /\ users[u] \in UserRows /\ users[u] # Gone
      BY <1>1, <1>2, <2>2, LiveRows DEF UsersOK, LiveIds
    <3>3. call \in OpCalls /\ call.op = "UpdateUser" /\ call.role \in Optional(Roles)
      BY <1>1, <1>7 DEF UpdateUser, ReqOK, Serves, Admitted, Running
    <3>4. row \in UserRows
      BY <3>2, <3>3, UpdatedRowType
    <3>5. row.email = Coalesce(call.email, users[u].email)
      BY DEF UpdatedRow
    <3>6. UniqueKeys => ~EmailTaken(users, row.email, u)
      BY <2>2, <3>5 DEF UniqueKeys, EmailTaken, Coalesce
    <3>7. CredentialsUsable => row.hash.salt = row.salt
      BY <2>2 DEF CredentialsUsable, UpdatedRow, HashOf
    <3>8. UNCHANGED <<posts, comments>>
      BY <1>7 DEF UpdateUser
    <3> QED
      BY <3>1, <3>2, <3>4, <3>6, <3>7, <3>8 DEF TablesStep, UserWrite
  <2> QED
    BY <1>7, <2>1, <2>2 DEF UpdateUser
<1>8. CASE DeleteUser(c)
  <2> DEFINE U == {call.user}
             P == PostsOf(posts, call.user)
             K == CommentsOn(comments, P) \cup CommentsBy(comments, call.user)
  <2>1. users' = Without(users, U) /\ posts' = Without(posts, P) /\ comments' = Without(comments, K)
    BY <1>8 DEF DeleteUser
  <2>2. \A p \in LiveIds(posts) : posts[p].author \in U => p \in P
    BY DEF PostsOf
  <2>3. \A k \in LiveIds(comments) :
             comments[k].author \in U \/ comments[k].post \in P \cap LiveIds(posts) => k \in K
    BY DEF CommentsOn, CommentsBy
  <2> QED
    BY <2>1, <2>2, <2>3 DEF TablesStep, Deletion
<1> QED
  BY <1>3, <1>5, <1>6, <1>7, <1>8 DEF UserStep

LEMMA PostStepTables ==
    ASSUME TypeInv, NEW c \in Clients, PostStep(c)
    PROVE  TablesStep
<1> DEFINE call == req[c].call
<1>1. TablesOK /\ ReqOK /\ UsersOK /\ PostsOK /\ CommentsOK
  BY TypeInvParts DEF TablesOK
<1>2. LiveIds(posts) \subseteq PostIds /\ FreshIds(posts) \subseteq PostIds
  BY <1>1, LiveRows DEF PostsOK
<1>3. CASE ListPosts(c) \/ CountPosts(c) \/ GetPost(c)
  BY <1>3 DEF ListPosts, CountPosts, GetPost, TablesStep
<1>4. CASE CreatePost(c)
  <2>1. CASE UNCHANGED posts
    BY <1>4, <2>1 DEF CreatePost, TablesStep, tables
  <2>2. CASE \E suffix \in Suffixes, p \in FreshIds(posts) :
                LET row == PostRow(call.caller, call, suffix)
                IN  /\ row.status \in Statuses
                    /\ ~SlugTaken(posts, row.slug, None)
                    /\ call.caller \in LiveIds(users)
                    /\ posts' = [posts EXCEPT ![p] = row]
    <3>1. PICK suffix \in Suffixes, p \in FreshIds(posts) :
                LET row == PostRow(call.caller, call, suffix)
                IN  /\ row.status \in Statuses
                    /\ ~SlugTaken(posts, row.slug, None)
                    /\ call.caller \in LiveIds(users)
                    /\ posts' = [posts EXCEPT ![p] = row]
      BY <2>2
    <3> DEFINE row == PostRow(call.caller, call, suffix)
    <3>2. call \in CreatePostCalls
      BY <1>1, <1>4, Served, CallFields, StagesAndStatuses DEF CreatePost
    <3>3. call.caller \in UserIds /\ call.title \in Titles
      BY <1>1, <3>1, <3>2, LiveRows DEF CreatePostCalls, UsersOK
    <3>4. row \in PostRows /\ row.author = call.caller
      BY <3>1, <3>3, PostRowType DEF PostRow
    <3>5. p \in PostIds /\ posts[p] # Gone /\ p \notin LiveIds(posts)
      BY <1>2, <3>1, StoreAssumption DEF FreshIds, LiveIds
    <3>6. ~SlugTaken(posts, row.slug, p)
      BY <1>2, <3>1, <3>5, StoreAssumption DEF SlugTaken
    <3>7. UNCHANGED <<users, comments>>
      BY <1>4 DEF CreatePost
    <3> HIDE DEF row
    <3> QED
      BY <3>1, <3>4, <3>5, <3>6, <3>7 DEF TablesStep, PostWrite, row
  <2> QED
    BY <1>4, <2>1, <2>2 DEF CreatePost
<1>5. CASE ReplacePost(c)
  <2> DEFINE p == call.post
  <2>1. CASE UNCHANGED posts
    BY <1>5, <2>1 DEF ReplacePost, TablesStep, tables
  <2>2. CASE \E suffix \in Suffixes :
                /\ ValidStatus(call.status) /\ p \in LiveIds(posts)
                /\ ~SlugTaken(posts, [base |-> call.title, suffix |-> suffix], p)
                /\ posts' = [posts EXCEPT ![p] = PostRow(posts[p].author, call, suffix)]
    <3>1. PICK suffix \in Suffixes :
                /\ ValidStatus(call.status) /\ p \in LiveIds(posts)
                /\ ~SlugTaken(posts, [base |-> call.title, suffix |-> suffix], p)
                /\ posts' = [posts EXCEPT ![p] = PostRow(posts[p].author, call, suffix)]
      BY <2>2
    <3> DEFINE row == PostRow(posts[p].author, call, suffix)
    <3>2. call \in ReplacePostCalls
      BY <1>1, <1>5, Served, CallFields, StagesAndStatuses DEF ReplacePost
    <3>3. posts[p] \in PostRows /\ p \in PostIds /\ posts[p] # Gone
      BY <1>1, <1>2, <3>1, LiveRows DEF PostsOK, LiveIds
    <3>4. posts[p].author \in UserIds /\ call.title \in Titles
      BY <3>2, <3>3 DEF ReplacePostCalls, PostRows
    <3>5. Coalesce(call.status, "draft") \in Statuses
      BY <3>1 DEF ValidStatus, Coalesce, Optional, Statuses
    <3>6. /\ row \in PostRows /\ row.author = posts[p].author
          /\ row.slug = [base |-> call.title, suffix |-> suffix]
      BY <3>4, <3>5, PostRowType DEF PostRow
    <3>7. ReferentialIntegrity => row.author \in LiveIds(users)
      BY <3>1, <3>6 DEF ReferentialIntegrity
    <3>8. UNCHANGED <<users, comments>>
      BY <1>5 DEF ReplacePost
    <3> HIDE DEF row
    <3> QED
      BY <3>1, <3>3, <3>6, <3>7, <3>8 DEF TablesStep, PostWrite, row
  <2> QED
    BY <1>5, <2>1, <2>2 DEF ReplacePost
<1>6. CASE DeletePost(c)
  <2> DEFINE P == {call.post}
             K == CommentsOn(comments, P)
  <2>1. users' = users /\ posts' = Without(posts, P) /\ comments' = Without(comments, K)
    BY <1>6 DEF DeletePost
  <2>2. users' = Without(users, {})
    BY <1>1, <2>1 DEF Without, UsersOK
  <2>3. \A k \in LiveIds(comments) : comments[k].post \in P \cap LiveIds(posts) => k \in K
    BY DEF CommentsOn
  <2> QED
    BY <2>1, <2>2, <2>3 DEF TablesStep, Deletion
<1> QED
  BY <1>3, <1>4, <1>5, <1>6 DEF PostStep

LEMMA CommentStepTables ==
    ASSUME TypeInv, NEW c \in Clients, CommentStep(c)
    PROVE  TablesStep
<1> DEFINE call == req[c].call
<1>1. TablesOK /\ ReqOK /\ UsersOK /\ PostsOK /\ CommentsOK
  BY TypeInvParts DEF TablesOK
<1>2. LiveIds(comments) \subseteq CommentIds /\ FreshIds(comments) \subseteq CommentIds
  BY <1>1, LiveRows DEF CommentsOK
<1>3. CASE ListCommentsPost(c) \/ ListComments(c) \/ CountComments(c)
  BY <1>3 DEF ListCommentsPost, ListComments, CountComments, TablesStep
<1>4. CASE CreateComment(c)
  <2> DEFINE row == [post |-> call.post, author |-> call.caller, text |-> call.text]
  <2>1. CASE UNCHANGED comments
    BY <1>4, <2>1 DEF CreateComment, TablesStep, tables
  <2>2. CASE /\ call.post \in LiveIds(posts) /\ call.caller \in LiveIds(users)
             /\ \E k \in FreshIds(comments) : comments' = [comments EXCEPT ![k] = row]
    <3>1. PICK k \in FreshIds(comments) : comments' = [comments EXCEPT ![k] = row]
      BY <2>2
    <3>2. call \in CreateCommentCalls
      BY <1>1, <1>4, Served, CallFields, StagesAndStatuses DEF CreateComment
    <3>3. call.caller \in UserIds /\ call.post \in PostIds
      BY <1>1, <2>2, LiveRows DEF UsersOK, PostsOK
    <3>4. row \in CommentRows /\ row.author = call.caller /\ row.post = call.post
      BY <3>2, <3>3 DEF CreateCommentCalls, CommentRows
    <3>5. k \in CommentIds /\ comments[k] # Gone /\ k \notin LiveIds(comments)
      BY <1>2, <3>1, StoreAssumption DEF FreshIds, LiveIds
    <3>6. UNCHANGED <<users, posts>>
      BY <1>4 DEF CreateComment
    <3> HIDE DEF row
    <3> QED
      BY <2>2, <3>1, <3>4, <3>5, <3>6 DEF TablesStep, CommentWrite, row
  <2> QED
    BY <1>4, <2>1, <2>2 DEF CreateComment
<1>5. CASE UpdateComment(c)
  <2> DEFINE k   == call.comment
             row == [comments[k] EXCEPT !.text = call.text]
  <2>1. CASE UNCHANGED comments
    BY <1>5, <2>1 DEF UpdateComment, TablesStep, tables
  <2>2. CASE k \in LiveIds(comments) /\ comments' = [comments EXCEPT ![k] = row]
    <3>1. call \in UpdateCommentCalls
      BY <1>1, <1>5, Served, CallFields, StagesAndStatuses DEF UpdateComment
    <3>2. comments[k] \in CommentRows /\ k \in CommentIds /\ comments[k] # Gone
      BY <1>1, <1>2, <2>2, LiveRows DEF CommentsOK, LiveIds
    <3>3. row \in CommentRows /\ row.author = comments[k].author /\ row.post = comments[k].post
      BY <3>1, <3>2 DEF UpdateCommentCalls, CommentRows
    <3>4. ReferentialIntegrity => row.author \in LiveIds(users) /\ row.post \in LiveIds(posts)
      BY <2>2, <3>3 DEF ReferentialIntegrity
    <3>5. UNCHANGED <<users, posts>>
      BY <1>5 DEF UpdateComment
    <3> HIDE DEF row
    <3> QED
      BY <2>2, <3>2, <3>3, <3>4, <3>5 DEF TablesStep, CommentWrite, row
  <2> QED
    BY <1>5, <2>1, <2>2 DEF UpdateComment
<1>6. CASE DeleteComment(c)
  <2>1. users' = users /\ posts' = posts /\ comments' = Without(comments, {call.comment})
    BY <1>6 DEF DeleteComment
  <2>2. users' = Without(users, {}) /\ posts' = Without(posts, {})
    BY <1>1, <2>1 DEF Without, UsersOK, PostsOK
  <2> QED
    BY <2>1, <2>2 DEF TablesStep, Deletion
<1> QED
  BY <1>3, <1>4, <1>5, <1>6 DEF CommentStep

\* Every step of the specification makes one of the four changes or none.
LEMMA NextTables == TypeInv /\ [Next]_vars => TablesStep
<1> SUFFICES ASSUME TypeInv, [Next]_vars PROVE TablesStep
  OBVIOUS
<1>1. CASE UNCHANGED vars
  BY <1>1 DEF vars, tables, TablesStep
<1>2. ASSUME NEW c \in Clients,
             Receive(c) \/ ReceiveMalformed(c) \/ Handle(c) \/ Return(c)
      PROVE  TablesStep
  <2>1. CASE Receive(c) \/ ReceiveMalformed(c) \/ StatementFails(c) \/ Return(c)
    BY <2>1 DEF Receive, ReceiveMalformed, StatementFails, Return, TablesStep
  <2> QED
    BY <1>2, <2>1, UserStepTables, PostStepTables, CommentStepTables DEF Handle
<1> QED
  BY <1>1, <1>2 DEF Next

-----------------------------------------------------------------------------
(* Each change keeps the integrity of the tables.                          *)

LEMMA WithoutRows ==
    ASSUME NEW table, NEW ids
    PROVE  /\ LiveIds(Without(table, ids)) = LiveIds(table) \ ids
           /\ \A i \in LiveIds(table) \ ids : Without(table, ids)[i] = table[i]
BY DEF Without, LiveIds

LEMMA UserWriteSafe ==
    ASSUME TypeInv, Integrity, UserWrite
    PROVE  Integrity'
<1>1. PICK u \in UserIds, row \in UserRows :
         /\ users' = [users EXCEPT ![u] = row]
         /\ UNCHANGED <<posts, comments>>
         /\ UniqueKeys => ~EmailTaken(users, row.email, u)
         /\ CredentialsUsable => row.hash.salt = row.salt
  BY DEF UserWrite
<1>2. u \in DOMAIN users /\ row \notin {Fresh, Gone}
  BY RowMarkers DEF TypeInv, TypeOK
<1>3. /\ LiveIds(users') = LiveIds(users) \cup {u}
      /\ users'[u] = row
      /\ \A v \in LiveIds(users) \ {u} : users'[v] = users[v]
  BY <1>1, <1>2 DEF LiveIds
<1>4. ReferentialIntegrity'
  BY <1>1, <1>3 DEF Integrity, ReferentialIntegrity
<1>5. \A v \in LiveIds(users) \ {u} : users[v].email # row.email
  BY <1>1 DEF Integrity, EmailTaken
<1>6. \A v, w \in LiveIds(users') : users'[v].email = users'[w].email => v = w
  BY <1>3, <1>5 DEF Integrity, UniqueKeys
<1>7. UniqueKeys'
  BY <1>1, <1>6 DEF Integrity, UniqueKeys
<1>8. CredentialsUsable'
  BY <1>1, <1>3 DEF Integrity, CredentialsUsable
<1> QED
  BY <1>4, <1>7, <1>8 DEF Integrity

LEMMA PostWriteSafe ==
    ASSUME TypeInv, Integrity, PostWrite
    PROVE  Integrity'
<1>1. PICK p \in PostIds, row \in PostRows :
         /\ posts' = [posts EXCEPT ![p] = row]
         /\ UNCHANGED <<users, comments>>
         /\ ~SlugTaken(posts, row.slug, p)
         /\ ReferentialIntegrity => row.author \in LiveIds(users)
  BY DEF PostWrite
<1>2. p \in DOMAIN posts /\ row \notin {Fresh, Gone}
  BY RowMarkers DEF TypeInv, TypeOK
<1>3. /\ LiveIds(posts') = LiveIds(posts) \cup {p}
      /\ posts'[p] = row
      /\ \A q \in LiveIds(posts) \ {p} : posts'[q] = posts[q]
  BY <1>1, <1>2 DEF LiveIds
<1>4. ReferentialIntegrity'
  BY <1>1, <1>3 DEF Integrity, ReferentialIntegrity
<1>5. \A q \in LiveIds(posts) \ {p} : posts[q].slug # row.slug
  BY <1>1 DEF SlugTaken
<1>6. \A q, r \in LiveIds(posts') : posts'[q].slug = posts'[r].slug => q = r
  BY <1>3, <1>5 DEF Integrity, UniqueKeys
<1>7. UniqueKeys'
  BY <1>1, <1>6 DEF Integrity, UniqueKeys
<1>8. CredentialsUsable'
  BY <1>1 DEF Integrity, CredentialsUsable
<1> QED
  BY <1>4, <1>7, <1>8 DEF Integrity

LEMMA CommentWriteSafe ==
    ASSUME TypeInv, Integrity, CommentWrite
    PROVE  Integrity'
<1>1. PICK k \in CommentIds, row \in CommentRows :
         /\ comments' = [comments EXCEPT ![k] = row]
         /\ UNCHANGED <<users, posts>>
         /\ ReferentialIntegrity => row.author \in LiveIds(users) /\ row.post \in LiveIds(posts)
  BY DEF CommentWrite
<1>2. k \in DOMAIN comments /\ row \notin {Fresh, Gone}
  BY RowMarkers DEF TypeInv, TypeOK
<1>3. /\ LiveIds(comments') = LiveIds(comments) \cup {k}
      /\ comments'[k] = row
      /\ \A j \in LiveIds(comments) \ {k} : comments'[j] = comments[j]
  BY <1>1, <1>2 DEF LiveIds
<1>4. ReferentialIntegrity'
  BY <1>1, <1>3 DEF Integrity, ReferentialIntegrity
<1>5. UniqueKeys' /\ CredentialsUsable'
  BY <1>1 DEF Integrity, UniqueKeys, CredentialsUsable
<1> QED
  BY <1>4, <1>5 DEF Integrity

LEMMA DeletionSafe ==
    ASSUME TypeInv, Integrity, Deletion
    PROVE  Integrity'
<1>1. PICK U, P, K :
         /\ users' = Without(users, U)
         /\ posts' = Without(posts, P)
         /\ comments' = Without(comments, K)
         /\ \A p \in LiveIds(posts) : posts[p].author \in U => p \in P
         /\ \A k \in LiveIds(comments) :
               comments[k].author \in U \/ comments[k].post \in P \cap LiveIds(posts) => k \in K
  BY DEF Deletion
<1>2. /\ LiveIds(users') = LiveIds(users) \ U
      /\ \A u \in LiveIds(users') : users'[u] = users[u]
  BY <1>1, WithoutRows
<1>3. /\ LiveIds(posts') = LiveIds(posts) \ P
      /\ \A p \in LiveIds(posts') : posts'[p] = posts[p]
  BY <1>1, WithoutRows
<1>4. /\ LiveIds(comments') = LiveIds(comments) \ K
      /\ \A k \in LiveIds(comments') : comments'[k] = comments[k]
  BY <1>1, WithoutRows
<1>5. ReferentialIntegrity'
  BY <1>1, <1>2, <1>3, <1>4 DEF Integrity, ReferentialIntegrity
<1>6. UniqueKeys'
  BY <1>2, <1>3 DEF Integrity, UniqueKeys
<1>7. CredentialsUsable'
  BY <1>2 DEF Integrity, CredentialsUsable
<1> QED
  BY <1>5, <1>6, <1>7 DEF Integrity

-----------------------------------------------------------------------------
(* The theorems.                                                           *)

LEMMA IntegrityInit == Init => Integrity
<1> SUFFICES ASSUME Init PROVE Integrity
  OBVIOUS
<1>1. LiveIds(posts) = {} /\ LiveIds(comments) = {}
  BY DEF Init, LiveIds
<1>2. \A u \in LiveIds(users) : u \in DOMAIN Seed /\ users[u] = Seed[u]
  BY SeedAssumption DEF Init, LiveIds
<1>3. UniqueKeys
  BY <1>1, <1>2, SeedAssumption DEF UniqueKeys
<1>4. CredentialsUsable
  BY <1>2, SeedAssumption DEF CredentialsUsable
<1> QED
  BY <1>1, <1>3, <1>4 DEF Integrity, ReferentialIntegrity

LEMMA IntegrityStep == TypeInv /\ Integrity /\ [Next]_vars => Integrity'
<1> SUFFICES ASSUME TypeInv, Integrity, [Next]_vars PROVE Integrity'
  OBVIOUS
<1>1. TablesStep
  BY NextTables
<1>2. CASE UNCHANGED tables
  BY <1>2 DEF tables, Integrity, ReferentialIntegrity, UniqueKeys, CredentialsUsable
<1> QED
  BY <1>1, <1>2, UserWriteSafe, PostWriteSafe, CommentWriteSafe, DeletionSafe DEF TablesStep

\* References, keys and credentials are sound in every reachable state.
THEOREM IntegrityHolds == Spec => []Integrity
BY TypeInit, TypeStep, IntegrityInit, IntegrityStep, PTL DEF Spec

\* Every post and comment refers to rows that exist, through every interleaving
\* of creations with the cascading deletions.
THEOREM References == Spec => []ReferentialIntegrity
<1>1. Integrity => ReferentialIntegrity
  BY DEF Integrity
<1> QED
  BY <1>1, IntegrityHolds, PTL

\* No two users share an e-mail address and no two posts a slug.
THEOREM Keys == Spec => []UniqueKeys
<1>1. Integrity => UniqueKeys
  BY DEF Integrity
<1> QED
  BY <1>1, IntegrityHolds, PTL

\* Every stored hash was made with the salt stored beside it.
THEOREM Credentials == Spec => []CredentialsUsable
<1>1. Integrity => CredentialsUsable
  BY DEF Integrity
<1> QED
  BY <1>1, IntegrityHolds, PTL

-----------------------------------------------------------------------------
(* Authorship, and ids that stay deleted.                                  *)

\* Every change keeps the deleted ids deleted, the drawn ids drawn, and the
\* authors and posts of the rows that survive it.
LEMMA ChangesKeepAuthors ==
    ASSUME TypeInv, TablesStep
    PROVE  /\ KeepsAuthors
           /\ Drawn(users) \subseteq Drawn(users')
           /\ Drawn(posts) \subseteq Drawn(posts')
           /\ Drawn(comments) \subseteq Drawn(comments')
<1> DEFINE Goal == /\ KeepsAuthors
                   /\ Drawn(users) \subseteq Drawn(users')
                   /\ Drawn(posts) \subseteq Drawn(posts')
                   /\ Drawn(comments) \subseteq Drawn(comments')
<1>1. CASE UNCHANGED tables
  BY <1>1 DEF tables, KeepsAuthors
<1>2. CASE UserWrite
  <2>1. PICK u \in UserIds, row \in UserRows :
           /\ users' = [users EXCEPT ![u] = row]
           /\ UNCHANGED <<posts, comments>>
           /\ users[u] # Gone
    BY <1>2 DEF UserWrite
  <2>2. row # Fresh
    BY RowMarkers
  <2>3. GoneIds(users) \subseteq GoneIds(users') /\ Drawn(users) \subseteq Drawn(users')
    BY <2>1, <2>2 DEF GoneIds, Drawn
  <2> QED
    BY <2>1, <2>3 DEF KeepsAuthors
<1>3. CASE PostWrite
  <2>1. PICK p \in PostIds, row \in PostRows :
           /\ posts' = [posts EXCEPT ![p] = row]
           /\ UNCHANGED <<users, comments>>
           /\ posts[p] # Gone
           /\ p \in LiveIds(posts) => row.author = posts[p].author
    BY <1>3 DEF PostWrite
  <2>2. row # Fresh
    BY RowMarkers
  <2>3. GoneIds(posts) \subseteq GoneIds(posts') /\ Drawn(posts) \subseteq Drawn(posts')
    BY <2>1, <2>2 DEF GoneIds, Drawn
  <2>4. \A q \in LiveIds(posts) : posts'[q].author = posts[q].author
    BY <2>1 DEF LiveIds
  <2> QED
    BY <2>1, <2>3, <2>4 DEF KeepsAuthors
<1>4. CASE CommentWrite
  <2>1. PICK k \in CommentIds, row \in CommentRows :
           /\ comments' = [comments EXCEPT ![k] = row]
           /\ UNCHANGED <<users, posts>>
           /\ comments[k] # Gone
           /\ k \in LiveIds(comments) =>
                 row.author = comments[k].author /\ row.post = comments[k].post
    BY <1>4 DEF CommentWrite
  <2>2. row # Fresh
    BY RowMarkers
  <2>3. GoneIds(comments) \subseteq GoneIds(comments') /\ Drawn(comments) \subseteq Drawn(comments')
    BY <2>1, <2>2 DEF GoneIds, Drawn
  <2>4. \A j \in LiveIds(comments) :
           comments'[j].author = comments[j].author /\ comments'[j].post = comments[j].post
    BY <2>1 DEF LiveIds
  <2> QED
    BY <2>1, <2>3, <2>4 DEF KeepsAuthors
<1>5. CASE Deletion
  <2>1. PICK U, P, K :
           users' = Without(users, U) /\ posts' = Without(posts, P) /\ comments' = Without(comments, K)
    BY <1>5 DEF Deletion
  <2>2. ASSUME NEW table, NEW ids
        PROVE  /\ GoneIds(table) \subseteq GoneIds(Without(table, ids))
               /\ Drawn(table) \subseteq Drawn(Without(table, ids))
    BY StoreAssumption DEF GoneIds, Drawn, Without, LiveIds
  <2>3. /\ GoneIds(users) \subseteq GoneIds(users') /\ Drawn(users) \subseteq Drawn(users')
        /\ GoneIds(posts) \subseteq GoneIds(posts') /\ Drawn(posts) \subseteq Drawn(posts')
        /\ GoneIds(comments) \subseteq GoneIds(comments') /\ Drawn(comments) \subseteq Drawn(comments')
    BY <2>1, <2>2
  <2>4. /\ \A p \in LiveIds(posts') : posts'[p] = posts[p]
        /\ \A k \in LiveIds(comments') : comments'[k] = comments[k]
    BY <2>1, WithoutRows
  <2> QED
    BY <2>3, <2>4 DEF KeepsAuthors
<1> QED
  BY <1>1, <1>2, <1>3, <1>4, <1>5 DEF TablesStep

\* No request re-attributes a post or a comment or reuses the id of a deleted row.
THEOREM Authorship == Spec => AuthorshipFixed
<1>1. TypeInv /\ [Next]_vars => [KeepsAuthors]_vars
  BY NextTables, ChangesKeepAuthors
<1> QED
  BY <1>1, TypeInit, TypeStep, PTL DEF Spec, AuthorshipFixed

-----------------------------------------------------------------------------
(* Deleted stays deleted.                                                  *)

\* The row a delete operation names is gone.
TargetGone(call) ==
    /\ call.op = "DeleteUser" => call.user \in GoneIds(users)
    /\ call.op = "DeletePost" => call.post \in GoneIds(posts)
    /\ call.op = "DeleteComment" => call.comment \in GoneIds(comments)

\* The strengthening: a call in service names rows that were drawn, none of which
\* a creation can draw again, and is not answered yet; one answered 204 names a
\* row that is gone for good.
DeletionInv ==
    \A c \in Clients :
       /\ req[c].stage \in Running => Names(req[c].call) /\ req[c].status = 0
       /\ req[c].status = 204 => TargetGone(req[c].call)

DeleteStep(c) == DeleteUser(c) \/ DeletePost(c) \/ DeleteComment(c)

\* What a step of a request in service does to the request.
Moves(c) ==
    \/ \E stage \in Running : \E rows : Continue(c, stage, rows)
    \/ \E status \in HttpStatuses : \E rows :
          Answer(c, status, rows) /\ (status = 204 => DeleteStep(c))
    \/ \E total : AnswerList(c, total)

LEMMA ErrorMoves ==
    ASSUME NEW c, ServerError(c)
    PROVE  Moves(c)
BY StagesAndStatuses DEF ServerError, Moves

LEMMA AnswerMoves ==
    ASSUME NEW c, NEW status \in HttpStatuses \ {204}, NEW rows, Answer(c, status, rows)
    PROVE  Moves(c)
BY DEF Moves

LEMMA WrittenMoves ==
    ASSUME NEW c, NEW status \in HttpStatuses, NEW rows, AnswerWritten(c, status, rows),
           status = 204 => DeleteStep(c)
    PROVE  Moves(c)
BY ErrorMoves DEF AnswerWritten, Moves

LEMMA ContinueMoves ==
    ASSUME NEW c, NEW stage \in Running, NEW rows, Continue(c, stage, rows)
    PROVE  Moves(c)
BY DEF Moves

LEMMA HandleMoves ==
    ASSUME NEW c \in Clients, Handle(c)
    PROVE  Moves(c)
<1> USE StagesAndStatuses, ErrorMoves, AnswerMoves, WrittenMoves, ContinueMoves
<1>1. CASE StatementFails(c)
  BY <1>1 DEF StatementFails
<1>2. CASE Login(c) \/ GetUser(c) \/ UpdateUserLoad(c) \/ GetPost(c)
  <2>1. \E status \in {200, 401, 404} : \E rows : Answer(c, status, rows)
    <3>1. CASE Login(c)
      <4>1. Answer(c, 401, {}) \/ \E rows : Answer(c, 200, rows)
        BY <3>1, Zenon DEF Login
      <4> QED
        BY <4>1
    <3>2. CASE GetUser(c)
      BY <3>2 DEF GetUser
    <3>3. CASE UpdateUserLoad(c)
      BY <3>3 DEF UpdateUserLoad
    <3>4. CASE GetPost(c)
      BY <3>4 DEF GetPost
    <3> QED
      BY <1>2, <3>1, <3>2, <3>3, <3>4
  <2> QED
    BY <2>1
<1>3. CASE CreateUserRole(c) \/ ReplaceUserRole(c) \/ UpdateUserRole(c) \/ ListCommentsPost(c)
  <2>1. \/ \E status \in {404, 422} : Answer(c, status, {})
        \/ ServerError(c)
        \/ Continue(c, "main", {})
    BY <1>3 DEF CreateUserRole, ReplaceUserRole, LookupRole, UpdateUserRole, ListCommentsPost
  <2> QED
    BY <2>1
<1>4. CASE ListUsers(c) \/ ListPosts(c) \/ ListComments(c)
  <2>1. ServerError(c) \/ \E rows : Continue(c, "count", rows)
    BY <1>4 DEF ListUsers, ListPosts, ListComments
  <2> QED
    BY <2>1
<1>5. CASE CountUsers(c) \/ CountPosts(c) \/ CountComments(c)
  BY <1>5 DEF CountUsers, CountPosts, CountComments, Moves
<1>6. CASE CreateUser(c)
  <2>1. Answer(c, 409, {}) \/ \E rows : AnswerWritten(c, 201, rows)
    BY <1>6 DEF CreateUser
  <2> QED
    BY <2>1
<1>7. CASE UpdateUser(c)
  <2>1. \/ \E status \in {404, 409} : Answer(c, status, {})
        \/ \E rows : Continue(c, "load", rows)
        \/ ServerError(c)
    BY <1>7, ZenonT(40) DEF UpdateUser
  <2> QED
    BY <2>1
<1>8. CASE ReplaceUser(c)
  <2>1. \/ \E status \in {404, 409} : Answer(c, status, {})
        \/ \E rows : AnswerWritten(c, 200, rows)
    BY <1>8, ZenonT(40) DEF ReplaceUser
  <2> QED
    BY <2>1
<1>9. CASE CreatePost(c)
  <2>1. ServerError(c) \/ \E rows : AnswerWritten(c, 201, rows)
    BY <1>9 DEF CreatePost
  <2> QED
    BY <2>1
<1>10. CASE ReplacePost(c)
  <2>1. ServerError(c) \/ Answer(c, 404, {}) \/ \E rows : AnswerWritten(c, 200, rows)
    BY <1>10 DEF ReplacePost
  <2> QED
    BY <2>1
<1>11. CASE CreateComment(c) \/ UpdateComment(c)
  <2>1. \/ ServerError(c) \/ Answer(c, 404, {})
        \/ \E status \in {200, 201} : \E rows : AnswerWritten(c, status, rows)
    <3>1. CASE CreateComment(c)
      <4>1. ServerError(c) \/ \E rows : AnswerWritten(c, 201, rows)
        BY <3>1, Zenon DEF CreateComment
      <4> QED
        BY <4>1
    <3>2. CASE UpdateComment(c)
      BY <3>2 DEF UpdateComment
    <3> QED
      BY <1>11, <3>1, <3>2
  <2> QED
    BY <2>1
<1>12. CASE DeleteStep(c)
  BY <1>12, ZenonT(40) DEF DeleteStep, DeleteUser, DeletePost, DeleteComment
<1> QED
  BY <1>1, <1>2, <1>3, <1>4, <1>5, <1>6, <1>7, <1>8, <1>9, <1>10, <1>11, <1>12
     DEF Handle, UserStep, PostStep, CommentStep, DeleteStep

\* A deletion leaves no row under an id that was drawn.
LEMMA DeleteTakes ==
    ASSUME TypeInv, NEW c \in Clients, DeleteStep(c), Names(req[c].call)
    PROVE  TargetGone(req[c].call)'
<1> DEFINE call == req[c].call
<1>0. req'[c].call = call
  <2>1. req[c] \in Requests /\ req \in [Clients -> Requests]
    BY DEF TypeInv, TypeOK
  <2>2. \E status, rows : Answer(c, status, rows)
    BY DEF DeleteStep, DeleteUser, DeletePost, DeleteComment, AnswerWritten, ServerError
  <2> QED
    BY <2>1, <2>2 DEF Answer, Requests
<1>1. ASSUME NEW table, NEW i \in Drawn(table)
      PROVE  i \in GoneIds(Without(table, {i}))
  BY DEF Drawn, GoneIds, Without, LiveIds
<1>2. call \in OpCalls
  BY TypeInvParts, StagesAndStatuses
     DEF DeleteStep, DeleteUser, DeletePost, DeleteComment, Serves, ReqOK
<1>3. CASE DeleteUser(c)
  <2>1. call.op = "DeleteUser" /\ users' = Without(users, {call.user})
    BY <1>3 DEF DeleteUser, Serves
  <2>2. call.user \in Drawn(users)
    BY <1>2, <2>1, CallFields DEF Names, DeleteUserCalls
  <2> QED
    BY <1>0, <1>1, <2>1, <2>2 DEF TargetGone
<1>4. CASE DeletePost(c)
  <2>1. call.op = "DeletePost" /\ posts' = Without(posts, {call.post})
    BY <1>4 DEF DeletePost, Serves
  <2>2. call.post \in Drawn(posts)
    BY <1>2, <2>1, CallFields DEF Names, DeletePostCalls
  <2> QED
    BY <1>0, <1>1, <2>1, <2>2 DEF TargetGone
<1>5. CASE DeleteComment(c)
  <2>1. call.op = "DeleteComment" /\ comments' = Without(comments, {call.comment})
    BY <1>5 DEF DeleteComment, Serves
  <2>2. call.comment \in Drawn(comments)
    BY <1>2, <2>1, CallFields DEF Names, DeleteCommentCalls
  <2> QED
    BY <1>0, <1>1, <2>1, <2>2 DEF TargetGone
<1> QED
  BY <1>3, <1>4, <1>5 DEF DeleteStep

LEMMA DeletionStep == TypeInv /\ DeletionInv /\ [Next]_vars => DeletionInv'
<1> SUFFICES ASSUME TypeInv, DeletionInv, [Next]_vars PROVE DeletionInv'
  OBVIOUS
<1> DEFINE Sound(d) ==
       /\ req[d].stage \in Running => Names(req[d].call) /\ req[d].status = 0
       /\ req[d].status = 204 => TargetGone(req[d].call)
<1>1. ReqOK
  BY TypeInvParts
<1>2. /\ KeepsAuthors
      /\ Drawn(users) \subseteq Drawn(users')
      /\ Drawn(posts) \subseteq Drawn(posts')
      /\ Drawn(comments) \subseteq Drawn(comments')
  BY NextTables, ChangesKeepAuthors
<1>3. ASSUME NEW d \in Clients, req'[d].call = req[d].call, Names(req[d].call)
      PROVE  Names(req[d].call)'
  BY <1>2, <1>3 DEF Names, Optional
<1>4. ASSUME NEW d \in Clients, req'[d].call = req[d].call, TargetGone(req[d].call)
      PROVE  TargetGone(req[d].call)'
  BY <1>2, <1>4 DEF TargetGone, KeepsAuthors
<1>5. ASSUME NEW d \in Clients, req'[d] = req[d] PROVE Sound(d)'
  BY <1>3, <1>4, <1>5 DEF DeletionInv
<1>6. CASE UNCHANGED vars
  BY <1>5, <1>6 DEF vars, DeletionInv
<1>7. ASSUME NEW c \in Clients, Handle(c) PROVE DeletionInv'
  <2>1. \A d \in Clients \ {c} : req'[d] = req[d]
    BY <1>1, <1>7, HandleMoves, ZenonT(40) DEF Moves, Continue, Answer, AnswerList, ReqOK
  <2>2. req[c].stage \in Running
    BY <1>7, StagesAndStatuses
       DEF Handle, UserStep, PostStep, CommentStep, StatementFails, Serves, Login, ListUsers,
           CountUsers, CreateUserRole, CreateUser, GetUser, UpdateUserRole, UpdateUser,
           UpdateUserLoad, ReplaceUserRole, ReplaceUser, DeleteUser, LookupRole, ListPosts,
           CountPosts, CreatePost, GetPost, ReplacePost, DeletePost, ListCommentsPost,
           ListComments, CountComments, CreateComment, UpdateComment, DeleteComment
  <2>3. Names(req[c].call) /\ req[c].status = 0 /\ req[c] \in Requests
    BY <1>1, <2>2 DEF DeletionInv, ReqOK
  <2>4. CASE \E stage \in Running : \E rows : Continue(c, stage, rows)
    <3>1. req'[c].call = req[c].call /\ req'[c].status = 0
      BY <1>1, <2>3, <2>4 DEF Continue, ReqOK, Requests
    <3> QED
      BY <1>3, <1>5, <2>1, <2>3, <3>1 DEF DeletionInv
  <2>5. CASE \E status \in HttpStatuses : \E rows :
                Answer(c, status, rows) /\ (status = 204 => DeleteStep(c))
    <3>0. PICK status \in HttpStatuses : \E rows :
             Answer(c, status, rows) /\ (status = 204 => DeleteStep(c))
      BY <2>5
    <3>1. PICK rows : Answer(c, status, rows) /\ (status = 204 => DeleteStep(c))
      BY <3>0
    <3>2. req'[c].call = req[c].call /\ req'[c].status = status /\ req'[c].stage \notin Running
      BY <1>1, <2>3, <3>1 DEF Answer, ReqOK, Requests, Running
    <3>3. Sound(c)'
      BY <2>3, <3>1, <3>2, DeleteTakes
    <3> QED
      BY <1>5, <2>1, <3>3 DEF DeletionInv
  <2>6. CASE \E total : AnswerList(c, total)
    <3>1. req'[c].status = 200 /\ req'[c].stage \notin Running
      BY <1>1, <2>3, <2>6 DEF AnswerList, ReqOK, Requests, Running
    <3> QED
      BY <1>5, <2>1, <3>1 DEF DeletionInv
  <2> QED
    BY <1>7, <2>4, <2>5, <2>6, HandleMoves DEF Moves
<1>8. ASSUME NEW c \in Clients, Receive(c) \/ ReceiveMalformed(c) \/ Return(c)
      PROVE  DeletionInv'
  <2>1. \A d \in Clients \ {c} : req'[d] = req[d]
    BY <1>1, <1>8 DEF Receive, ReceiveMalformed, Return, ReqOK
  <2>2. CASE Receive(c)
    <3>1. PICK call \in OpCalls :
             /\ Names(call)
             /\ req'[c] = IF EarlyStatus(call) # 0
                          THEN Request("done", call, EarlyStatus(call))
                          ELSE Request(FirstStage(call), call, 0)
      BY <1>1, <2>2 DEF Receive, ReqOK
    <3>2. EarlyStatus(call) # 204 /\ "done" \notin Running
      BY DEF EarlyStatus, Running
    <3>3. /\ req'[c].status # 204
          /\ req'[c].stage \in Running => req'[c].status = 0 /\ req'[c].call = call
      BY <3>1, <3>2 DEF Request
    <3>4. Names(call)'
      BY <2>2, <3>1 DEF Receive, tables, Names
    <3> QED
      BY <1>5, <2>1, <3>3, <3>4 DEF DeletionInv, Names
  <2>3. CASE ReceiveMalformed(c) \/ Return(c)
    <3>1. req'[c].status # 204 /\ req'[c].stage \notin Running
      BY <1>1, <2>3 DEF ReceiveMalformed, Return, Idle, Request, ReqOK, Running
    <3> QED
      BY <1>5, <2>1, <3>1 DEF DeletionInv
  <2> QED
    BY <1>8, <2>2, <2>3
<1> QED
  BY <1>6, <1>7, <1>8 DEF Next

\* A resource whose deletion was answered 204 does not come back, whatever was in
\* flight at the time.
THEOREM Deleted == Spec => []DeletedStaysDeleted
<1>1. Init => DeletionInv
  BY DEF Init, Idle, Request, DeletionInv, Running
<1>2. TypeInv /\ DeletionInv => DeletedStaysDeleted
  BY DEF DeletionInv, DeletedStaysDeleted, Target, TargetGone, GoneIds, LiveIds
<1> QED
  BY <1>1, <1>2, TypeInit, TypeStep, DeletionStep, PTL DEF Spec

-----------------------------------------------------------------------------
(* Refusals leave no trace.                                                *)

\* A handler that changes the tables runs its own statement, and answers a success
\* or a 500 or goes on to read the role.
LEMMA WritersAnswer ==
    ASSUME NEW c \in Clients, Handle(c), tables' # tables
    PROVE  /\ req[c].stage = "main"
           /\ \/ \E status \in {200, 201, 204, 500} : \E rows : Answer(c, status, rows)
              \/ \E rows : Continue(c, "load", rows)
<1> DEFINE Goal == /\ req[c].stage = "main"
                   /\ \/ \E status \in {200, 201, 204, 500} : \E rows : Answer(c, status, rows)
                      \/ \E rows : Continue(c, "load", rows)
<1>1. ASSUME NEW op, Serves(c, op, "main"),
             \/ ServerError(c)
             \/ \E status \in {200, 201, 204} : \E rows : AnswerWritten(c, status, rows)
             \/ \E rows : Continue(c, "load", rows)
      PROVE  Goal
  BY <1>1 DEF Serves, ServerError, AnswerWritten
<1>2. CASE \/ Login(c) \/ ListUsers(c) \/ CountUsers(c) \/ CreateUserRole(c) \/ GetUser(c)
           \/ UpdateUserRole(c) \/ UpdateUserLoad(c) \/ ReplaceUserRole(c) \/ ListPosts(c)
           \/ CountPosts(c) \/ GetPost(c) \/ ListCommentsPost(c) \/ ListComments(c)
           \/ CountComments(c) \/ StatementFails(c)
  <2>1. UNCHANGED tables
    BY <1>2, Zenon DEF Login, ListUsers, CountUsers, CreateUserRole, GetUser, UpdateUserRole,
             UpdateUserLoad, ReplaceUserRole, LookupRole, ListPosts, CountPosts, GetPost,
             ListCommentsPost, ListComments, CountComments, StatementFails
  <2> QED BY <2>1
<1>3. CASE CreateUser(c)
  <2>1. Serves(c, "CreateUser", "main") /\ \E rows : AnswerWritten(c, 201, rows)
    BY <1>3 DEF CreateUser, tables
  <2> QED BY <1>1, <2>1
<1>4. CASE UpdateUser(c)
  <2>1. /\ Serves(c, "UpdateUser", "main")
        /\ ServerError(c) \/ \E rows : Continue(c, "load", rows)
    BY <1>4, ZenonT(40) DEF UpdateUser, tables
  <2> QED BY <1>1, <2>1
<1>5. CASE ReplaceUser(c)
  <2>1. Serves(c, "ReplaceUser", "main") /\ \E rows : AnswerWritten(c, 200, rows)
    BY <1>5, ZenonT(40) DEF ReplaceUser, tables
  <2> QED BY <1>1, <2>1
<1>6. CASE CreatePost(c)
  <2>1. Serves(c, "CreatePost", "main") /\ \E rows : AnswerWritten(c, 201, rows)
    BY <1>6 DEF CreatePost, tables
  <2> QED BY <1>1, <2>1
<1>7. CASE ReplacePost(c)
  <2>1. Serves(c, "ReplacePost", "main") /\ \E rows : AnswerWritten(c, 200, rows)
    BY <1>7 DEF ReplacePost, tables
  <2> QED BY <1>1, <2>1
<1>8. CASE CreateComment(c)
  <2>1. Serves(c, "CreateComment", "main") /\ \E rows : AnswerWritten(c, 201, rows)
    BY <1>8, ZenonT(40) DEF CreateComment, tables
  <2> QED BY <1>1, <2>1
<1>9. CASE UpdateComment(c)
  <2>1. Serves(c, "UpdateComment", "main") /\ \E rows : AnswerWritten(c, 200, rows)
    BY <1>9 DEF UpdateComment, tables
  <2> QED BY <1>1, <2>1
<1>10. CASE DeleteStep(c)
  <2>1. /\ \E op : Serves(c, op, "main")
        /\ \E rows : AnswerWritten(c, 204, rows)
    BY <1>10 DEF DeleteStep, DeleteUser, DeletePost, DeleteComment
  <2> QED BY <1>1, <2>1
<1> QED
  BY <1>2, <1>3, <1>4, <1>5, <1>6, <1>7, <1>8, <1>9, <1>10
     DEF Handle, UserStep, PostStep, CommentStep, DeleteStep

\* The only step of a request that reads the role again is userWithRole's, whose
\* answer is 200.
LEMMA LoadAnswers ==
    ASSUME ReqOK, NEW c \in Clients, Handle(c), req[c].stage = "load"
    PROVE  req'[c].status = 200
<1>1. UpdateUserLoad(c)
  BY DEF Handle, UserStep, PostStep, CommentStep, StatementFails, Serves, Login, ListUsers,
         CountUsers, CreateUserRole, CreateUser, GetUser, UpdateUserRole, UpdateUser,
         ReplaceUserRole, ReplaceUser, DeleteUser, LookupRole, ListPosts, CountPosts,
         CreatePost, GetPost, ReplacePost, DeletePost, ListCommentsPost, ListComments,
         CountComments, CreateComment, UpdateComment, DeleteComment
<1>2. PICK rows : Answer(c, 200, rows)
  BY <1>1 DEF UpdateUserLoad
<1> QED
  BY <1>2 DEF Answer, ReqOK, Requests

LEMMA RefusalStep == TypeInv /\ DeletionInv /\ [Next]_vars => [ServesItsChanges]_vars
<1> SUFFICES ASSUME TypeInv, DeletionInv, Next PROVE ServesItsChanges
  BY DEF ServesItsChanges
<1>0. ReqOK
  BY TypeInvParts
<1>1. ASSUME NEW d \in Clients, req[d].stage = "load", req'[d] = req[d]
      PROVE  req'[d].status = 0
  BY <1>1 DEF DeletionInv, Running
<1>2. PICK c \in Clients : Receive(c) \/ ReceiveMalformed(c) \/ Handle(c) \/ Return(c)
  BY DEF Next
<1>3. CASE Receive(c) \/ ReceiveMalformed(c) \/ Return(c)
  <2>1. UNCHANGED tables /\ req[c].stage # "load" /\ \A d \in Clients \ {c} : req'[d] = req[d]
    BY <1>0, <1>3 DEF Receive, ReceiveMalformed, Return, ReqOK
  <2> QED BY <1>1, <2>1 DEF ServesItsChanges
<1>4. CASE Handle(c)
  <2>1. \A d \in Clients \ {c} : req'[d] = req[d]
    BY <1>0, <1>4, HandleMoves, ZenonT(40) DEF Moves, Continue, Answer, AnswerList, ReqOK
  <2>2. \A d \in Clients : req[d].stage = "load" => req'[d].status \in {0, 200}
    BY <1>0, <1>1, <1>4, <2>1, LoadAnswers
  <2>3. ASSUME tables' # tables PROVE MayHaveWritten(c)
    <3>0. req[c].stage = "main" /\ req[c] \in Requests
      BY <1>0, <1>4, <2>3, WritersAnswer DEF ReqOK
    <3>1. CASE \E status \in {200, 201, 204, 500} : \E rows : Answer(c, status, rows)
      <4>1. PICK status \in {200, 201, 204, 500} : \E rows : Answer(c, status, rows)
        BY <3>1
      <4>2. req'[c].stage = "done" /\ req'[c].status = status
        BY <1>0, <3>0, <4>1 DEF Answer, ReqOK, Requests
      <4> QED BY <3>0, <4>1, <4>2 DEF MayHaveWritten
    <3>2. CASE \E rows : Continue(c, "load", rows)
      <4>1. req'[c].stage = "load"
        BY <1>0, <3>0, <3>2 DEF Continue, ReqOK, Requests
      <4> QED BY <3>0, <4>1 DEF MayHaveWritten
    <3> QED BY <1>4, <2>3, <3>1, <3>2, WritersAnswer
  <2> QED BY <2>2, <2>3 DEF ServesItsChanges
<1> QED BY <1>2, <1>3, <1>4

\* A step that changes the tables serves a request that is not refused in it, and
\* a request whose statement took effect is never refused later.
THEOREM Refusals == Spec => RefusalsLeaveNoTrace
<1>1. Init => DeletionInv
  BY DEF Init, Idle, Request, DeletionInv, Running
<1> QED
  BY <1>1, TypeInit, TypeStep, DeletionStep, RefusalStep, PTL DEF Spec, RefusalsLeaveNoTrace
=============================================================================
