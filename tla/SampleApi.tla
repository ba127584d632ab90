----------------------------- MODULE SampleApi ------------------------------
(***************************************************************************)
(* The sample API service (src/sample-api): the sixteen handlers of        *)
(* pkg/openapi between the generated HTTP layer and Postgres.              *)
(*                                                                         *)
(* Every request runs in a goroutine of its own and no handler opens a     *)
(* transaction: each SQL statement commits by itself, and the statements   *)
(* of different requests interleave in any order.  An action is one        *)
(* statement together with the code from it to the next statement or to    *)
(* the answer.  A statement may fail without effect, and the reply of one  *)
(* that took effect may be lost: the handler sees an error both times.     *)
(***************************************************************************)
EXTENDS Calls, Responses

CONSTANT Seed  \* the users the migration inserts: a function from ids to rows

ASSUME SeedAssumption ==
    /\ DOMAIN Seed \subseteq UserIds
    /\ \A u \in DOMAIN Seed : Seed[u] \in UserRows /\ Seed[u].hash.salt = Seed[u].salt
    /\ \A u, v \in DOMAIN Seed : Seed[u].email = Seed[v].email => u = v

VARIABLES
    users, posts, comments,  \* the tables
    req                      \* each goroutine's request

tables == <<users, posts, comments>>
vars   == <<users, posts, comments, req>>

\* The statement a request in flight runs next:
\*   role  GetRoleBySlug           post   the GetPost of ListComments
\*   main  the operation's own     count  the Count... of a list
\*   load  the GetRole of userWithRole
Running == {"role", "post", "main", "count", "load"}

Requests == [stage  : Running \cup {"idle", "done"},
             call   : OpCalls \cup MalformedCalls \cup {None},
             status : HttpStatuses \cup {0},  \* 0 until the answer
             rows   : SUBSET Resources,       \* read or written so far
             total  : Nat]                    \* meta.total of a list

\* A request that has read and written nothing.
Request(stage, call, status) ==
    [stage |-> stage, call |-> call, status |-> status, rows |-> {}, total |-> 0]

Idle == Request("idle", None, 0)

Init ==
    /\ users = [u \in UserIds |-> IF u \in DOMAIN Seed THEN Seed[u] ELSE Fresh]
    /\ posts = [p \in PostIds |-> Fresh]
    /\ comments = [k \in CommentIds |-> Fresh]
    /\ req = [c \in Clients |-> Idle]

-----------------------------------------------------------------------------
(* Steps every handler shares.                                             *)

Serves(c, op, stage) == req[c].stage = stage /\ req[c].call.op = op

Continue(c, stage, rows) ==
    req' = [req EXCEPT ![c] = [@ EXCEPT !.stage = stage, !.rows = rows]]

Answer(c, status, rows) ==
    req' = [req EXCEPT ![c] = [@ EXCEPT !.stage = "done", !.status = status, !.rows = rows]]

\* A handler's `return nil, err`: the strict handler answers 500.
ServerError(c) == Answer(c, 500, {})

\* The answer to a statement that changed the tables, unless its reply is lost.
AnswerWritten(c, status, rows) == Answer(c, status, rows) \/ ServerError(c)

\* MUTANT of EarlyStatus: ReplaceUser does not insist on a password.
EarlyStatusOfLoginAndCreate(call) ==
    CASE call.op \in {"Login", "CreateUser"} /\ call.password = None -> 422
      [] call.op = "UpdateUser" /\ call.password \in LongPasswords -> 500
      [] call.op \in {"CreatePost", "CreateComment"} /\ call.caller = None -> 401
      [] OTHER -> 0

\* What a handler answers before its first statement, 0 if it goes on.
EarlyStatus(call) ==
    CASE call.op \in {"Login", "CreateUser", "ReplaceUser"} /\ call.password = None -> 422
      [] call.op = "UpdateUser" /\ call.password \in LongPasswords -> 500
      [] call.op \in {"CreatePost", "CreateComment"} /\ call.caller = None -> 401
      [] OTHER -> 0

FirstStage(call) ==
    CASE call.op \in {"CreateUser", "ReplaceUser"} -> "role"
      [] call.op = "UpdateUser" /\ call.role # None -> "role"
      [] call.op = "ListComments" -> "post"
      [] OTHER -> "main"

\* Clients name rows that exist or did.
Names(call) ==
    /\ "user" \in DOMAIN call => call.user \in Drawn(users)
    /\ "post" \in DOMAIN call => call.post \in Drawn(posts)
    /\ "comment" \in DOMAIN call => call.comment \in Drawn(comments)
    /\ "caller" \in DOMAIN call => call.caller \in Optional(Drawn(users))

Creating(op) == {c \in Clients : req[c].stage \in {"role", "main"} /\ req[c].call.op = op}

\* BOUND: a creation is sent while the instance has an id left for it.
HasRoom(call) ==
    /\ call.op = "CreateUser" => Cardinality(FreshIds(users)) > Cardinality(Creating(call.op))
    /\ call.op = "CreatePost" => Cardinality(FreshIds(posts)) > Cardinality(Creating(call.op))
    /\ call.op = "CreateComment" => Cardinality(FreshIds(comments)) > Cardinality(Creating(call.op))

\* A request reaches its handler, which answers at once or goes on to Postgres.
Receive(c) ==
    /\ req[c].stage = "idle"
    /\ \E call \in OpCalls :
          /\ Names(call) /\ HasRoom(call)
          /\ req' = [req EXCEPT ![c] =
                IF EarlyStatus(call) # 0
                THEN Request("done", call, EarlyStatus(call))
                ELSE Request(FirstStage(call), call, 0)]
    /\ UNCHANGED tables

\* A request whose parameters or body do not decode.
ReceiveMalformed(c) ==
    /\ req[c].stage = "idle"
    /\ \E call \in MalformedCalls :
          req' = [req EXCEPT ![c] = Request("done", call, 400)]
    /\ UNCHANGED tables

\* The client has its answer; its goroutine ends and it may call again.
Return(c) ==
    /\ req[c].stage = "done"
    /\ req' = [req EXCEPT ![c] = Idle]
    /\ UNCHANGED tables

\* MUTANT of StatementFails: the handler starts over instead of answering.
StatementIsRetried(c) ==
    /\ req[c].stage \in Running \ {"load"}
    /\ Continue(c, FirstStage(req[c].call), {})
    /\ UNCHANGED tables

\* The connection, the server or the request's context fails a statement
\* before it has an effect.  userWithRole alone swallows that error.
StatementFails(c) ==
    /\ req[c].stage \in Running \ {"load"}
    /\ ServerError(c)
    /\ UNCHANGED tables

-----------------------------------------------------------------------------
(* auth.go                                                                 *)

\* GetUserByEmail, the bcrypt comparison and the signed token, whose sub and
\* role are those of the row that was read.
Login(c) ==
    LET call    == req[c].call
        matches == {u \in LiveIds(users) : users[u].email = call.email}
        genuine == {u \in matches : users[u].hash = HashOf(call.password, users[u].salt)}
    IN  /\ Serves(c, "Login", "main")
        /\ \/ genuine = {} /\ Answer(c, 401, {})
           \/ \E u \in genuine : Answer(c, 200, {<<u, toAPIUser(users[u], users[u].role)>>})
        /\ UNCHANGED tables

-----------------------------------------------------------------------------
(* user.go                                                                 *)

ViewUsers(ids) == {<<u, toAPIUser(users[u], users[u].role)>> : u \in ids}

ListUsers(c) ==
    LET window == Paginate(req[c].call.page, req[c].call.per_page)
    IN  /\ Serves(c, "ListUsers", "main")
        /\ \/ window.offset < 0 /\ ServerError(c)
           \/ /\ window.offset >= 0
              /\ \E ids \in Pages(LiveIds(users), window) : Continue(c, "count", ViewUsers(ids))
        /\ UNCHANGED tables

AnswerList(c, total) ==
    req' = [req EXCEPT ![c] = [@ EXCEPT !.stage = "done", !.status = 200, !.total = total]]

CountUsers(c) ==
    /\ Serves(c, "ListUsers", "count")
    /\ AnswerList(c, Cardinality(LiveIds(users)))
    /\ UNCHANGED tables

\* MUTANT of LookupRole: a role that is not found is no error.
LookupAnyRole(c, op) ==
    /\ Serves(c, op, "role")
    /\ Continue(c, "main", {})
    /\ UNCHANGED tables

\* GetRoleBySlug of CreateUser and ReplaceUser, and the hash computed after it.
LookupRole(c, op) ==
    LET call == req[c].call
    IN  /\ Serves(c, op, "role")
        /\ \/ call.role \notin Roles /\ Answer(c, 422, {})
           \/ call.role \in Roles /\ call.password \in LongPasswords /\ ServerError(c)
           \/ call.role \in Roles /\ call.password \notin LongPasswords /\ Continue(c, "main", {})
        /\ UNCHANGED tables

CreateUserRole(c)  == LookupRole(c, "CreateUser")
ReplaceUserRole(c) == LookupRole(c, "ReplaceUser")

\* UpdateUser hashes before it looks the role up: EarlyStatus.
UpdateUserRole(c) ==
    /\ Serves(c, "UpdateUser", "role")
    /\ \/ req[c].call.role \notin Roles /\ Answer(c, 422, {})
       \/ req[c].call.role \in Roles /\ Continue(c, "main", {})
    /\ UNCHANGED tables

\* The columns a body with every field gives a user, for a freshly drawn salt.
UserRow(call, salt) ==
    [email |-> call.email, hash |-> HashOf(call.password, salt), salt |-> salt, role |-> call.role]

CreateUser(c) ==
    LET call == req[c].call
    IN  /\ Serves(c, "CreateUser", "main")
        /\ \/ /\ EmailTaken(users, call.email, None)
              /\ Answer(c, 409, {})
              /\ UNCHANGED users
           \/ /\ ~EmailTaken(users, call.email, None)
              /\ \E u \in FreshIds(users), salt \in Salts :
                    /\ users' = [users EXCEPT ![u] = UserRow(call, salt)]
                    /\ AnswerWritten(c, 201, {<<u, toAPIUser(UserRow(call, salt), call.role)>>})
        /\ UNCHANGED <<posts, comments>>

\* MUTANT of GetUser: the error of GetUserByID is not looked at.
GetUserUnchecked(c) ==
    LET u == req[c].call.user
    IN  /\ Serves(c, "GetUser", "main")
        /\ Answer(c, 200, {<<v, toAPIUser(users[v], users[v].role)>> : v \in LiveIds(users) \cap {u}})
        /\ UNCHANGED tables

GetUser(c) ==
    LET u == req[c].call.user
    IN  /\ Serves(c, "GetUser", "main")
        /\ \/ u \notin LiveIds(users) /\ Answer(c, 404, {})
           \/ u \in LiveIds(users) /\ Answer(c, 200, ViewUsers({u}))
        /\ UNCHANGED tables

\* MUTANT of UpdatedRow: the UPDATE sets role_id without COALESCE.
UpdatedRowRoleCleared(call, row, salt) ==
    [email |-> Coalesce(call.email, row.email),
     hash  |-> IF call.password = None THEN row.hash ELSE HashOf(call.password, salt),
     salt  |-> IF call.password = None THEN row.salt ELSE salt,
     role  |-> call.role]

\* MUTANT of UpdatedRow: params.PasswordSalt is not set.
UpdatedRowOldSalt(call, row, salt) ==
    [email |-> Coalesce(call.email, row.email),
     hash  |-> IF call.password = None THEN row.hash ELSE HashOf(call.password, salt),
     salt  |-> row.salt,
     role  |-> Coalesce(call.role, row.role)]

\* COALESCE keeps the columns the body leaves out; hash and salt go together.
UpdatedRow(call, row, salt) ==
    [email |-> Coalesce(call.email, row.email),
     hash  |-> IF call.password = None THEN row.hash ELSE HashOf(call.password, salt),
     salt  |-> IF call.password = None THEN row.salt ELSE salt,
     role  |-> Coalesce(call.role, row.role)]

UpdateUser(c) ==
    LET call  == req[c].call
        u     == call.user
        found == u \in LiveIds(users)
        taken == call.email # None /\ EmailTaken(users, call.email, u)
    IN  /\ Serves(c, "UpdateUser", "main")
        /\ \/ ~found /\ Answer(c, 404, {}) /\ UNCHANGED users
           \/ found /\ taken /\ Answer(c, 409, {}) /\ UNCHANGED users
           \/ /\ found /\ ~taken
              /\ \E salt \in Salts :
                    LET row == UpdatedRow(call, users[u], salt)
                    IN  /\ users' = [users EXCEPT ![u] = row]
                        /\ \/ Continue(c, "load", {<<u, toAPIUser(row, row.role)>>})
                           \/ ServerError(c)
        /\ UNCHANGED <<posts, comments>>

\* MUTANT of UpdateUserLoad: a user deleted meanwhile is reported missing.
UpdateUserLoadOrMissing(c) ==
    /\ Serves(c, "UpdateUser", "load")
    /\ IF req[c].call.user \in LiveIds(users) THEN Answer(c, 200, req[c].rows)
                                             ELSE Answer(c, 404, {})
    /\ UNCHANGED tables

\* MUTANT of UpdateUserLoad: the user is read again together with its role, and
\* the error is dropped as that of GetRole is.
UpdateUserReload(c) ==
    /\ Serves(c, "UpdateUser", "load")
    /\ Answer(c, 200, ViewUsers(LiveIds(users) \cap {req[c].call.user}))
    /\ UNCHANGED tables

\* userWithRole: an error of GetRole is dropped, the role then has no slug.
UpdateUserLoad(c) ==
    /\ Serves(c, "UpdateUser", "load")
    /\ \/ Answer(c, 200, req[c].rows)
       \/ Answer(c, 200, {<<r[1], toAPIUser(r[2], None)>> : r \in req[c].rows})
    /\ UNCHANGED tables

ReplaceUser(c) ==
    LET call  == req[c].call
        u     == call.user
        found == u \in LiveIds(users)
        taken == EmailTaken(users, call.email, u)
    IN  /\ Serves(c, "ReplaceUser", "main")
        /\ \/ ~found /\ Answer(c, 404, {}) /\ UNCHANGED users
           \/ found /\ taken /\ Answer(c, 409, {}) /\ UNCHANGED users
           \/ /\ found /\ ~taken
              /\ \E salt \in Salts :
                    /\ users' = [users EXCEPT ![u] = UserRow(call, salt)]
                    /\ AnswerWritten(c, 200, {<<u, toAPIUser(UserRow(call, salt), call.role)>>})
        /\ UNCHANGED <<posts, comments>>

\* MUTANT of DeleteUser: the comments of others on the user's posts stay.
DeleteUserButNotReplies(c) ==
    LET u == req[c].call.user
    IN  /\ Serves(c, "DeleteUser", "main")
        /\ users' = Without(users, {u})
        /\ posts' = Without(posts, PostsOf(posts, u))
        /\ comments' = Without(comments, CommentsBy(comments, u))
        /\ AnswerWritten(c, 204, {})

\* A row that is not there is no error: the answer is 204 all the same.
DeleteUser(c) ==
    LET u     == req[c].call.user
        theirs == PostsOf(posts, u)
    IN  /\ Serves(c, "DeleteUser", "main")
        /\ users' = Without(users, {u})
        /\ posts' = Without(posts, theirs)
        /\ comments' = Without(comments, CommentsOn(comments, theirs) \cup CommentsBy(comments, u))
        /\ AnswerWritten(c, 204, {})

-----------------------------------------------------------------------------
(* post.go                                                                 *)

ViewPosts(ids) == {<<p, toAPIPost(posts[p], CommentCount(comments, p))>> : p \in ids}

\* MUTANT of Selected: ?status is ignored.
SelectedWhateverStatus(status) == LiveIds(posts)

\* The selection ?status makes; an invalid enum value is a Postgres error.
Selected(status) == {p \in LiveIds(posts) : status \in {None, posts[p].status}}
ValidStatus(status) == status \in Optional(Statuses)

ListPosts(c) ==
    LET call   == req[c].call
        window == Paginate(call.page, call.per_page)
        valid  == ValidStatus(call.status) /\ window.offset >= 0
    IN  /\ Serves(c, "ListPosts", "main")
        /\ \/ ~valid /\ ServerError(c)
           \/ /\ valid
              /\ \E ids \in Pages(Selected(call.status), window) :
                    Continue(c, "count", ViewPosts(ids))
        /\ UNCHANGED tables

CountPosts(c) ==
    /\ Serves(c, "ListPosts", "count")
    /\ AnswerList(c, Cardinality(Selected(req[c].call.status)))
    /\ UNCHANGED tables

\* MUTANT of PostRow: a body without a status publishes the post.
PostRowPublished(author, call, suffix) ==
    [author |-> author, title |-> call.title,
     slug   |-> [base |-> call.title, suffix |-> suffix],
     status |-> Coalesce(call.status, "published")]

\* The columns of a post: a body without a status makes a draft.
PostRow(author, call, suffix) ==
    [author |-> author, title |-> call.title,
     slug   |-> [base |-> call.title, suffix |-> suffix],
     status |-> Coalesce(call.status, "draft")]

\* MUTANT of CreatePost: INSERT ... ON CONFLICT (slug) DO UPDATE.
CreatePostUpserts(c) ==
    LET call == req[c].call
    IN  /\ Serves(c, "CreatePost", "main")
        /\ \E suffix \in Suffixes :
              LET row     == PostRow(call.caller, call, suffix)
                  allowed == row.status \in Statuses /\ call.caller \in LiveIds(users)
                  same    == {p \in LiveIds(posts) : posts[p].slug = row.slug}
              IN  \/ ~allowed /\ ServerError(c) /\ UNCHANGED posts
                  \/ /\ allowed
                     /\ \E p \in IF same = {} THEN FreshIds(posts) ELSE same :
                           LET kept == IF same = {} THEN row
                                       ELSE [row EXCEPT !.author = posts[p].author]
                           IN  /\ posts' = [posts EXCEPT ![p] = kept]
                               /\ AnswerWritten(c, 201, {<<p, toAPIPost(kept, 0)>>})
        /\ UNCHANGED <<users, comments>>

\* The INSERT fails on an invalid status, a slug in use or an author that is
\* gone, and CreatePost answers each of them 500.
CreatePost(c) ==
    LET call == req[c].call
    IN  /\ Serves(c, "CreatePost", "main")
        /\ \E suffix \in Suffixes :
              LET row     == PostRow(call.caller, call, suffix)
                  allowed == /\ row.status \in Statuses
                             /\ ~SlugTaken(posts, row.slug, None)
                             /\ call.caller \in LiveIds(users)
              IN  \/ ~allowed /\ ServerError(c) /\ UNCHANGED posts
                  \/ /\ allowed
                     /\ \E p \in FreshIds(posts) :
                           /\ posts' = [posts EXCEPT ![p] = row]
                           /\ AnswerWritten(c, 201, {<<p, toAPIPost(row, 0)>>})
        /\ UNCHANGED <<users, comments>>

GetPost(c) ==
    LET p == req[c].call.post
    IN  /\ Serves(c, "GetPost", "main")
        /\ \/ p \notin LiveIds(posts) /\ Answer(c, 404, {})
           \/ p \in LiveIds(posts) /\ Answer(c, 200, ViewPosts({p}))
        /\ UNCHANGED tables

\* A new slug each time; the author stays; comment_count is reported as 0.
ReplacePost(c) ==
    LET call == req[c].call
        p    == call.post
    IN  /\ Serves(c, "ReplacePost", "main")
        /\ \E suffix \in Suffixes :
              LET row   == PostRow(posts[p].author, call, suffix)
                  valid == ValidStatus(call.status)
                  found == p \in LiveIds(posts)
                  taken == SlugTaken(posts, [base |-> call.title, suffix |-> suffix], p)
              IN  \/ ~valid /\ ServerError(c) /\ UNCHANGED posts
                  \/ valid /\ ~found /\ Answer(c, 404, {}) /\ UNCHANGED posts
                  \/ valid /\ found /\ taken /\ ServerError(c) /\ UNCHANGED posts
                  \/ /\ valid /\ found /\ ~taken
                     /\ posts' = [posts EXCEPT ![p] = row]
                     /\ AnswerWritten(c, 200, {<<p, toAPIPost(row, 0)>>})
        /\ UNCHANGED <<users, comments>>

DeletePost(c) ==
    LET p == req[c].call.post
    IN  /\ Serves(c, "DeletePost", "main")
        /\ posts' = Without(posts, {p})
        /\ comments' = Without(comments, CommentsOn(comments, {p}))
        /\ AnswerWritten(c, 204, {})
        /\ UNCHANGED users

-----------------------------------------------------------------------------
(* comment.go                                                              *)

\* The GetPost by which ListComments tells a missing post from an empty list.
ListCommentsPost(c) ==
    LET found == req[c].call.post \in LiveIds(posts)
    IN  /\ Serves(c, "ListComments", "post")
        /\ \/ ~found /\ Answer(c, 404, {})
           \/ found /\ Continue(c, "main", {})
        /\ UNCHANGED tables

ListComments(c) ==
    LET call   == req[c].call
        window == Paginate(call.page, call.per_page)
    IN  /\ Serves(c, "ListComments", "main")
        /\ \/ window.offset < 0 /\ ServerError(c)
           \/ /\ window.offset >= 0
              /\ \E ids \in Pages(CommentsOn(comments, {call.post}), window) :
                    Continue(c, "count", {<<k, toAPIComment(comments[k])>> : k \in ids})
        /\ UNCHANGED tables

CountComments(c) ==
    /\ Serves(c, "ListComments", "count")
    /\ AnswerList(c, CommentCount(comments, req[c].call.post))
    /\ UNCHANGED tables

\* A missing post or author is a foreign-key error, which isUniqueViolation
\* does not recognise: the answer is 500.
CreateComment(c) ==
    LET call    == req[c].call
        row     == [post |-> call.post, author |-> call.caller, text |-> call.text]
        allowed == call.post \in LiveIds(posts) /\ call.caller \in LiveIds(users)
    IN  /\ Serves(c, "CreateComment", "main")
        /\ \/ ~allowed /\ ServerError(c) /\ UNCHANGED comments
           \/ /\ allowed
              /\ \E k \in FreshIds(comments) :
                    /\ comments' = [comments EXCEPT ![k] = row]
                    /\ AnswerWritten(c, 201, {<<k, toAPIComment(row)>>})
        /\ UNCHANGED <<users, posts>>

\* MUTANT of UpdateComment: the comment moves to the post of the path.
UpdateCommentOfPath(c) ==
    LET call == req[c].call
        k    == call.comment
    IN  /\ Serves(c, "UpdateComment", "main")
        /\ k \in LiveIds(comments) /\ call.post \in LiveIds(posts)
        /\ comments' = [comments EXCEPT ![k] = [@ EXCEPT !.text = call.text, !.post = call.post]]
        /\ AnswerWritten(c, 200, {<<k, toAPIComment(comments'[k])>>})
        /\ UNCHANGED <<users, posts>>

\* By comment id alone: the post of the path is not looked at.
UpdateComment(c) ==
    LET call == req[c].call
        k    == call.comment
        row  == [comments[k] EXCEPT !.text = call.text]
    IN  /\ Serves(c, "UpdateComment", "main")
        /\ \/ /\ k \notin LiveIds(comments)
              /\ Answer(c, 404, {})
              /\ UNCHANGED comments
           \/ /\ k \in LiveIds(comments)
              /\ comments' = [comments EXCEPT ![k] = row]
              /\ AnswerWritten(c, 200, {<<k, toAPIComment(row)>>})
        /\ UNCHANGED <<users, posts>>

\* MUTANT of DeleteComment: DELETE ... WHERE id = $1 AND post_id = $2.
DeleteCommentOfPath(c) ==
    LET call == req[c].call
    IN  /\ Serves(c, "DeleteComment", "main")
        /\ comments' = Without(comments, CommentsOn(comments, {call.post}) \cap {call.comment})
        /\ AnswerWritten(c, 204, {})
        /\ UNCHANGED <<users, posts>>

DeleteComment(c) ==
    /\ Serves(c, "DeleteComment", "main")
    /\ comments' = Without(comments, {req[c].call.comment})
    /\ AnswerWritten(c, 204, {})
    /\ UNCHANGED <<users, posts>>

-----------------------------------------------------------------------------
(* The specification.                                                      *)

UserStep(c) ==
    \/ Login(c) \/ ListUsers(c) \/ CountUsers(c)
    \/ CreateUserRole(c) \/ CreateUser(c) \/ GetUser(c)
    \/ UpdateUserRole(c) \/ UpdateUser(c) \/ UpdateUserLoad(c)
    \/ ReplaceUserRole(c) \/ ReplaceUser(c) \/ DeleteUser(c)

PostStep(c) ==
    \/ ListPosts(c) \/ CountPosts(c) \/ CreatePost(c)
    \/ GetPost(c) \/ ReplacePost(c) \/ DeletePost(c)

CommentStep(c) ==
    \/ ListCommentsPost(c) \/ ListComments(c) \/ CountComments(c)
    \/ CreateComment(c) \/ UpdateComment(c) \/ DeleteComment(c)

\* What the service does for a request in flight.
Handle(c) == UserStep(c) \/ PostStep(c) \/ CommentStep(c) \/ StatementFails(c)

Next ==
    \E c \in Clients : Receive(c) \/ ReceiveMalformed(c) \/ Handle(c) \/ Return(c)

\* The Go scheduler runs every goroutine and every statement comes back, with
\* its result or with an error; that clients call at all is not assumed.
Fairness == \A c \in Clients : WF_vars(Handle(c))

Spec     == Init /\ [][Next]_vars
FairSpec == Spec /\ Fairness

-----------------------------------------------------------------------------
(* Invariants.                                                             *)

TypeOK ==
    /\ users    \in [UserIds -> UserRows \cup {Fresh, Gone}]
    /\ posts    \in [PostIds -> PostRows \cup {Fresh, Gone}]
    /\ comments \in [CommentIds -> CommentRows \cup {Fresh, Gone}]
    /\ req      \in [Clients -> Requests]
    /\ \A c \in Clients :
          /\ req[c].stage \in Running => req[c].call \in OpCalls
          /\ req[c].stage = "load" => req[c].rows \subseteq UserIds \X APIUsers

\* What a handler has established about a call when its statement is next.
Admitted(call, stage) ==
    /\ call.op \in {"CreateUser", "ReplaceUser"} =>
          /\ call.password # None
          /\ stage = "main" => call.role \in Roles /\ call.password \notin LongPasswords
    /\ call.op = "UpdateUser" =>
          /\ call.password \notin LongPasswords
          /\ stage = "main" => call.role \in Optional(Roles)
    /\ call.op \in {"CreatePost", "CreateComment"} => call.caller # None

\* No statement runs for a call its handler should have refused: an INSERT or
\* UPDATE never sees an unknown role, a missing password or one bcrypt rejects,
\* nor a post or a comment without the identity of an author.
StatementsAreAdmitted ==
    \A c \in Clients : req[c].stage \in Running => Admitted(req[c].call, req[c].stage)

\* The rows the tables hold belong together: the author of every post and
\* comment and the post of every comment exist, whatever creations and cascading
\* deletions of users and posts run at once.
ReferentialIntegrity ==
    /\ \A p \in LiveIds(posts) : posts[p].author \in LiveIds(users)
    /\ \A k \in LiveIds(comments) :
          comments[k].author \in LiveIds(users) /\ comments[k].post \in LiveIds(posts)

\* No two users share an e-mail address, by which Login finds them, and no two
\* posts a slug, although nothing but the INSERT or UPDATE itself looks.
UniqueKeys ==
    /\ \A u, v \in LiveIds(users) : users[u].email = users[v].email => u = v
    /\ \A p, q \in LiveIds(posts) : posts[p].slug = posts[q].slug => p = q

\* Every user's hash was computed with the salt stored beside it, so that the
\* password last set is accepted by Login: no pair of updates, partial or full,
\* leaves the hash of one with the salt of the other.
CredentialsUsable == \A u \in LiveIds(users) : users[u].hash.salt = users[u].salt

\* What a delete operation was asked to remove.
Target(call) ==
    CASE call.op = "DeleteUser" -> LiveIds(users) \cap {call.user}
      [] call.op = "DeletePost" -> LiveIds(posts) \cap {call.post}
      [] call.op = "DeleteComment" -> LiveIds(comments) \cap {call.comment}
      [] OTHER -> {}

\* A resource whose deletion was answered 204 is not there: no update or
\* creation that was in flight brings it back.
DeletedStaysDeleted ==
    \A c \in Clients : req[c].status = 204 => Target(req[c].call) = {}

\* What a resource in the answer to a call has to do with the call.
Concerns(call, r) ==
    /\ call.op \in {"GetUser", "UpdateUser", "ReplaceUser"} => r[1] = call.user
    /\ call.op \in {"GetPost", "ReplacePost"} => r[1] = call.post
    /\ call.op = "UpdateComment" => r[1] = call.comment
    /\ call.op \in {"Login", "CreateUser", "ReplaceUser"} => r[2].email = call.email
    /\ call.op = "UpdateUser" => call.email \in {None, r[2].email}
    /\ call.op \in {"CreatePost", "CreateComment"} => r[2].author = call.caller
    /\ call.op \in {"ListComments", "CreateComment"} => r[2].post = call.post
    /\ call.op = "ListPosts" => call.status \in {None, r[2].status}

Fits(call, status, rows) ==
    /\ \/ <<status, "one">> \in Forms(call.op) /\ \E r \in rows : rows = {r}
       \/ <<status, "list">> \in Forms(call.op)
       \/ {<<status, "none">>, <<status, "error">>} \cap Forms(call.op) # {} /\ rows = {}
    /\ \A r \in rows : Concerns(call, r)

\* An answer has a form that its operation declares, and the resources in it are
\* those the call is about, however many statements of how many requests ran
\* between the call and its answer.  Only the 400 to a call that does not decode
\* and the 500 of a handler's error are outside the declared forms.
AnswersFitTheirCalls ==
    \A c \in Clients : req[c].stage = "done" =>
        \/ req[c].status = 500 /\ req[c].rows = {}
        \/ req[c].status = 400 /\ req[c].rows = {} /\ req[c].call \in MalformedCalls
        \/ req[c].call \in OpCalls /\ Fits(req[c].call, req[c].status, req[c].rows)

-----------------------------------------------------------------------------
(* Action properties.                                                      *)

\* Requests that changed the tables in this step, going by their answers.
MayHaveWritten(c) ==
    /\ req'[c] # req[c]
    /\ req'[c].stage = "load" \/ req'[c].status \in {200, 201, 204, 500}

ServesItsChanges ==
    /\ tables' # tables => \E c \in Clients : MayHaveWritten(c)
    /\ \A c \in Clients : req[c].stage = "load" => req'[c].status \in {0, 200}

\* A refusal leaves no trace: a step that changes the tables serves a request
\* that is not answered 4xx in it, and no 4xx is answered later, once a statement
\* of the request took effect.
RefusalsLeaveNoTrace == [][ServesItsChanges]_vars

GoneIds(table) == {i \in DOMAIN table : table[i] = Gone}

KeepsAuthors ==
    /\ \A p \in LiveIds(posts) \cap LiveIds(posts') : posts'[p].author = posts[p].author
    /\ \A k \in LiveIds(comments) \cap LiveIds(comments') :
          /\ comments'[k].author = comments[k].author
          /\ comments'[k].post = comments[k].post
    /\ GoneIds(users) \subseteq GoneIds(users')
    /\ GoneIds(posts) \subseteq GoneIds(posts')
    /\ GoneIds(comments) \subseteq GoneIds(comments')

\* The author of a post and the author and post of a comment never change, and
\* an id whose row was deleted is never used again.
AuthorshipFixed == [][KeepsAuthors]_vars

-----------------------------------------------------------------------------
(* Refinement.                                                             *)

\* A request is decided once the statement that settles its answer has run: for
\* a list the selection of its rows, for UpdateUser the UPDATE.
Phase(c) ==
    CASE req[c].stage = "idle" -> "idle"
      [] req[c].stage \in {"role", "post", "main"} -> "called"
      [] OTHER -> "decided"

Task(c) ==
    [phase  |-> Phase(c),
     call   |-> req[c].call,
     status |-> IF req[c].stage \in {"count", "load"} THEN 200 ELSE req[c].status,
     rows   |-> req[c].rows]

Tasks == [c \in Clients |-> Task(c)]

Atomic == INSTANCE AtomicApi WITH task <- Tasks

\* Every handler behaves as if its request took effect and was answered at one
\* moment, although it runs statement after statement without a transaction.
BehavesAtomically == Atomic!Spec

-----------------------------------------------------------------------------
(* Liveness.                                                               *)

\* Every request that reached its handler is answered in the end, whatever the
\* other requests do to the rows it is about and whichever statements fail.
EveryRequestAnswered ==
    \A c \in Clients : (req[c].stage \in Running) ~> (req[c].stage = "done")
=============================================================================
