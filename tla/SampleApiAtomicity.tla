------------------------- MODULE SampleApiAtomicity -------------------------
(***************************************************************************)
(* The handlers of SampleApi implement AtomicApi, proved for every value   *)
(* of the constants: the statement that settles an answer is the one       *)
(* moment at which the request takes effect, and every other step of a     *)
(* handler is invisible or a degradation AtomicApi allows.                 *)
(***************************************************************************)
EXTENDS SampleApiSafety, SampleApiAnswers

-----------------------------------------------------------------------------
(* The invariant.                                                          *)

\* The stages of a request that is not settled yet.
Open == {"role", "post", "main"}

\* A request that is not settled has read nothing, only lists are counted, and
\* only a role that was sent is looked up.
OpenReq(r) ==
    /\ r.stage \in Open => r.rows = {}
    /\ r.stage = "count" => r.call.op \in ListOps
    /\ r.stage = "role" => r.call.role # None

OpenInv == \A c \in Clients : OpenReq(req[c])

RefinementInv == TypeInv /\ Integrity /\ OpenInv

\* Only a list is answered with a list.
LEMMA ListForms ==
    ASSUME NEW call \in OpCalls, <<200, "list">> \in Forms(call.op)
    PROVE  call.op \in ListOps
<1>1. call.op \in {"Login", "ListUsers", "CreateUser", "GetUser", "UpdateUser", "ReplaceUser",
                   "DeleteUser", "ListPosts", "CreatePost", "GetPost", "ReplacePost",
                   "DeletePost", "ListComments", "CreateComment", "UpdateComment",
                   "DeleteComment"}
  BY DEF OpCalls, AllCalls, UserCalls, PostCalls, CommentCalls,
         LoginCalls, ListUsersCalls, CreateUserCalls, GetUserCalls, UpdateUserCalls,
         ReplaceUserCalls, DeleteUserCalls, ListPostsCalls, CreatePostCalls,
         GetPostCalls, ReplacePostCalls, DeletePostCalls, ListCommentsCalls,
         CreateCommentCalls, UpdateCommentCalls, DeleteCommentCalls
<1> QED
  BY <1>1 DEF Forms, Errors, LoginForms, ListUsersForms, CreateUserForms, GetUserForms,
              UpdateUserForms, ReplaceUserForms, DeleteUserForms, ListPostsForms,
              CreatePostForms, GetPostForms, ReplacePostForms, DeletePostForms,
              ListCommentsForms, CreateCommentForms, UpdateCommentForms,
              DeleteCommentForms, ListOps

\* The fields an operation's calls have, and that a role that is sent is a slug.
LEMMA SentFields ==
    ASSUME NEW call \in OpCalls
    PROVE  /\ call.op \in {"Login", "CreateUser", "ReplaceUser"} => "password" \in DOMAIN call
           /\ call.op \in {"CreateUser", "ReplaceUser"} =>
                 "role" \in DOMAIN call /\ call.role # None
           /\ call.op = "UpdateUser" => "role" \in DOMAIN call
           /\ call.op \in {"CreatePost", "CreateComment"} => "caller" \in DOMAIN call
BY CallFields, CallsAssumption
   DEF LoginCalls, CreateUserCalls, ReplaceUserCalls, UpdateUserCalls, CreatePostCalls,
       CreateCommentCalls

LEMMA OpenStep == TypeInv /\ AnswerInv /\ OpenInv /\ [Next]_vars => OpenInv'
<1> SUFFICES ASSUME TypeInv, AnswerInv, OpenInv, [Next]_vars PROVE OpenInv'
  OBVIOUS
<1>0. ReqOK
  BY TypeInvParts
<1>1. ASSUME NEW c \in Clients, OpenReq(req'[c]), \A d \in Clients \ {c} : req'[d] = req[d]
      PROVE  OpenInv'
  BY <1>1 DEF OpenInv
<1>2. CASE UNCHANGED vars
  BY <1>2 DEF vars, OpenInv
<1>3. ASSUME NEW c \in Clients, Handle(c) PROVE OpenInv'
  <2>0. req[c].call \in OpCalls /\ FittingStep(c) /\ "done" \notin Open
    BY <1>0, <1>3, HandledIsRunning, HandledFits DEF ReqOK, Open
  <2>1. ASSUME NEW status, NEW rows, Answer(c, status, rows) PROVE OpenInv'
    BY <1>0, <1>1, <2>0, <2>1, AnswerEffect DEF OpenReq
  <2>2. ASSUME NEW total, AnswerList(c, total) PROVE OpenInv'
    BY <1>0, <1>1, <2>0, <2>2, AnswerListEffect DEF OpenReq
  <2>3. CASE Continue(c, "main", {})
    BY <1>0, <1>1, <2>3, ContinueEffect DEF OpenReq, Open
  <2>4. ASSUME NEW rows, Continue(c, "count", rows), Many(req[c].call, rows) PROVE OpenInv'
    <3>1. req[c].call.op \in ListOps
      BY <2>0, <2>4, ListForms DEF Many
    <3> QED BY <1>0, <1>1, <2>4, <3>1, ContinueEffect DEF OpenReq, Open
  <2>5. ASSUME NEW rows, Continue(c, "load", rows) PROVE OpenInv'
    BY <1>0, <1>1, <2>5, ContinueEffect DEF OpenReq, Open
  <2> QED BY <2>0, <2>1, <2>2, <2>3, <2>4, <2>5 DEF FittingStep, ServerError
<1>4. ASSUME NEW c \in Clients, Receive(c) \/ ReceiveMalformed(c) \/ Return(c) PROVE OpenInv'
  <2>1. ASSUME NEW stage, stage # "count", NEW call, NEW status,
               stage = "role" => call.role # None,
               req' = [req EXCEPT ![c] = Request(stage, call, status)]
        PROVE  OpenInv'
    BY <1>0, <1>1, <2>1 DEF ReqOK, Request, OpenReq
  <2>2. ASSUME NEW call \in OpCalls
        PROVE  /\ FirstStage(call) # "count"
               /\ FirstStage(call) = "role" => call.role # None
    BY SentFields DEF FirstStage
  <2>3. CASE Receive(c)
    <3>1. PICK call \in OpCalls :
             req' = [req EXCEPT ![c] = IF EarlyStatus(call) # 0
                                       THEN Request("done", call, EarlyStatus(call))
                                       ELSE Request(FirstStage(call), call, 0)]
      BY <2>3 DEF Receive
    <3>2. CASE EarlyStatus(call) # 0
      BY <2>1, <3>1, <3>2
    <3>3. CASE EarlyStatus(call) = 0
      BY <2>1, <2>2, <3>1, <3>3
    <3> QED BY <3>2, <3>3
  <2>4. CASE ReceiveMalformed(c)
    <3>1. PICK status : status = 400
      OBVIOUS
    <3>2. PICK call : req' = [req EXCEPT ![c] = Request("done", call, status)]
      BY <2>4, <3>1 DEF ReceiveMalformed
    <3> QED BY <2>1, <3>2
  <2>5. CASE Return(c)
    <3>1. req' = [req EXCEPT ![c] = Request("idle", None, 0)]
      BY <2>5 DEF Return, Idle
    <3> QED BY <2>1, <3>1
  <2> QED BY <1>4, <2>3, <2>4, <2>5
<1> QED BY <1>2, <1>3, <1>4 DEF Next

LEMMA RefinementInvHolds == Spec => []RefinementInv
<1>1. Init => OpenInv
  BY DEF Init, OpenInv, OpenReq, Open, Idle, Request
<1> QED
  BY <1>1, OpenStep, AnswerInit, AnswerStep, TypeInit, TypeStep, IntegrityHolds, PTL
     DEF Spec, RefinementInv

-----------------------------------------------------------------------------
(* The tasks of AtomicApi.                                                 *)

\* A step of one request moves one task.
LEMMA OneTaskMoves ==
    ASSUME NEW c \in Clients, \A d \in Clients \ {c} : req'[d] = req[d]
    PROVE  Tasks' = [Tasks EXCEPT ![c] = Task(c)'] /\ Tasks'[c] = Task(c)' /\ Tasks[c] = Task(c)
BY DEF Tasks, Task, Phase

\* A step that leaves the task of its request and the tables alone is a stutter.
LEMMA Stutters ==
    ASSUME NEW c \in Clients, \A d \in Clients \ {c} : req'[d] = req[d],
           Task(c)' = Task(c), UNCHANGED tables
    PROVE  UNCHANGED Atomic!vars
<1>1. Tasks' = Tasks
  BY OneTaskMoves DEF Tasks
<1> QED BY <1>1 DEF Atomic!vars, tables

\* What settles the answer of a request decides its task.
Settles(c, status, rows) ==
    \/ Answer(c, status, rows)
    \/ status = 200 /\ Continue(c, "count", rows)
    \/ status = 200 /\ Continue(c, "load", rows)

\* A step that settles an answer AtomicApi allows decides the task.
LEMMA Decides ==
    ASSUME ReqOK, NEW c \in Clients, req[c].stage \in Open,
           NEW status, NEW rows, Settles(c, status, rows),
           \/ Atomic!Refusal(req[c].call, status) /\ rows = {} /\ UNCHANGED tables
           \/ Atomic!Accepted(req[c].call, status, rows)
           \/ status = 500 /\ rows = {} /\ Atomic!HasEffect(req[c].call)
    PROVE  Atomic!Next
<1>1. /\ \A d \in Clients \ {c} : req'[d] = req[d]
      /\ req'[c].call = req[c].call /\ req'[c].rows = rows
      /\ \/ req'[c].stage = "done" /\ req'[c].status = status
         \/ req'[c].stage \in {"count", "load"} /\ status = 200
  BY AnswerEffect, ContinueEffect DEF Settles
<1>2. Tasks[c].phase = "called" /\ Tasks[c].call = req[c].call
  BY DEF Tasks, Task, Phase, Open
<1>3. Task(c)' = [phase |-> "decided", call |-> req[c].call, status |-> status, rows |-> rows]
  BY <1>1 DEF Task, Phase
<1>4. /\ Tasks' = [Tasks EXCEPT ![c] = [phase |-> "decided", call |-> req[c].call,
                                        status |-> status, rows |-> rows]]
      /\ Tasks'[c].status = status /\ Tasks'[c].rows = rows
  BY <1>1, <1>3, OneTaskMoves
<1>5. Atomic!Decide(c)
  BY <1>2, <1>4 DEF Atomic!Decide, Atomic!tables, tables
<1> QED BY <1>5 DEF Atomic!Next

\* The three ways in which a handler settles an answer.
LEMMA Refuses ==
    ASSUME ReqOK, NEW c \in Clients, req[c].stage \in Open, NEW status, Answer(c, status, {}),
           Atomic!Refusal(req[c].call, status), UNCHANGED tables
    PROVE  Atomic!Next
<1>1. Settles(c, status, {})
  BY DEF Settles
<1> QED BY <1>1, Decides

\* A 500 may be answered at any time.
LEMMA Errs ==
    ASSUME ReqOK, NEW c \in Clients, req[c].stage \in Open, ServerError(c), UNCHANGED tables
    PROVE  Atomic!Next
<1>1. Atomic!Refusal(req[c].call, 500)
  BY DEF Atomic!Refusal
<1> QED BY <1>1, Refuses DEF ServerError

\* So does a statement that takes effect, whether or not its reply arrives.
LEMMA Takes ==
    ASSUME ReqOK, NEW c \in Clients, req[c].stage \in Open, NEW status, NEW rows,
           Settles(c, status, rows) \/ ServerError(c),
           Atomic!Accepted(req[c].call, status, rows), Atomic!HasEffect(req[c].call)
    PROVE  Atomic!Next
<1>1. ServerError(c) => Settles(c, 500, {})
  BY DEF ServerError, Settles
<1> QED BY <1>1, Decides

\* A handler that looks something up before its own statement is not seen to.
LEMMA LooksUp ==
    ASSUME ReqOK, OpenInv, NEW c \in Clients, req[c].stage \in Open, Continue(c, "main", {}),
           UNCHANGED tables
    PROVE  UNCHANGED Atomic!vars
<1>1. /\ \A d \in Clients \ {c} : req'[d] = req[d]
      /\ req'[c].call = req[c].call /\ req'[c].rows = req[c].rows
      /\ req'[c].stage = "main" /\ req'[c].status = req[c].status
  <2>1. req[c] \in Requests /\ req'[c] = [req[c] EXCEPT !.stage = "main", !.rows = {}]
    BY DEF ReqOK, Continue
  <2>2. req[c].rows = {}
    BY DEF OpenInv, OpenReq
  <2> QED BY <2>1, <2>2, ContinueEffect DEF Requests
<1>2. Task(c)' = Task(c)
  BY <1>1 DEF Task, Phase, Open
<1> QED BY <1>1, <1>2, Stutters

-----------------------------------------------------------------------------
(* The two specifications speak of the same rows and calls.                *)

\* AtomicApi names the same rows, counts, views, pages and calls as SampleApi.
LEMMA SameRows ==
    /\ \A table : Atomic!LiveIds(table) = LiveIds(table)
    /\ \A email, id : Atomic!EmailTaken(users, email, id) <=> EmailTaken(users, email, id)
    /\ \A slug, id : Atomic!SlugTaken(posts, slug, id) <=> SlugTaken(posts, slug, id)
    /\ \A arg, column : Atomic!Coalesce(arg, column) = Coalesce(arg, column)
    /\ \A password, salt : Atomic!HashOf(password, salt) = HashOf(password, salt)
    /\ Atomic!Optional(Roles) = Optional(Roles)
BY DEF LiveIds, Atomic!LiveIds, EmailTaken, Atomic!EmailTaken, SlugTaken, Atomic!SlugTaken,
       Coalesce, Atomic!Coalesce, HashOf, Atomic!HashOf, Optional, Atomic!Optional

LEMMA SameCounts == \A S : Atomic!Cardinality(S) = Cardinality(S)
BY DEF Cardinality, Atomic!Cardinality

LEMMA SameViews ==
    /\ \A u, role : Atomic!toAPIUser(u, role) = toAPIUser(u, role)
    /\ \A p, n : Atomic!toAPIPost(p, n) = toAPIPost(p, n)
    /\ \A S : Atomic!CommentsOn(comments, S) = CommentsOn(comments, S)
    /\ \A p : Atomic!CommentCount(comments, p) = CommentCount(comments, p)
<1>1. \A S : Atomic!CommentsOn(comments, S) = CommentsOn(comments, S)
  BY SameRows DEF CommentsOn, Atomic!CommentsOn
<1>2. \A p : Atomic!CommentCount(comments, p) = CommentCount(comments, p)
  BY <1>1, SameCounts DEF CommentCount, Atomic!CommentCount
<1> QED
  BY <1>1, <1>2 DEF toAPIUser, Atomic!toAPIUser, toAPIPost, Atomic!toAPIPost

\* A comment is answered with every column of its row.
LEMMA SameComment == \A row \in CommentRows : toAPIComment(row) = row
BY DEF toAPIComment, CommentRows

LEMMA SamePages ==
    ASSUME NEW call, NEW ids, NEW shown,
           Paginate(call.page, call.per_page).offset >= 0,
           shown \in Pages(ids, Paginate(call.page, call.per_page))
    PROVE  Atomic!PageAsked(call, ids, shown)
<1>1. Atomic!Paginate(call.page, call.per_page) = Paginate(call.page, call.per_page)
  BY DEF Paginate, Atomic!Paginate, EffectivePage, Atomic!EffectivePage, EffectivePerPage,
         Atomic!EffectivePerPage, Wrapped, Atomic!Wrapped
<1>2. ASSUME NEW window PROVE Atomic!Pages(ids, window) = Pages(ids, window)
  <2>1. \A page : Atomic!Cardinality(page) = Cardinality(page)
    BY SameCounts
  <2>2. ASSUME NEW size
        PROVE  {page \in SUBSET ids : Atomic!Cardinality(page) = size}
                  = {page \in SUBSET ids : Cardinality(page) = size}
    BY <2>1
  <2> QED BY <2>1, <2>2 DEF Pages, Atomic!Pages
<1> QED BY <1>1, <1>2 DEF Atomic!PageAsked

LEMMA SameCalls ==
    /\ Atomic!OpCalls = OpCalls /\ Atomic!MalformedCalls = MalformedCalls
    /\ Atomic!ListOps = ListOps
<1>1. /\ Atomic!UserCalls = UserCalls
      /\ Atomic!PostCalls = PostCalls
      /\ Atomic!CommentCalls = CommentCalls
  BY DEF Atomic!UserCalls, UserCalls, Atomic!PostCalls, PostCalls, Atomic!CommentCalls,
         CommentCalls, Atomic!Optional, Optional,
         LoginCalls, ListUsersCalls, CreateUserCalls, GetUserCalls, UpdateUserCalls,
         ReplaceUserCalls, DeleteUserCalls, ListPostsCalls, CreatePostCalls,
         GetPostCalls, ReplacePostCalls, DeletePostCalls, ListCommentsCalls,
         CreateCommentCalls, UpdateCommentCalls, DeleteCommentCalls,
         Atomic!LoginCalls, Atomic!ListUsersCalls, Atomic!CreateUserCalls,
         Atomic!GetUserCalls, Atomic!UpdateUserCalls, Atomic!ReplaceUserCalls,
         Atomic!DeleteUserCalls, Atomic!ListPostsCalls, Atomic!CreatePostCalls,
         Atomic!GetPostCalls, Atomic!ReplacePostCalls, Atomic!DeletePostCalls,
         Atomic!ListCommentsCalls, Atomic!CreateCommentCalls,
         Atomic!UpdateCommentCalls, Atomic!DeleteCommentCalls
<1> QED
  BY <1>1 DEF Atomic!OpCalls, OpCalls, Atomic!AllCalls, AllCalls, Atomic!MalformedCalls,
              MalformedCalls, Atomic!ListOps, ListOps

-----------------------------------------------------------------------------
(* Refusals.                                                               *)

\* A call refused on arrival is refused with reason.
LEMMA EarlyRefusal ==
    ASSUME NEW call \in OpCalls, EarlyStatus(call) # 0
    PROVE  Atomic!Refusal(call, EarlyStatus(call))
<1>1. CASE call.op \in {"Login", "CreateUser", "ReplaceUser"} /\ call.password = None
  <2>1. EarlyStatus(call) = 422
    BY <1>1 DEF EarlyStatus
  <2> QED BY <1>1, <2>1, SentFields DEF Atomic!Refusal
<1>2. CASE call.op = "UpdateUser" /\ call.password \in LongPasswords
  <2>1. EarlyStatus(call) = 500
    BY <1>2 DEF EarlyStatus
  <2> QED BY <2>1 DEF Atomic!Refusal
<1>3. CASE call.op \in {"CreatePost", "CreateComment"} /\ call.caller = None
  <2>1. EarlyStatus(call) = 401
    BY <1>3 DEF EarlyStatus
  <2> QED BY <1>3, <2>1, SentFields DEF Atomic!Refusal
<1> QED BY <1>1, <1>2, <1>3 DEF EarlyStatus

\* A role that is looked for and not found.
LEMMA UnknownRole ==
    ASSUME NEW call \in OpCalls, call.role \notin Roles,
           \/ call.op \in {"CreateUser", "ReplaceUser"}
           \/ call.op = "UpdateUser" /\ call.role # None
    PROVE  Atomic!Refusal(call, 422)
<1>1. "role" \in DOMAIN call /\ call.role # None
  BY SentFields
<1> QED BY <1>1, SameRows DEF Atomic!Refusal, Optional

\* A row that is not there.
LEMMA MissingRow ==
    ASSUME NEW call,
           \/ call.op \in {"GetUser", "UpdateUser", "ReplaceUser"} /\ call.user \notin LiveIds(users)
           \/ call.op \in {"GetPost", "ReplacePost", "ListComments"}
                 /\ call.post \notin LiveIds(posts)
           \/ call.op = "UpdateComment" /\ call.comment \notin LiveIds(comments)
    PROVE  Atomic!Refusal(call, 404)
BY SameRows DEF Atomic!Refusal

\* An address that is taken.
LEMMA TakenAddress ==
    ASSUME NEW call,
           \/ call.op = "CreateUser" /\ EmailTaken(users, call.email, None)
           \/ call.op \in {"UpdateUser", "ReplaceUser"} /\ EmailTaken(users, call.email, call.user)
    PROVE  Atomic!Refusal(call, 409)
BY SameRows DEF Atomic!Refusal

\* A user nobody can log in as with this password: every stored hash is that of
\* the salt stored beside it, so that the comparison fails for the password alone.
LEMMA WrongPassword ==
    ASSUME UsersOK, CredentialsUsable, NEW call, call.op = "Login",
           \A u \in LiveIds(users) :
              users[u].email = call.email => users[u].hash # HashOf(call.password, users[u].salt)
    PROVE  Atomic!Refusal(call, 401)
<1>1. ASSUME NEW u \in LiveIds(users), users[u].email = call.email
      PROVE  users[u].hash.password # call.password
  <2>1. users[u] \in UserRows
    BY LiveRows DEF UsersOK
  <2>2. users[u].hash = [password |-> users[u].hash.password, salt |-> users[u].salt]
    BY <2>1 DEF CredentialsUsable, UserRows, Hashes
  <2> QED BY <1>1, <2>2 DEF HashOf
<1> QED BY <1>1, SameRows DEF Atomic!Refusal

-----------------------------------------------------------------------------
(* Reads.                                                                  *)

\* What a read answers is accepted.
LEMMA ShownUser ==
    ASSUME NEW call, NEW u \in LiveIds(users), UNCHANGED tables,
           \/ call.op = "GetUser" /\ u = call.user
           \/ /\ call.op = "Login" /\ users[u].email = call.email
              /\ users[u].hash.password = call.password
    PROVE  Atomic!Accepted(call, 200, {<<u, toAPIUser(users[u], users[u].role)>>})
<1> DEFINE rows == {<<u, toAPIUser(users[u], users[u].role)>>}
<1>1. rows = {Atomic!UserView(u)} /\ u \in Atomic!LiveIds(users)
  BY SameRows, SameViews DEF Atomic!UserView
<1> HIDE DEF rows
<1>2. Atomic!Shows(call, rows)
  BY <1>1 DEF Atomic!Shows
<1> QED BY <1>2 DEF Atomic!Accepted, Atomic!tables, tables, rows

LEMMA ShownPost ==
    ASSUME NEW call, call.op = "GetPost", call.post \in LiveIds(posts), UNCHANGED tables
    PROVE  Atomic!Accepted(call, 200, ViewPosts({call.post}))
<1> DEFINE rows == ViewPosts({call.post})
<1>1. rows = {Atomic!PostView(call.post)} /\ call.post \in Atomic!LiveIds(posts)
  BY SameRows, SameViews DEF Atomic!PostView, ViewPosts
<1> HIDE DEF rows
<1>2. Atomic!Shows(call, rows)
  BY <1>1 DEF Atomic!Shows
<1> QED BY <1>2 DEF Atomic!Accepted, Atomic!tables, tables, rows

\* So is a page of a list.
LEMMA ShownPage ==
    ASSUME CommentsOK, NEW call, NEW ids, NEW wanted, NEW rows, UNCHANGED tables,
           Paginate(call.page, call.per_page).offset >= 0,
           ids \in Pages(wanted, Paginate(call.page, call.per_page)),
           \/ /\ call.op = "ListUsers" /\ wanted = LiveIds(users)
              /\ rows = ViewUsers(ids)
           \/ /\ call.op = "ListPosts" /\ wanted = Selected(call.status)
              /\ rows = ViewPosts(ids)
           \/ /\ call.op = "ListComments" /\ wanted = CommentsOn(comments, {call.post})
              /\ rows = {<<k, toAPIComment(comments[k])>> : k \in ids}
    PROVE  Atomic!Accepted(call, 200, rows)
<1>1. Atomic!PageAsked(call, wanted, ids) /\ ids \in SUBSET wanted
  BY SamePages DEF Pages
<1>2. CASE call.op = "ListUsers" /\ wanted = LiveIds(users) /\ rows = ViewUsers(ids)
  <2>1. wanted = Atomic!LiveIds(users) /\ rows = {Atomic!UserView(u) : u \in ids}
    BY <1>2, SameRows, SameViews DEF ViewUsers, Atomic!UserView
  <2>2. Atomic!Shows(call, rows)
    BY <1>1, <1>2, <2>1 DEF Atomic!Shows
  <2> QED BY <2>2 DEF Atomic!Accepted, Atomic!tables, tables
<1>3. CASE call.op = "ListPosts" /\ wanted = Selected(call.status) /\ rows = ViewPosts(ids)
  <2>1. wanted = {p \in Atomic!LiveIds(posts) : call.status \in {None, posts[p].status}}
    BY <1>3, SameRows DEF Selected
  <2>2. rows = {Atomic!PostView(p) : p \in ids}
    BY <1>3, SameViews DEF ViewPosts, Atomic!PostView
  <2>3. Atomic!Shows(call, rows)
    BY <1>1, <1>3, <2>1, <2>2 DEF Atomic!Shows
  <2> QED BY <2>3 DEF Atomic!Accepted, Atomic!tables, tables
<1>4. CASE /\ call.op = "ListComments" /\ wanted = CommentsOn(comments, {call.post})
           /\ rows = {<<k, toAPIComment(comments[k])>> : k \in ids}
  <2>1. \A k \in ids : comments[k] \in CommentRows
    BY <1>1, <1>4, LiveRows DEF CommentsOK, CommentsOn
  <2>2. \A k \in ids : toAPIComment(comments[k]) = comments[k]
    BY <2>1, SameComment
  <2>3. rows = {<<k, comments[k]>> : k \in ids}
    BY <1>4, <2>2
  <2>4. wanted = Atomic!CommentsOn(comments, {call.post})
    BY <1>4, SameViews
  <2>5. Atomic!Shows(call, rows)
    BY <1>1, <1>4, <2>3, <2>4 DEF Atomic!Shows
  <2> QED BY <2>5 DEF Atomic!Accepted, Atomic!tables, tables
<1> QED BY <1>2, <1>3, <1>4

-----------------------------------------------------------------------------
(* Writes.                                                                 *)

\* A table in which one row is written.
LEMMA OneRowWritten ==
    ASSUME NEW Ids, NEW Row, Fresh \notin Row, Gone \notin Row,
           NEW table \in [Ids -> Row \cup {Fresh, Gone}], NEW i \in Ids, NEW row \in Row
    PROVE  LET after == [table EXCEPT ![i] = row]
           IN  /\ after[i] = row /\ i \in LiveIds(after)
               /\ \A j \in DOMAIN table \ {i} : after[j] = table[j]
BY DEF LiveIds

\* A user is written as its call asks.
LEMMA UserWritten ==
    ASSUME UsersOK, NEW call, NEW u \in UserIds, NEW row \in UserRows,
           call.op \in {"CreateUser", "ReplaceUser", "UpdateUser"},
           users' = [users EXCEPT ![u] = row], UNCHANGED <<posts, comments>>,
           IF call.op = "CreateUser" THEN users[u] = Fresh
                                     ELSE u \in LiveIds(users) /\ u = call.user,
           call.op # "UpdateUser" => call.password # None,
           call.role \in Optional(Roles),
           row.email = Coalesce(call.email, users[u].email),
           row.role = Coalesce(call.role, users[u].role),
           IF call.password = None THEN row.hash = users[u].hash /\ row.salt = users[u].salt
                                   ELSE row.hash = HashOf(call.password, row.salt),
           ~EmailTaken(users, row.email, u)
    PROVE  /\ Atomic!HasEffect(call)
           /\ Atomic!Accepted(call, IF call.op = "CreateUser" THEN 201 ELSE 200,
                              {<<u, toAPIUser(row, row.role)>>})
<1> DEFINE rows == {<<u, toAPIUser(row, row.role)>>}
<1>1. /\ users'[u] = row /\ u \in LiveIds(users')
      /\ \A j \in DOMAIN users \ {u} : users'[j] = users[j]
  BY OneRowWritten, RowMarkers DEF UsersOK
<1>2. Atomic!ChangesOnly(users, users', u)
  BY <1>1, SameRows DEF Atomic!ChangesOnly
<1>3. Atomic!WritesUser(call, u)
  BY <1>1, <1>2, SameRows DEF Atomic!WritesUser
<1>4. rows = {Atomic!UserView(u)'}
  BY <1>1, SameViews DEF Atomic!UserView
<1>5. Atomic!Success(call) = IF call.op = "CreateUser" THEN 201 ELSE 200
  BY DEF Atomic!Success
<1> HIDE DEF rows
<1>6. Atomic!Accepted(call, Atomic!Success(call), rows)
  BY <1>3, <1>4 DEF Atomic!Accepted
<1> QED BY <1>3, <1>5, <1>6 DEF Atomic!HasEffect, rows

\* So is a post.
LEMMA PostWritten ==
    ASSUME PostsOK, NEW call, NEW p \in PostIds, NEW row \in PostRows,
           call.op \in {"CreatePost", "ReplacePost"},
           posts' = [posts EXCEPT ![p] = row], UNCHANGED <<users, comments>>,
           IF call.op = "CreatePost"
           THEN posts[p] = Fresh /\ call.caller \in LiveIds(users) /\ row.author = call.caller
           ELSE p \in LiveIds(posts) /\ p = call.post /\ row.author = posts[p].author,
           row.title = call.title, row.slug.base = call.title,
           row.status = Coalesce(call.status, "draft"),
           ~SlugTaken(posts, row.slug, p)
    PROVE  /\ Atomic!HasEffect(call)
           /\ Atomic!Accepted(call, IF call.op = "CreatePost" THEN 201 ELSE 200,
                              {<<p, toAPIPost(row, 0)>>})
<1> DEFINE rows == {<<p, toAPIPost(row, 0)>>}
<1>1. /\ posts'[p] = row /\ p \in LiveIds(posts')
      /\ \A j \in DOMAIN posts \ {p} : posts'[j] = posts[j]
  BY OneRowWritten, RowMarkers DEF PostsOK
<1>2. Atomic!ChangesOnly(posts, posts', p)
  BY <1>1, SameRows DEF Atomic!ChangesOnly
<1>3. row.status \in Atomic!Statuses
  BY DEF PostRows, Statuses, Atomic!Statuses
<1>4. Atomic!WritesPost(call, p)
  BY <1>1, <1>2, <1>3, SameRows DEF Atomic!WritesPost
<1>5. rows = {<<p, Atomic!toAPIPost(posts'[p], 0)>>}
  BY <1>1, SameViews
<1>6. Atomic!Success(call) = IF call.op = "CreatePost" THEN 201 ELSE 200
  BY DEF Atomic!Success
<1> HIDE DEF rows
<1>7. Atomic!Accepted(call, Atomic!Success(call), rows)
  BY <1>4, <1>5 DEF Atomic!Accepted
<1> QED BY <1>4, <1>6, <1>7 DEF Atomic!HasEffect, rows

\* And a comment.
LEMMA CommentWritten ==
    ASSUME CommentsOK, NEW call, NEW k \in CommentIds, NEW row \in CommentRows,
           call.op \in {"CreateComment", "UpdateComment"},
           comments' = [comments EXCEPT ![k] = row], UNCHANGED <<users, posts>>,
           IF call.op = "CreateComment"
           THEN /\ comments[k] = Fresh
                /\ call.caller \in LiveIds(users) /\ call.post \in LiveIds(posts)
                /\ row = [post |-> call.post, author |-> call.caller, text |-> call.text]
           ELSE /\ k \in LiveIds(comments) /\ k = call.comment
                /\ row = [comments[k] EXCEPT !.text = call.text]
    PROVE  /\ Atomic!HasEffect(call)
           /\ Atomic!Accepted(call, IF call.op = "CreateComment" THEN 201 ELSE 200,
                              {<<k, toAPIComment(row)>>})
<1> DEFINE rows == {<<k, toAPIComment(row)>>}
<1>1. /\ comments'[k] = row /\ k \in LiveIds(comments')
      /\ \A j \in DOMAIN comments \ {k} : comments'[j] = comments[j]
  BY OneRowWritten, RowMarkers DEF CommentsOK
<1>2. Atomic!ChangesOnly(comments, comments', k)
  BY <1>1, SameRows DEF Atomic!ChangesOnly
<1>3. Atomic!WritesComment(call, k)
  BY <1>1, <1>2, SameRows DEF Atomic!WritesComment
<1>4. rows = {<<k, comments'[k]>>}
  BY <1>1, SameComment
<1>5. Atomic!Success(call) = IF call.op = "CreateComment" THEN 201 ELSE 200
  BY DEF Atomic!Success
<1> HIDE DEF rows
<1>6. Atomic!Accepted(call, Atomic!Success(call), rows)
  BY <1>3, <1>4 DEF Atomic!Accepted
<1> QED BY <1>3, <1>5, <1>6 DEF Atomic!HasEffect, rows

-----------------------------------------------------------------------------
(* Deletions.                                                              *)

\* The rows a statement's cascade takes are the doomed ones.
LEMMA RowsLost ==
    ASSUME NEW table, NEW ids, NEW doomed, ids \cap LiveIds(table) = doomed
    PROVE  Atomic!Loses(table, Without(table, ids), doomed)
BY DEF Atomic!Loses, Without, LiveIds

\* A table none of whose rows is doomed stays as it is.
LEMMA NoRowsLost ==
    ASSUME NEW table
    PROVE  Atomic!Loses(table, table, {})
BY DEF Atomic!Loses

\* A deletion that takes what it should is accepted.
LEMMA Deleted204 ==
    ASSUME NEW call, call.op \in {"DeleteUser", "DeletePost", "DeleteComment"},
           Atomic!Loses(users, users', Atomic!DoomedUsers(call)),
           Atomic!Loses(posts, posts', Atomic!DoomedPosts(call)),
           Atomic!Loses(comments, comments', Atomic!DoomedComments(call))
    PROVE  Atomic!HasEffect(call) /\ Atomic!Accepted(call, 204, {})
<1>1. Atomic!Deletes(call)
  BY DEF Atomic!Deletes
<1> QED BY <1>1 DEF Atomic!HasEffect, Atomic!Accepted

LEMMA UserDeleted ==
    ASSUME ReferentialIntegrity, NEW call, call.op = "DeleteUser",
           users' = Without(users, {call.user}),
           posts' = Without(posts, PostsOf(posts, call.user)),
           comments' = Without(comments, CommentsOn(comments, PostsOf(posts, call.user))
                                         \cup CommentsBy(comments, call.user))
    PROVE  Atomic!HasEffect(call) /\ Atomic!Accepted(call, 204, {})
<1> DEFINE theirs  == PostsOf(posts, call.user)
           replies == CommentsOn(comments, theirs) \cup CommentsBy(comments, call.user)
<1>1. Atomic!DoomedUsers(call) = {call.user} \cap LiveIds(users)
  BY SameRows DEF Atomic!DoomedUsers
<1>2. Atomic!DoomedPosts(call) = theirs \cap LiveIds(posts)
  BY <1>1, SameRows DEF Atomic!DoomedPosts, PostsOf, ReferentialIntegrity
<1>3. Atomic!DoomedComments(call) = replies \cap LiveIds(comments)
  BY <1>1, <1>2, SameRows
     DEF Atomic!DoomedComments, PostsOf, CommentsOn, CommentsBy, ReferentialIntegrity
<1> QED BY <1>1, <1>2, <1>3, RowsLost, Deleted204

LEMMA PostDeleted ==
    ASSUME ReferentialIntegrity, NEW call, call.op = "DeletePost", UNCHANGED users,
           posts' = Without(posts, {call.post}),
           comments' = Without(comments, CommentsOn(comments, {call.post}))
    PROVE  Atomic!HasEffect(call) /\ Atomic!Accepted(call, 204, {})
<1>1. Atomic!DoomedUsers(call) = {}
  BY DEF Atomic!DoomedUsers
<1>2. Atomic!DoomedPosts(call) = {call.post} \cap LiveIds(posts)
  BY <1>1, SameRows DEF Atomic!DoomedPosts
<1>3. Atomic!DoomedComments(call) = CommentsOn(comments, {call.post}) \cap LiveIds(comments)
  BY <1>1, <1>2, SameRows DEF Atomic!DoomedComments, CommentsOn, ReferentialIntegrity
<1> QED BY <1>1, <1>2, <1>3, RowsLost, NoRowsLost, Deleted204

LEMMA CommentDeleted ==
    ASSUME NEW call, call.op = "DeleteComment", UNCHANGED <<users, posts>>,
           comments' = Without(comments, {call.comment})
    PROVE  Atomic!HasEffect(call) /\ Atomic!Accepted(call, 204, {})
<1>1. Atomic!DoomedUsers(call) = {} /\ Atomic!DoomedPosts(call) = {}
  BY DEF Atomic!DoomedUsers, Atomic!DoomedPosts
<1>2. Atomic!DoomedComments(call) = {call.comment} \cap LiveIds(comments)
  BY <1>1, SameRows DEF Atomic!DoomedComments
<1> QED BY <1>1, <1>2, RowsLost, NoRowsLost, Deleted204

-----------------------------------------------------------------------------
(* The steps of the handlers.                                              *)

\* What AtomicApi sees of a step: one of its own, or nothing.
Implemented == [Atomic!Next]_(Atomic!vars)

\* The total is counted once the rows are settled.
LEMMA CountUnseen ==
    ASSUME ReqOK, NEW c \in Clients, req[c].stage = "count", NEW total, AnswerList(c, total),
           UNCHANGED tables
    PROVE  Implemented
<1>1. Task(c)' = Task(c)
  BY AnswerListEffect DEF Task, Phase
<1> QED BY <1>1, AnswerListEffect, Stutters DEF Implemented

\* UpdateUser's last look at the role may leave it out of the answer.
LEMMA LoadSeen ==
    ASSUME ReqOK, NEW c \in Clients, UpdateUserLoad(c)
    PROVE  Implemented
<1> DEFINE bare == {<<r[1], toAPIUser(r[2], None)>> : r \in req[c].rows}
<1>0. req[c].stage = "load" /\ req[c].call.op = "UpdateUser" /\ UNCHANGED tables
  BY DEF UpdateUserLoad, Serves
<1>1. CASE Answer(c, 200, req[c].rows)
  <2>1. Task(c)' = Task(c)
    BY <1>0, <1>1, AnswerEffect DEF Task, Phase
  <2> QED BY <1>0, <1>1, <2>1, AnswerEffect, Stutters DEF Implemented
<1>2. CASE Answer(c, 200, bare)
  <2> HIDE DEF bare
  <2>1. /\ \A d \in Clients \ {c} : req'[d] = req[d]
        /\ req'[c].stage = "done" /\ req'[c].call = req[c].call
        /\ req'[c].status = 200 /\ req'[c].rows = bare
    BY <1>2, AnswerEffect
  <2>2. Task(c) = [phase |-> "decided", call |-> req[c].call, status |-> 200, rows |-> req[c].rows]
    BY <1>0 DEF Task, Phase
  <2>3. Task(c)' = [Task(c) EXCEPT !.rows = bare]
    BY <2>1, <2>2 DEF Task, Phase
  <2>4. Tasks' = [Tasks EXCEPT ![c] = [Tasks[c] EXCEPT !.rows = bare]]
    BY <2>1, <2>3, OneTaskMoves
  <2>5. /\ Tasks[c].phase = "decided" /\ Tasks[c].status = 200
        /\ Tasks[c].call.op = "UpdateUser" /\ Tasks[c].rows = req[c].rows
    BY <1>0, <2>2 DEF Tasks
  <2>6. bare = {<<r[1], Atomic!toAPIUser(r[2], None)>> : r \in Tasks[c].rows}
    BY <2>5, SameViews DEF bare
  <2>7. Atomic!Degrade(c)
    BY <1>0, <2>4, <2>5, <2>6 DEF Atomic!Degrade, Atomic!tables, tables
  <2> QED BY <2>7 DEF Implemented, Atomic!Next
<1> QED BY <1>1, <1>2 DEF UpdateUserLoad

\* A statement that fails costs the request its answer, also one it had.
LEMMA FailureSeen ==
    ASSUME ReqOK, OpenInv, NEW c \in Clients, StatementFails(c)
    PROVE  Implemented
<1>0. UNCHANGED tables /\ Answer(c, 500, {}) /\ req[c].stage \in Open \cup {"count"}
  BY DEF StatementFails, ServerError, Running, Open
<1>1. CASE req[c].stage \in Open
  BY <1>0, <1>1, Errs DEF ServerError, Implemented
<1>2. CASE req[c].stage = "count"
  <2>1. /\ \A d \in Clients \ {c} : req'[d] = req[d]
        /\ req'[c].stage = "done" /\ req'[c].call = req[c].call
        /\ req'[c].status = 500 /\ req'[c].rows = {}
    BY <1>0, AnswerEffect
  <2>2. Task(c) = [phase |-> "decided", call |-> req[c].call, status |-> 200, rows |-> req[c].rows]
    BY <1>2 DEF Task, Phase
  <2>3. Task(c)' = [phase |-> "decided", call |-> req[c].call, status |-> 500, rows |-> {}]
    BY <2>1 DEF Task, Phase
  <2>4. Tasks' = [Tasks EXCEPT ![c] = [phase |-> "decided", call |-> Tasks[c].call,
                                       status |-> 500, rows |-> {}]]
    BY <2>1, <2>2, <2>3, OneTaskMoves
  <2>5. /\ Tasks[c].phase = "decided" /\ Tasks[c].status = 200
        /\ Tasks[c].call.op \in Atomic!ListOps
    BY <1>2, <2>2, SameCalls DEF Tasks, OpenInv, OpenReq
  <2>6. Atomic!Degrade(c)
    BY <1>0, <2>4, <2>5 DEF Atomic!Degrade, Atomic!tables, tables
  <2> QED BY <2>6 DEF Implemented, Atomic!Next
<1> QED BY <1>0, <1>1, <1>2

\* Looking up a role.
LEMMA RoleSeen ==
    ASSUME ReqOK, OpenInv, NEW c \in Clients,
           CreateUserRole(c) \/ ReplaceUserRole(c) \/ UpdateUserRole(c)
    PROVE  Implemented
<1> DEFINE call == req[c].call
<1>0. /\ req[c].stage = "role" /\ req[c].stage \in Open /\ req[c].stage \in Running
      /\ UNCHANGED tables
  BY DEF CreateUserRole, ReplaceUserRole, UpdateUserRole, LookupRole, Serves, Open, Running
<1>1. CASE call.role \notin Roles /\ Answer(c, 422, {})
  <2>1. call \in OpCalls /\ call.role # None
    BY <1>0 DEF ReqOK, OpenInv, OpenReq
  <2>2. call.op \in {"CreateUser", "ReplaceUser", "UpdateUser"}
    BY DEF CreateUserRole, ReplaceUserRole, UpdateUserRole, LookupRole, Serves
  <2>3. Atomic!Refusal(call, 422)
    BY <1>1, <2>1, <2>2, UnknownRole
  <2> QED BY <1>0, <1>1, <2>3, Refuses DEF Implemented
<1>2. CASE ServerError(c)
  BY <1>0, <1>2, Errs DEF Implemented
<1>3. CASE Continue(c, "main", {})
  BY <1>0, <1>3, LooksUp DEF Implemented
<1> QED
  BY <1>1, <1>2, <1>3 DEF CreateUserRole, ReplaceUserRole, UpdateUserRole, LookupRole

\* An operation's own statement: its request is open and admitted.
LEMMA OwnStatement ==
    ASSUME RefinementInv, NEW c \in Clients, NEW op, Serves(c, op, "main")
    PROVE  /\ ReqOK /\ UsersOK /\ PostsOK /\ CommentsOK
           /\ req[c].stage \in Open /\ req[c].call \in OpCalls /\ req[c].call.op = op
           /\ Admitted(req[c].call, "main")
<1>1. TablesOK /\ ReqOK
  BY TypeInvParts DEF RefinementInv
<1>2. req[c].stage = "main" /\ req[c].call.op = op
  BY DEF Serves
<1>3. req[c].call \in OpCalls /\ Admitted(req[c].call, "main")
  BY <1>1, <1>2, StagesAndStatuses DEF ReqOK
<1> QED BY <1>1, <1>2, <1>3 DEF TablesOK, Open

\* The operations on users.
LEMMA LoginSeen ==
    ASSUME RefinementInv, NEW c \in Clients, Login(c)
    PROVE  Implemented
<1> DEFINE call == req[c].call
           genuine == {u \in LiveIds(users) : /\ users[u].email = call.email
                                              /\ users[u].hash = HashOf(call.password, users[u].salt)}
<1>1. Serves(c, "Login", "main") /\ UNCHANGED tables
  BY DEF Login
<1>2. ReqOK /\ UsersOK /\ req[c].stage \in Open /\ call.op = "Login"
  BY <1>1, OwnStatement
<1>3. CASE genuine = {} /\ Answer(c, 401, {})
  <2>1. Atomic!Refusal(call, 401)
    BY <1>2, <1>3, WrongPassword DEF RefinementInv, Integrity
  <2> QED BY <1>1, <1>2, <1>3, <2>1, Refuses DEF Implemented
<1>4. ASSUME NEW u \in genuine, Answer(c, 200, {<<u, toAPIUser(users[u], users[u].role)>>})
      PROVE  Implemented
  <2>1. Atomic!Accepted(call, 200, {<<u, toAPIUser(users[u], users[u].role)>>})
    BY <1>1, <1>2, <1>4, ShownUser DEF HashOf
  <2> QED BY <1>2, <1>4, <2>1, Decides DEF Settles, Implemented
<1> QED BY <1>3, <1>4 DEF Login

LEMMA ListUsersSeen ==
    ASSUME RefinementInv, NEW c \in Clients, ListUsers(c)
    PROVE  Implemented
<1> DEFINE call == req[c].call
           window == Paginate(call.page, call.per_page)
<1>1. Serves(c, "ListUsers", "main") /\ UNCHANGED tables
  BY DEF ListUsers
<1>2. ReqOK /\ CommentsOK /\ req[c].stage \in Open /\ call.op = "ListUsers"
  BY <1>1, OwnStatement
<1>3. CASE ServerError(c)
  BY <1>1, <1>2, <1>3, Errs DEF Implemented
<1>4. ASSUME window.offset >= 0, NEW ids \in Pages(LiveIds(users), window),
             Continue(c, "count", ViewUsers(ids))
      PROVE  Implemented
  <2>1. Atomic!Accepted(call, 200, ViewUsers(ids))
    BY <1>1, <1>2, <1>4, ShownPage
  <2> QED BY <1>2, <1>4, <2>1, Decides DEF Settles, Implemented
<1> QED BY <1>3, <1>4 DEF ListUsers

LEMMA GetUserSeen ==
    ASSUME RefinementInv, NEW c \in Clients, GetUser(c)
    PROVE  Implemented
<1> DEFINE call == req[c].call
<1>1. Serves(c, "GetUser", "main") /\ UNCHANGED tables
  BY DEF GetUser
<1>2. ReqOK /\ req[c].stage \in Open /\ call.op = "GetUser"
  BY <1>1, OwnStatement
<1>3. CASE call.user \notin LiveIds(users) /\ Answer(c, 404, {})
  BY <1>1, <1>2, <1>3, MissingRow, Refuses DEF Implemented
<1>4. CASE call.user \in LiveIds(users) /\ Answer(c, 200, ViewUsers({call.user}))
  <2>1. ViewUsers({call.user}) = {<<call.user, toAPIUser(users[call.user], users[call.user].role)>>}
    BY DEF ViewUsers
  <2>2. Atomic!Accepted(call, 200, ViewUsers({call.user}))
    BY <1>1, <1>2, <1>4, <2>1, ShownUser
  <2> QED BY <1>2, <1>4, <2>2, Decides DEF Settles, Implemented
<1> QED BY <1>3, <1>4 DEF GetUser

\* A user is created or replaced: every column is the body's.
LEMMA UserRowSeen ==
    ASSUME RefinementInv, NEW c \in Clients, NEW op \in {"CreateUser", "ReplaceUser"},
           Serves(c, op, "main"), NEW u \in UserIds, NEW salt \in Salts,
           IF op = "CreateUser" THEN users[u] = Fresh
                                ELSE u \in LiveIds(users) /\ u = req[c].call.user,
           ~EmailTaken(users, req[c].call.email, u),
           users' = [users EXCEPT ![u] = UserRow(req[c].call, salt)],
           UNCHANGED <<posts, comments>>,
           AnswerWritten(c, IF op = "CreateUser" THEN 201 ELSE 200,
                         {<<u, toAPIUser(UserRow(req[c].call, salt), req[c].call.role)>>})
    PROVE  Implemented
<1> DEFINE call   == req[c].call
           status == IF op = "CreateUser" THEN 201 ELSE 200
           row    == UserRow(call, salt)
           rows   == {<<u, toAPIUser(row, call.role)>>}
<1>1. /\ ReqOK /\ UsersOK /\ req[c].stage \in Open /\ call \in OpCalls
      /\ call.op = op /\ Admitted(call, "main")
  BY OwnStatement
<1>2. call.password # None /\ call.role \in Roles
  BY <1>1 DEF Admitted
<1>3. row \in UserRows
  BY <1>1, <1>2, UserRowType
<1>4. call.email # None /\ call.role # None
  BY <1>1, <1>2, CallFields, StoreAssumption DEF CreateUserCalls, ReplaceUserCalls
<1>5. /\ row.email = Coalesce(call.email, users[u].email)
      /\ row.role = Coalesce(call.role, users[u].role) /\ row.role = call.role
      /\ row.hash = HashOf(call.password, row.salt)
  BY <1>4 DEF UserRow, Coalesce
<1>6. ~EmailTaken(users, row.email, u)
  BY DEF UserRow
<1> HIDE DEF row
<1>7. users' = [users EXCEPT ![u] = row]
  BY DEF row
<1>8. Atomic!HasEffect(call) /\ Atomic!Accepted(call, status, rows)
  <2>1. /\ call.op \in {"CreateUser", "ReplaceUser", "UpdateUser"} /\ call.op # "UpdateUser"
        /\ call.role \in Optional(Roles)
        /\ IF call.op = "CreateUser" THEN users[u] = Fresh
                                     ELSE u \in LiveIds(users) /\ u = call.user
    BY <1>1, <1>2 DEF Optional
  <2>2. IF call.password = None THEN row.hash = users[u].hash /\ row.salt = users[u].salt
                                ELSE row.hash = HashOf(call.password, row.salt)
    BY <1>2, <1>5
  <2>3. /\ status = (IF call.op = "CreateUser" THEN 201 ELSE 200)
        /\ rows = {<<u, toAPIUser(row, row.role)>>}
    BY <1>1, <1>5
  <2> HIDE DEF call, status, rows
  <2> QED BY <1>1, <1>2, <1>3, <1>5, <1>6, <1>7, <2>1, <2>2, <2>3, UserWritten
<1>9. Settles(c, status, rows) \/ ServerError(c)
  BY DEF AnswerWritten, Settles, row
<1> HIDE DEF status, rows
<1> QED BY <1>1, <1>8, <1>9, Takes DEF Implemented

LEMMA CreateUserSeen ==
    ASSUME RefinementInv, NEW c \in Clients, CreateUser(c)
    PROVE  Implemented
<1> DEFINE call == req[c].call
<1>1. Serves(c, "CreateUser", "main") /\ UNCHANGED <<posts, comments>>
  BY DEF CreateUser
<1>2. ReqOK /\ UsersOK /\ req[c].stage \in Open /\ call.op = "CreateUser"
  BY <1>1, OwnStatement
<1>3. CASE EmailTaken(users, call.email, None) /\ Answer(c, 409, {}) /\ UNCHANGED users
  <2>1. Atomic!Refusal(call, 409)
    BY <1>2, <1>3, TakenAddress
  <2> QED BY <1>1, <1>2, <1>3, <2>1, Refuses DEF Implemented, tables
<1>4. ASSUME ~EmailTaken(users, call.email, None), NEW u \in FreshIds(users), NEW salt \in Salts,
             users' = [users EXCEPT ![u] = UserRow(call, salt)],
             AnswerWritten(c, 201, {<<u, toAPIUser(UserRow(call, salt), call.role)>>})
      PROVE  Implemented
  <2>1. u \in UserIds /\ users[u] = Fresh
    BY <1>2, LiveRows DEF UsersOK, FreshIds
  <2>2. ~EmailTaken(users, call.email, u)
    <3>1. u \notin LiveIds(users)
      BY <2>1 DEF LiveIds
    <3>2. None \notin LiveIds(users)
      BY <1>2, LiveRows, StoreAssumption DEF UsersOK
    <3> QED BY <1>4, <3>2 DEF EmailTaken
  <2> QED BY <1>1, <1>4, <2>1, <2>2, UserRowSeen
<1> QED BY <1>3, <1>4 DEF CreateUser

LEMMA ReplaceUserSeen ==
    ASSUME RefinementInv, NEW c \in Clients, ReplaceUser(c)
    PROVE  Implemented
<1> DEFINE call == req[c].call
<1>1. Serves(c, "ReplaceUser", "main") /\ UNCHANGED <<posts, comments>>
  BY DEF ReplaceUser
<1>2. ReqOK /\ UsersOK /\ req[c].stage \in Open /\ call.op = "ReplaceUser"
  BY <1>1, OwnStatement
<1>3. CASE call.user \notin LiveIds(users) /\ Answer(c, 404, {}) /\ UNCHANGED users
  BY <1>1, <1>2, <1>3, MissingRow, Refuses DEF Implemented, tables
<1>4. CASE EmailTaken(users, call.email, call.user) /\ Answer(c, 409, {}) /\ UNCHANGED users
  BY <1>1, <1>2, <1>4, TakenAddress, Refuses DEF Implemented, tables
<1>5. ASSUME call.user \in LiveIds(users), ~EmailTaken(users, call.email, call.user),
             NEW salt \in Salts,
             users' = [users EXCEPT ![call.user] = UserRow(call, salt)],
             AnswerWritten(c, 200, {<<call.user, toAPIUser(UserRow(call, salt), call.role)>>})
      PROVE  Implemented
  <2>1. call.user \in UserIds
    BY <1>2, <1>5, LiveRows DEF UsersOK
  <2> QED BY <1>1, <1>5, <2>1, UserRowSeen
<1> QED BY <1>3, <1>4, <1>5 DEF ReplaceUser

\* The UPDATE keeps what the body leaves out; an address that stays is not taken,
\* because the keys are unique.
LEMMA UpdateUserSeen ==
    ASSUME RefinementInv, NEW c \in Clients, UpdateUser(c)
    PROVE  Implemented
<1> DEFINE call == req[c].call
           u    == call.user
<1>1. Serves(c, "UpdateUser", "main") /\ UNCHANGED <<posts, comments>>
  BY DEF UpdateUser
<1>2. /\ ReqOK /\ UsersOK /\ req[c].stage \in Open /\ call.op = "UpdateUser"
      /\ call \in OpCalls /\ call.role \in Optional(Roles)
  BY <1>1, OwnStatement DEF Admitted
<1>3. CASE u \notin LiveIds(users) /\ Answer(c, 404, {}) /\ UNCHANGED users
  BY <1>1, <1>2, <1>3, MissingRow, Refuses DEF Implemented, tables
<1>4. CASE EmailTaken(users, call.email, u) /\ Answer(c, 409, {}) /\ UNCHANGED users
  BY <1>1, <1>2, <1>4, TakenAddress, Refuses DEF Implemented, tables
<1>5. ASSUME u \in LiveIds(users), call.email = None \/ ~EmailTaken(users, call.email, u),
             NEW salt \in Salts, NEW row, row = UpdatedRow(call, users[u], salt),
             users' = [users EXCEPT ![u] = row],
             Continue(c, "load", {<<u, toAPIUser(row, row.role)>>}) \/ ServerError(c)
      PROVE  Implemented
  <2>1. u \in UserIds /\ users[u] \in UserRows
    BY <1>2, <1>5, LiveRows DEF UsersOK
  <2>2. row \in UserRows
    BY <1>2, <1>5, <2>1, UpdatedRowType
  <2>3. /\ row.email = Coalesce(call.email, users[u].email)
        /\ row.role = Coalesce(call.role, users[u].role)
        /\ IF call.password = None THEN row.hash = users[u].hash /\ row.salt = users[u].salt
                                   ELSE row.hash = HashOf(call.password, row.salt)
    BY <1>5 DEF UpdatedRow
  <2>4. ~EmailTaken(users, row.email, u)
    BY <1>5, <2>3 DEF RefinementInv, Integrity, UniqueKeys, EmailTaken, Coalesce
  <2>5. /\ Atomic!HasEffect(call)
        /\ Atomic!Accepted(call, 200, {<<u, toAPIUser(row, row.role)>>})
    <3> DEFINE rows == {<<u, toAPIUser(row, row.role)>>}
    <3>1. /\ call.op \in {"CreateUser", "ReplaceUser", "UpdateUser"} /\ call.op = "UpdateUser"
          /\ IF call.op = "CreateUser" THEN users[u] = Fresh
                                       ELSE u \in LiveIds(users) /\ u = call.user
          /\ 200 = (IF call.op = "CreateUser" THEN 201 ELSE 200)
      BY <1>2, <1>5
    <3> HIDE DEF rows
    <3>2. Atomic!HasEffect(call) /\ Atomic!Accepted(call, 200, rows)
      <4> HIDE DEF call, u
      <4> QED BY <1>1, <1>2, <1>5, <2>1, <2>2, <2>3, <2>4, <3>1, UserWritten DEF rows
    <3> QED BY <3>2 DEF rows
  <2>6. \/ Settles(c, 200, {<<u, toAPIUser(row, row.role)>>})
        \/ ServerError(c)
    BY <1>5 DEF Settles
  <2> QED BY <1>2, <2>5, <2>6, Takes DEF Implemented
<1> QED BY <1>3, <1>4, <1>5 DEF UpdateUser

LEMMA DeleteUserSeen ==
    ASSUME RefinementInv, NEW c \in Clients, DeleteUser(c)
    PROVE  Implemented
<1> DEFINE call == req[c].call
<1>1. Serves(c, "DeleteUser", "main") /\ AnswerWritten(c, 204, {})
  BY DEF DeleteUser
<1>2. ReqOK /\ req[c].stage \in Open /\ call.op = "DeleteUser" /\ ReferentialIntegrity
  BY <1>1, OwnStatement DEF RefinementInv, Integrity
<1>3. Atomic!HasEffect(call) /\ Atomic!Accepted(call, 204, {})
  BY <1>2, UserDeleted DEF DeleteUser
<1> QED BY <1>1, <1>2, <1>3, Takes DEF AnswerWritten, Settles, Implemented

LEMMA UserStepSeen ==
    ASSUME RefinementInv, NEW c \in Clients, UserStep(c)
    PROVE  Implemented
<1>1. ReqOK /\ OpenInv
  BY TypeInvParts DEF RefinementInv
<1>2. CASE CountUsers(c)
  BY <1>1, <1>2, CountUnseen DEF CountUsers, Serves
<1> QED
  BY <1>1, <1>2, LoginSeen, ListUsersSeen, RoleSeen, CreateUserSeen, GetUserSeen,
     UpdateUserSeen, LoadSeen, ReplaceUserSeen, DeleteUserSeen DEF UserStep

\* The operations on posts.
LEMMA ListPostsSeen ==
    ASSUME RefinementInv, NEW c \in Clients, ListPosts(c)
    PROVE  Implemented
<1> DEFINE call == req[c].call
           window == Paginate(call.page, call.per_page)
<1>1. Serves(c, "ListPosts", "main") /\ UNCHANGED tables
  BY DEF ListPosts
<1>2. ReqOK /\ CommentsOK /\ req[c].stage \in Open /\ call.op = "ListPosts"
  BY <1>1, OwnStatement
<1>3. CASE ServerError(c)
  BY <1>1, <1>2, <1>3, Errs DEF Implemented
<1>4. ASSUME window.offset >= 0, NEW ids \in Pages(Selected(call.status), window),
             Continue(c, "count", ViewPosts(ids))
      PROVE  Implemented
  <2>1. Atomic!Accepted(call, 200, ViewPosts(ids))
    BY <1>1, <1>2, <1>4, ShownPage
  <2> QED BY <1>2, <1>4, <2>1, Decides DEF Settles, Implemented
<1> QED BY <1>3, <1>4 DEF ListPosts

LEMMA GetPostSeen ==
    ASSUME RefinementInv, NEW c \in Clients, GetPost(c)
    PROVE  Implemented
<1> DEFINE call == req[c].call
<1>1. Serves(c, "GetPost", "main") /\ UNCHANGED tables
  BY DEF GetPost
<1>2. ReqOK /\ req[c].stage \in Open /\ call.op = "GetPost"
  BY <1>1, OwnStatement
<1>3. CASE call.post \notin LiveIds(posts) /\ Answer(c, 404, {})
  BY <1>1, <1>2, <1>3, MissingRow, Refuses DEF Implemented
<1>4. CASE call.post \in LiveIds(posts) /\ Answer(c, 200, ViewPosts({call.post}))
  <2>1. Atomic!Accepted(call, 200, ViewPosts({call.post}))
    BY <1>1, <1>2, <1>4, ShownPost
  <2> QED BY <1>2, <1>4, <2>1, Decides DEF Settles, Implemented
<1> QED BY <1>3, <1>4 DEF GetPost

\* A post is created or replaced.
LEMMA PostRowSeen ==
    ASSUME RefinementInv, NEW c \in Clients, NEW op \in {"CreatePost", "ReplacePost"},
           Serves(c, op, "main"), NEW p \in PostIds, NEW author \in UserIds,
           NEW suffix \in Suffixes, NEW row, row = PostRow(author, req[c].call, suffix),
           IF op = "CreatePost"
           THEN /\ posts[p] = Fresh /\ req[c].call.caller \in LiveIds(users)
                /\ author = req[c].call.caller
           ELSE p \in LiveIds(posts) /\ p = req[c].call.post /\ author = posts[p].author,
           row.status \in Statuses, ~SlugTaken(posts, row.slug, p),
           posts' = [posts EXCEPT ![p] = row], UNCHANGED <<users, comments>>,
           AnswerWritten(c, IF op = "CreatePost" THEN 201 ELSE 200, {<<p, toAPIPost(row, 0)>>})
    PROVE  Implemented
<1> DEFINE call   == req[c].call
           status == IF op = "CreatePost" THEN 201 ELSE 200
           rows   == {<<p, toAPIPost(row, 0)>>}
<1>1. /\ ReqOK /\ PostsOK /\ req[c].stage \in Open /\ call \in OpCalls /\ call.op = op
  BY OwnStatement
<1>2. call.title \in Titles
  BY <1>1, CallFields DEF CreatePostCalls, ReplacePostCalls
<1>3. /\ row.author = author /\ row.title = call.title /\ row.slug.base = call.title
      /\ row.status = Coalesce(call.status, "draft")
  BY DEF PostRow
<1>4. row \in PostRows
  BY <1>2, <1>3, PostRowType
<1>5. Atomic!HasEffect(call) /\ Atomic!Accepted(call, status, rows)
  <2>1. /\ call.op \in {"CreatePost", "ReplacePost"}
        /\ IF call.op = "CreatePost"
           THEN posts[p] = Fresh /\ call.caller \in LiveIds(users) /\ row.author = call.caller
           ELSE p \in LiveIds(posts) /\ p = call.post /\ row.author = posts[p].author
        /\ status = (IF call.op = "CreatePost" THEN 201 ELSE 200)
    BY <1>1, <1>3
  <2> HIDE DEF call, status
  <2>2. rows = {<<p, toAPIPost(row, 0)>>}
    OBVIOUS
  <2> HIDE DEF rows
  <2> QED BY <1>1, <1>3, <1>4, <2>1, <2>2, PostWritten
<1>6. Settles(c, status, rows) \/ ServerError(c)
  BY DEF AnswerWritten, Settles
<1> HIDE DEF status, rows
<1> QED BY <1>1, <1>5, <1>6, Takes DEF Implemented

LEMMA CreatePostSeen ==
    ASSUME RefinementInv, NEW c \in Clients, CreatePost(c)
    PROVE  Implemented
<1> DEFINE call == req[c].call
<1>1. Serves(c, "CreatePost", "main") /\ UNCHANGED <<users, comments>>
  BY DEF CreatePost
<1>2. ReqOK /\ UsersOK /\ PostsOK /\ req[c].stage \in Open
  BY <1>1, OwnStatement
<1>3. CASE ServerError(c) /\ UNCHANGED posts
  BY <1>1, <1>2, <1>3, Errs DEF Implemented, tables
<1>4. ASSUME NEW suffix \in Suffixes, NEW row, row = PostRow(call.caller, call, suffix),
             row.status \in Statuses, ~SlugTaken(posts, row.slug, None),
             call.caller \in LiveIds(users), NEW p \in FreshIds(posts),
             posts' = [posts EXCEPT ![p] = row],
             AnswerWritten(c, 201, {<<p, toAPIPost(row, 0)>>})
      PROVE  Implemented
  <2>1. p \in PostIds /\ posts[p] = Fresh /\ call.caller \in UserIds
    BY <1>2, <1>4, LiveRows DEF PostsOK, UsersOK, FreshIds
  <2>2. ~SlugTaken(posts, row.slug, p)
    <3>1. None \notin LiveIds(posts)
      BY <1>2, LiveRows, StoreAssumption DEF PostsOK
    <3> QED BY <1>4, <3>1 DEF SlugTaken
  <2> QED BY <1>1, <1>4, <2>1, <2>2, PostRowSeen
<1> QED BY <1>3, <1>4 DEF CreatePost

LEMMA ReplacePostSeen ==
    ASSUME RefinementInv, NEW c \in Clients, ReplacePost(c)
    PROVE  Implemented
<1> DEFINE call == req[c].call
           p    == call.post
<1>1. Serves(c, "ReplacePost", "main") /\ UNCHANGED <<users, comments>>
  BY DEF ReplacePost
<1>2. ReqOK /\ PostsOK /\ req[c].stage \in Open /\ call.op = "ReplacePost"
  BY <1>1, OwnStatement
<1>3. CASE ServerError(c) /\ UNCHANGED posts
  BY <1>1, <1>2, <1>3, Errs DEF Implemented, tables
<1>4. CASE p \notin LiveIds(posts) /\ Answer(c, 404, {}) /\ UNCHANGED posts
  BY <1>1, <1>2, <1>4, MissingRow, Refuses DEF Implemented, tables
<1>5. ASSUME ValidStatus(call.status), p \in LiveIds(posts), NEW suffix \in Suffixes,
             ~SlugTaken(posts, [base |-> call.title, suffix |-> suffix], p),
             NEW row, row = PostRow(posts[p].author, call, suffix),
             posts' = [posts EXCEPT ![p] = row],
             AnswerWritten(c, 200, {<<p, toAPIPost(row, 0)>>})
      PROVE  Implemented
  <2>1. p \in PostIds /\ posts[p] \in PostRows
    BY <1>2, <1>5, LiveRows DEF PostsOK
  <2>2. posts[p].author \in UserIds
    BY <2>1 DEF PostRows
  <2>3. row.status \in Statuses /\ row.slug = [base |-> call.title, suffix |-> suffix]
    BY <1>5 DEF PostRow, ValidStatus, Optional, Coalesce, Statuses
  <2>4. ~SlugTaken(posts, row.slug, p)
    BY <1>5, <2>3
  <2>5. PICK author \in UserIds : author = posts[p].author
    BY <2>2
  <2>6. row = PostRow(author, req[c].call, suffix)
    BY <1>5, <2>5
  <2>7. PICK op \in {"CreatePost", "ReplacePost"} : op = "ReplacePost"
    OBVIOUS
  <2>8. /\ Serves(c, op, "main")
        /\ IF op = "CreatePost"
           THEN /\ posts[p] = Fresh /\ req[c].call.caller \in LiveIds(users)
                /\ author = req[c].call.caller
           ELSE p \in LiveIds(posts) /\ p = req[c].call.post /\ author = posts[p].author
    BY <1>1, <1>5, <2>5, <2>7
  <2>9. AnswerWritten(c, IF op = "CreatePost" THEN 201 ELSE 200, {<<p, toAPIPost(row, 0)>>})
    BY <1>5, <2>7
  <2>10. p \in PostIds /\ posts' = [posts EXCEPT ![p] = row]
    BY <1>5, <2>1
  <2> HIDE DEF p, call
  <2> QED BY <1>1, <2>3, <2>4, <2>5, <2>6, <2>7, <2>8, <2>9, <2>10, PostRowSeen
<1> QED BY <1>3, <1>4, <1>5 DEF ReplacePost

LEMMA DeletePostSeen ==
    ASSUME RefinementInv, NEW c \in Clients, DeletePost(c)
    PROVE  Implemented
<1> DEFINE call == req[c].call
<1>1. Serves(c, "DeletePost", "main") /\ AnswerWritten(c, 204, {})
  BY DEF DeletePost
<1>2. ReqOK /\ req[c].stage \in Open /\ call.op = "DeletePost" /\ ReferentialIntegrity
  BY <1>1, OwnStatement DEF RefinementInv, Integrity
<1>3. Atomic!HasEffect(call) /\ Atomic!Accepted(call, 204, {})
  BY <1>2, PostDeleted DEF DeletePost
<1> QED BY <1>1, <1>2, <1>3, Takes DEF AnswerWritten, Settles, Implemented

LEMMA PostStepSeen ==
    ASSUME RefinementInv, NEW c \in Clients, PostStep(c)
    PROVE  Implemented
<1>1. ReqOK
  BY TypeInvParts DEF RefinementInv
<1>2. CASE CountPosts(c)
  BY <1>1, <1>2, CountUnseen DEF CountPosts, Serves
<1> QED
  BY <1>2, ListPostsSeen, CreatePostSeen, GetPostSeen, ReplacePostSeen, DeletePostSeen
     DEF PostStep

\* The operations on comments.
LEMMA ListCommentsPostSeen ==
    ASSUME RefinementInv, NEW c \in Clients, ListCommentsPost(c)
    PROVE  Implemented
<1> DEFINE call == req[c].call
<1>1. /\ ReqOK /\ OpenInv /\ UNCHANGED tables
      /\ call.op = "ListComments" /\ req[c].stage \in Open
  BY TypeInvParts DEF RefinementInv, ListCommentsPost, Serves, Open
<1>2. CASE call.post \notin LiveIds(posts) /\ Answer(c, 404, {})
  BY <1>1, <1>2, MissingRow, Refuses DEF Implemented
<1>3. CASE Continue(c, "main", {})
  BY <1>1, <1>3, LooksUp DEF Implemented
<1> QED BY <1>2, <1>3 DEF ListCommentsPost

\* The list of a post's comments is right for the moment it is selected, also
\* when the post is no longer there: the cascade took its comments too.
LEMMA ListCommentsSeen ==
    ASSUME RefinementInv, NEW c \in Clients, ListComments(c)
    PROVE  Implemented
<1> DEFINE call == req[c].call
           window == Paginate(call.page, call.per_page)
           onPost == CommentsOn(comments, {call.post})
<1>1. Serves(c, "ListComments", "main") /\ UNCHANGED tables
  BY DEF ListComments
<1>2. ReqOK /\ CommentsOK /\ req[c].stage \in Open /\ call.op = "ListComments"
  BY <1>1, OwnStatement
<1>3. CASE ServerError(c)
  BY <1>1, <1>2, <1>3, Errs DEF Implemented
<1>4. ASSUME window.offset >= 0, NEW ids \in Pages(onPost, window), NEW rows,
             rows = {<<k, toAPIComment(comments[k])>> : k \in ids}, Continue(c, "count", rows)
      PROVE  Implemented
  <2>1. Atomic!Accepted(call, 200, rows)
    BY <1>1, <1>2, <1>4, ShownPage
  <2> QED BY <1>2, <1>4, <2>1, Decides DEF Settles, Implemented
<1> QED BY <1>3, <1>4 DEF ListComments

LEMMA CreateCommentSeen ==
    ASSUME RefinementInv, NEW c \in Clients, CreateComment(c)
    PROVE  Implemented
<1> DEFINE call == req[c].call
<1>1. Serves(c, "CreateComment", "main") /\ UNCHANGED <<users, posts>>
  BY DEF CreateComment
<1>2. /\ ReqOK /\ UsersOK /\ CommentsOK /\ req[c].stage \in Open
      /\ call \in OpCalls /\ call.op = "CreateComment"
  BY <1>1, OwnStatement
<1>3. CASE ServerError(c) /\ UNCHANGED comments
  BY <1>1, <1>2, <1>3, Errs DEF Implemented, tables
<1>4. ASSUME NEW row, row = [post |-> call.post, author |-> call.caller, text |-> call.text],
             call.post \in LiveIds(posts), call.caller \in LiveIds(users),
             NEW k \in FreshIds(comments), comments' = [comments EXCEPT ![k] = row],
             AnswerWritten(c, 201, {<<k, toAPIComment(row)>>})
      PROVE  Implemented
  <2>1. k \in CommentIds /\ comments[k] = Fresh /\ call.caller \in UserIds
    BY <1>2, <1>4, LiveRows DEF CommentsOK, UsersOK, FreshIds
  <2>2. row \in CommentRows
    BY <1>2, <1>4, <2>1, CallFields DEF CreateCommentCalls, CommentRows
  <2>3. Atomic!HasEffect(call) /\ Atomic!Accepted(call, 201, {<<k, toAPIComment(row)>>})
    <3>1. /\ call.op \in {"CreateComment", "UpdateComment"}
          /\ IF call.op = "CreateComment"
             THEN /\ comments[k] = Fresh
                  /\ call.caller \in LiveIds(users) /\ call.post \in LiveIds(posts)
                  /\ row = [post |-> call.post, author |-> call.caller, text |-> call.text]
             ELSE /\ k \in LiveIds(comments) /\ k = call.comment
                  /\ row = [comments[k] EXCEPT !.text = call.text]
          /\ 201 = (IF call.op = "CreateComment" THEN 201 ELSE 200)
      BY <1>2, <1>4, <2>1
    <3> HIDE DEF call
    <3> QED BY <1>1, <1>2, <1>4, <2>1, <2>2, <3>1, CommentWritten
  <2>4. Settles(c, 201, {<<k, toAPIComment(row)>>}) \/ ServerError(c)
    BY <1>4 DEF AnswerWritten, Settles
  <2> QED BY <1>2, <2>3, <2>4, Takes DEF Implemented
<1> QED BY <1>3, <1>4 DEF CreateComment

LEMMA UpdateCommentSeen ==
    ASSUME RefinementInv, NEW c \in Clients, UpdateComment(c)
    PROVE  Implemented
<1> DEFINE call == req[c].call
           k    == call.comment
<1>1. Serves(c, "UpdateComment", "main") /\ UNCHANGED <<users, posts>>
  BY DEF UpdateComment
<1>2. /\ ReqOK /\ CommentsOK /\ req[c].stage \in Open
      /\ call \in OpCalls /\ call.op = "UpdateComment"
  BY <1>1, OwnStatement
<1>3. CASE k \notin LiveIds(comments) /\ Answer(c, 404, {}) /\ UNCHANGED comments
  BY <1>1, <1>2, <1>3, MissingRow, Refuses DEF Implemented, tables
<1>4. ASSUME k \in LiveIds(comments), NEW row, row = [comments[k] EXCEPT !.text = call.text],
             comments' = [comments EXCEPT ![k] = row],
             AnswerWritten(c, 200, {<<k, toAPIComment(row)>>})
      PROVE  Implemented
  <2>1. k \in CommentIds /\ comments[k] \in CommentRows
    BY <1>2, <1>4, LiveRows DEF CommentsOK
  <2>2. row \in CommentRows
    BY <1>2, <1>4, <2>1, CallFields DEF UpdateCommentCalls, CommentRows
  <2>3. Atomic!HasEffect(call) /\ Atomic!Accepted(call, 200, {<<k, toAPIComment(row)>>})
    <3>1. /\ call.op \in {"CreateComment", "UpdateComment"}
          /\ IF call.op = "CreateComment"
             THEN /\ comments[k] = Fresh
                  /\ call.caller \in LiveIds(users) /\ call.post \in LiveIds(posts)
                  /\ row = [post |-> call.post, author |-> call.caller, text |-> call.text]
             ELSE /\ k \in LiveIds(comments) /\ k = call.comment
                  /\ row = [comments[k] EXCEPT !.text = call.text]
          /\ 200 = (IF call.op = "CreateComment" THEN 201 ELSE 200)
      BY <1>2, <1>4
    <3> HIDE DEF call, k
    <3> QED BY <1>1, <1>2, <1>4, <2>1, <2>2, <3>1, CommentWritten
  <2>4. Settles(c, 200, {<<k, toAPIComment(row)>>}) \/ ServerError(c)
    BY <1>4 DEF AnswerWritten, Settles
  <2> QED BY <1>2, <2>3, <2>4, Takes DEF Implemented
<1> QED BY <1>3, <1>4 DEF UpdateComment

LEMMA DeleteCommentSeen ==
    ASSUME RefinementInv, NEW c \in Clients, DeleteComment(c)
    PROVE  Implemented
<1> DEFINE call == req[c].call
<1>1. Serves(c, "DeleteComment", "main") /\ AnswerWritten(c, 204, {})
  BY DEF DeleteComment
<1>2. ReqOK /\ req[c].stage \in Open /\ call.op = "DeleteComment"
  BY <1>1, OwnStatement
<1>3. Atomic!HasEffect(call) /\ Atomic!Accepted(call, 204, {})
  BY <1>2, CommentDeleted DEF DeleteComment
<1> QED BY <1>1, <1>2, <1>3, Takes DEF AnswerWritten, Settles, Implemented

LEMMA CommentStepSeen ==
    ASSUME RefinementInv, NEW c \in Clients, CommentStep(c)
    PROVE  Implemented
<1>1. ReqOK
  BY TypeInvParts DEF RefinementInv
<1>2. CASE CountComments(c)
  BY <1>1, <1>2, CountUnseen DEF CountComments, Serves
<1> QED
  BY <1>2, ListCommentsPostSeen, ListCommentsSeen, CreateCommentSeen, UpdateCommentSeen,
     DeleteCommentSeen DEF CommentStep

-----------------------------------------------------------------------------
(* Arrivals and returns.                                                   *)

\* A request that arrives puts the record of a call in its client's place.
LEMMA ArrivalMovesTask ==
    ASSUME ReqOK, NEW c \in Clients, NEW stage, NEW call, NEW status,
           req' = [req EXCEPT ![c] = Request(stage, call, status)]
    PROVE  /\ req'[c].stage = stage /\ req'[c].call = call
           /\ req'[c].status = status /\ req'[c].rows = {}
           /\ \A d \in Clients \ {c} : req'[d] = req[d]
BY DEF ReqOK, Request

\* The arrival and the return of a request.
LEMMA RefusedArrivalSeen ==
    ASSUME ReqOK, NEW c \in Clients, req[c].stage = "idle", UNCHANGED tables,
           NEW call, NEW status, req' = [req EXCEPT ![c] = Request("done", call, status)],
           \/ call \in MalformedCalls /\ status = 400
           \/ call \in OpCalls /\ Atomic!Refusal(call, status)
    PROVE  Implemented
<1>0. /\ req'[c].stage = "done" /\ req'[c].call = call
      /\ req'[c].status = status /\ req'[c].rows = {}
      /\ \A d \in Clients \ {c} : req'[d] = req[d]
  BY ArrivalMovesTask
<1>1. Task(c)' = [phase |-> "decided", call |-> call, status |-> status, rows |-> {}]
  BY <1>0 DEF Task, Phase
<1>2. /\ Tasks' = [Tasks EXCEPT ![c] = [phase |-> "decided", call |-> call,
                                        status |-> status, rows |-> {}]]
      /\ Tasks'[c].call = call /\ Tasks'[c].status = status
  BY <1>0, <1>1, OneTaskMoves
<1>3. Tasks[c].phase = "idle"
  BY DEF Tasks, Task, Phase
<1>4. \/ Tasks'[c].call \in Atomic!MalformedCalls /\ Tasks'[c].status = 400
      \/ Tasks'[c].call \in Atomic!OpCalls /\ Atomic!Refusal(Tasks'[c].call, Tasks'[c].status)
  BY <1>2, SameCalls
<1>5. Atomic!CallRefused(c)
  BY <1>2, <1>3, <1>4 DEF Atomic!CallRefused, Atomic!tables, tables
<1> QED BY <1>5 DEF Implemented, Atomic!Next

LEMMA ReceiveSeen ==
    ASSUME ReqOK, NEW c \in Clients, Receive(c)
    PROVE  Implemented
<1>1. PICK call \in OpCalls :
         req' = [req EXCEPT ![c] = IF EarlyStatus(call) # 0
                                   THEN Request("done", call, EarlyStatus(call))
                                   ELSE Request(FirstStage(call), call, 0)]
  BY DEF Receive
<1>2. req[c].stage = "idle" /\ UNCHANGED tables
  BY DEF Receive
<1>3. CASE EarlyStatus(call) # 0
  <2>1. req' = [req EXCEPT ![c] = Request("done", call, EarlyStatus(call))]
    BY <1>1, <1>3
  <2> QED BY <1>2, <1>3, <2>1, EarlyRefusal, RefusedArrivalSeen
<1>4. CASE EarlyStatus(call) = 0
  <2>1. PICK stage, status :
           /\ stage = FirstStage(call) /\ status = 0
           /\ req' = [req EXCEPT ![c] = Request(stage, call, status)]
    BY <1>1, <1>4
  <2>2. stage \in Open
    BY <2>1 DEF FirstStage, Open
  <2>3. /\ req'[c].stage = stage /\ req'[c].call = call
        /\ req'[c].status = status /\ req'[c].rows = {}
        /\ \A d \in Clients \ {c} : req'[d] = req[d]
    BY <2>1 DEF ReqOK, Request
  <2>4. Task(c)' = [phase |-> "called", call |-> call, status |-> 0, rows |-> {}]
    BY <2>1, <2>2, <2>3 DEF Task, Phase, Open
  <2>5. /\ Tasks' = [Tasks EXCEPT ![c] = [phase |-> "called", call |-> call,
                                          status |-> 0, rows |-> {}]]
        /\ Tasks'[c].call = call
    BY <2>3, <2>4, OneTaskMoves
  <2>6. Tasks[c].phase = "idle"
    BY <1>2 DEF Tasks, Task, Phase
  <2>7. Tasks'[c].call \in Atomic!OpCalls
    BY <1>1, <2>5, SameCalls
  <2>8. Tasks' = [Tasks EXCEPT ![c] = [phase |-> "called", call |-> Tasks'[c].call,
                                       status |-> 0, rows |-> {}]]
    BY <2>5
  <2>9. Atomic!Call(c)
    BY <1>2, <2>6, <2>7, <2>8 DEF Atomic!Call, Atomic!tables, tables
  <2> QED BY <2>9 DEF Implemented, Atomic!Next
<1> QED BY <1>3, <1>4

LEMMA MalformedSeen ==
    ASSUME ReqOK, NEW c \in Clients, ReceiveMalformed(c)
    PROVE  Implemented
<1>1. PICK status : status = 400
  OBVIOUS
<1>2. PICK call : /\ call \in MalformedCalls
                  /\ req' = [req EXCEPT ![c] = Request("done", call, status)]
  BY <1>1 DEF ReceiveMalformed
<1>3. req[c].stage = "idle" /\ UNCHANGED tables
  BY DEF ReceiveMalformed
<1>4. \/ call \in MalformedCalls /\ status = 400
      \/ call \in OpCalls /\ Atomic!Refusal(call, status)
  BY <1>1, <1>2
<1>5. req' = [req EXCEPT ![c] = Request("done", call, status)]
  BY <1>2
<1> QED BY <1>3, <1>4, <1>5, RefusedArrivalSeen

LEMMA ReturnSeen ==
    ASSUME ReqOK, NEW c \in Clients, Return(c)
    PROVE  Implemented
<1>1. req' = [req EXCEPT ![c] = Request("idle", None, 0)] /\ UNCHANGED tables
  BY DEF Return, Idle
<1>2. /\ req'[c].stage = "idle" /\ req'[c].call = None
      /\ req'[c].status = 0 /\ req'[c].rows = {}
      /\ \A d \in Clients \ {c} : req'[d] = req[d]
  BY <1>1, ArrivalMovesTask
<1>3. Task(c)' = Atomic!Free
  BY <1>2 DEF Task, Phase, Atomic!Free
<1>4. Tasks' = [Tasks EXCEPT ![c] = Atomic!Free] /\ Tasks[c].phase = "decided"
  BY <1>2, <1>3, OneTaskMoves DEF Return, Tasks, Task, Phase
<1>5. Atomic!Return(c)
  BY <1>1, <1>4 DEF Atomic!Return, Atomic!tables, tables
<1> QED BY <1>5 DEF Implemented, Atomic!Next

-----------------------------------------------------------------------------
(* The theorem.                                                            *)

\* Every handler behaves as if its request took effect and was answered at one
\* moment: whatever requests run at once and whichever statements fail or lose
\* their reply, SampleApi implements AtomicApi.
THEOREM Atomicity == Spec => BehavesAtomically
<1>1. Init => Atomic!Init
  <2> SUFFICES ASSUME Init PROVE Atomic!Init
    OBVIOUS
  <2>1. \A c \in Clients : Task(c) = Atomic!Free
    BY DEF Init, Idle, Request, Task, Phase, Atomic!Free
  <2>2. Tasks = [c \in Clients |-> Atomic!Free]
    BY <2>1 DEF Tasks
  <2> QED BY <2>2 DEF Init, Atomic!Init
<1>2. RefinementInv /\ [Next]_vars => [Atomic!Next]_(Atomic!vars)
  <2> SUFFICES ASSUME RefinementInv, [Next]_vars PROVE Implemented
    BY DEF Implemented
  <2>1. ReqOK /\ OpenInv
    BY TypeInvParts DEF RefinementInv
  <2>2. ASSUME NEW c \in Clients, Handle(c) PROVE Implemented
    BY <2>1, <2>2, UserStepSeen, PostStepSeen, CommentStepSeen, FailureSeen DEF Handle
  <2>3. ASSUME NEW c \in Clients, Receive(c) \/ ReceiveMalformed(c) \/ Return(c)
        PROVE  Implemented
    BY <2>1, <2>3, ReceiveSeen, MalformedSeen, ReturnSeen
  <2>4. CASE UNCHANGED vars
    BY <2>4 DEF vars, Implemented, Atomic!vars, Tasks, Task, Phase
  <2> QED BY <2>2, <2>3, <2>4 DEF Next
<1> QED BY <1>1, <1>2, RefinementInvHolds, PTL DEF Spec, BehavesAtomically, Atomic!Spec
=============================================================================
