-------------------------- MODULE SampleApiAnswers --------------------------
(***************************************************************************)
(* The form of the answers, proved for every value of the constants: every *)
(* step of a handler answers in a form its operation declares, or goes on  *)
(* with resources that fit the call.                                       *)
(***************************************************************************)
EXTENDS SampleApiProofs

-----------------------------------------------------------------------------
(* The invariant.                                                          *)

Resource(call, status, rows) ==
    \E r : rows = {r} /\ Concerns(call, r) /\ <<status, "one">> \in Forms(call.op)

Many(call, rows) ==
    <<200, "list">> \in Forms(call.op) /\ \A r \in rows : Concerns(call, r)

Bare(call, status) ==
    <<status, "none">> \in Forms(call.op) \/ <<status, "error">> \in Forms(call.op)

\* What a request that is answered has been answered.
Answered(call, status, rows) ==
    \/ status = 500 /\ rows = {}
    \/ status = 400 /\ rows = {} /\ call \in MalformedCalls
    \/ /\ call \in OpCalls
       /\ \/ Resource(call, status, rows)
          \/ status = 200 /\ Many(call, rows)
          \/ Bare(call, status) /\ rows = {}

\* The strengthening: what a request in service has read fits its call already.
AnswerOK(r) ==
    /\ r.stage = "count" => Many(r.call, r.rows)
    /\ r.stage = "load"  => Resource(r.call, 200, r.rows)
    /\ r.stage = "done"  => Answered(r.call, r.status, r.rows)

AnswerInv == \A c \in Clients : AnswerOK(req[c])

\* What the invariant says of an answer is what the property says.
LEMMA AnsweredFits ==
    ASSUME NEW call, NEW status, NEW rows, Answered(call, status, rows)
    PROVE  \/ status = 500 /\ rows = {}
           \/ status = 400 /\ rows = {} /\ call \in MalformedCalls
           \/ call \in OpCalls /\ Fits(call, status, rows)
<1>1. ASSUME Resource(call, status, rows) PROVE Fits(call, status, rows)
  <2>1. PICK r : rows = {r} /\ Concerns(call, r) /\ <<status, "one">> \in Forms(call.op)
    BY <1>1 DEF Resource
  <2> QED BY <2>1 DEF Fits
<1>2. ASSUME status = 200, Many(call, rows) PROVE Fits(call, status, rows)
  BY <1>2 DEF Many, Fits
<1>3. ASSUME Bare(call, status), rows = {} PROVE Fits(call, status, rows)
  <2>1. {<<status, "none">>, <<status, "error">>} \cap Forms(call.op) # {}
    BY <1>3 DEF Bare
  <2> QED BY <1>3, <2>1 DEF Fits
<1> QED BY <1>1, <1>2, <1>3 DEF Answered

LEMMA AnswersFit == AnswerInv => AnswersFitTheirCalls
BY AnsweredFits, Zenon DEF AnswerInv, AnswerOK, AnswersFitTheirCalls

-----------------------------------------------------------------------------
(* The steps.                                                              *)

\* What a handler does with a request: it answers it, or goes on.
FittingStep(c) ==
    LET call == req[c].call
    IN  \/ ServerError(c)
        \/ \E status : Answer(c, status, {}) /\ Bare(call, status)
        \/ \E status, rows : Answer(c, status, rows) /\ Resource(call, status, rows)
        \/ Continue(c, "main", {})
        \/ \E rows : Continue(c, "count", rows) /\ Many(call, rows)
        \/ \E rows : Continue(c, "load", rows) /\ Resource(call, 200, rows)
        \/ \E total : AnswerList(c, total) /\ req[c].stage = "count"

\* The request of a client after an answer or another step.
LEMMA AnswerEffect ==
    ASSUME ReqOK, NEW c \in Clients, NEW status, NEW rows, Answer(c, status, rows)
    PROVE  /\ req'[c].stage = "done" /\ req'[c].status = status /\ req'[c].rows = rows
           /\ req'[c].call = req[c].call
           /\ \A d \in Clients \ {c} : req'[d] = req[d]
<1>1. req[c] \in Requests /\ req'[c] = [req[c] EXCEPT !.stage = "done", !.status = status, !.rows = rows]
  BY DEF ReqOK, Answer
<1>2. \A d \in Clients \ {c} : req'[d] = req[d]
  BY DEF ReqOK, Answer
<1> QED BY <1>1, <1>2 DEF Requests

LEMMA ContinueEffect ==
    ASSUME ReqOK, NEW c \in Clients, NEW stage, NEW rows, Continue(c, stage, rows)
    PROVE  /\ req'[c].stage = stage /\ req'[c].rows = rows /\ req'[c].call = req[c].call
           /\ \A d \in Clients \ {c} : req'[d] = req[d]
<1>1. req[c] \in Requests /\ req'[c] = [req[c] EXCEPT !.stage = stage, !.rows = rows]
  BY DEF ReqOK, Continue
<1>2. \A d \in Clients \ {c} : req'[d] = req[d]
  BY DEF ReqOK, Continue
<1> QED BY <1>1, <1>2 DEF Requests

LEMMA AnswerListEffect ==
    ASSUME ReqOK, NEW c \in Clients, NEW total, AnswerList(c, total)
    PROVE  /\ req'[c].stage = "done" /\ req'[c].status = 200
           /\ req'[c].call = req[c].call /\ req'[c].rows = req[c].rows
           /\ \A d \in Clients \ {c} : req'[d] = req[d]
<1>1. req[c] \in Requests /\ req'[c] = [req[c] EXCEPT !.stage = "done", !.status = 200, !.total = total]
  BY DEF ReqOK, AnswerList
<1>2. \A d \in Clients \ {c} : req'[d] = req[d]
  BY DEF ReqOK, AnswerList
<1> QED BY <1>1, <1>2 DEF Requests

\* Such a step keeps the invariant.
LEMMA FittingStepKeepsInv ==
    ASSUME ReqOK, AnswerInv, NEW c \in Clients, req[c].stage \in Running, FittingStep(c)
    PROVE  AnswerInv'
<1>1. req[c].call \in OpCalls /\ AnswerOK(req[c])
  BY DEF ReqOK, AnswerInv
<1>2. ASSUME AnswerOK(req'[c]), \A d \in Clients \ {c} : req'[d] = req[d]
      PROVE  AnswerInv'
  BY <1>2 DEF AnswerInv
<1>3. ASSUME NEW status, NEW rows, Answer(c, status, rows), Answered(req[c].call, status, rows)
      PROVE  AnswerInv'
  BY <1>2, <1>3, AnswerEffect DEF AnswerOK
<1>4. CASE ServerError(c)
  BY <1>3, <1>4 DEF ServerError, Answered
<1>5. ASSUME NEW status, Answer(c, status, {}), Bare(req[c].call, status) PROVE AnswerInv'
  BY <1>1, <1>3, <1>5 DEF Answered
<1>6. ASSUME NEW status, NEW rows, Answer(c, status, rows), Resource(req[c].call, status, rows)
      PROVE  AnswerInv'
  BY <1>1, <1>3, <1>6 DEF Answered
<1>7. ASSUME NEW stage, NEW rows, Continue(c, stage, rows),
             \/ stage = "main"
             \/ stage = "count" /\ Many(req[c].call, rows)
             \/ stage = "load" /\ Resource(req[c].call, 200, rows)
      PROVE  AnswerInv'
  BY <1>2, <1>7, ContinueEffect DEF AnswerOK
<1>8. ASSUME NEW total, AnswerList(c, total), req[c].stage = "count" PROVE AnswerInv'
  <2>1. Answered(req[c].call, 200, req[c].rows)
    BY <1>1, <1>8 DEF AnswerOK, Answered
  <2> QED BY <1>2, <1>8, <2>1, AnswerListEffect DEF AnswerOK
<1> QED BY <1>4, <1>5, <1>6, <1>7, <1>8 DEF FittingStep

\* The forms of the operations, as the steps need them.
LEMMA UserForms ==
    /\ <<200, "one">> \in Forms("Login") /\ <<401, "error">> \in Forms("Login")
    /\ <<422, "error">> \in Forms("Login")
    /\ <<200, "list">> \in Forms("ListUsers")
    /\ <<201, "one">> \in Forms("CreateUser") /\ <<409, "error">> \in Forms("CreateUser")
    /\ <<422, "error">> \in Forms("CreateUser")
    /\ <<200, "one">> \in Forms("GetUser") /\ <<404, "error">> \in Forms("GetUser")
    /\ <<200, "one">> \in Forms("UpdateUser") /\ <<404, "error">> \in Forms("UpdateUser")
    /\ <<409, "error">> \in Forms("UpdateUser") /\ <<422, "error">> \in Forms("UpdateUser")
    /\ <<200, "one">> \in Forms("ReplaceUser") /\ <<404, "error">> \in Forms("ReplaceUser")
    /\ <<409, "error">> \in Forms("ReplaceUser") /\ <<422, "error">> \in Forms("ReplaceUser")
    /\ <<204, "none">> \in Forms("DeleteUser")
BY DEF Forms, Errors, LoginForms, ListUsersForms, CreateUserForms, GetUserForms,
       UpdateUserForms, ReplaceUserForms, DeleteUserForms

LEMMA ContentForms ==
    /\ <<200, "list">> \in Forms("ListPosts")
    /\ <<201, "one">> \in Forms("CreatePost") /\ <<401, "error">> \in Forms("CreatePost")
    /\ <<200, "one">> \in Forms("GetPost") /\ <<404, "error">> \in Forms("GetPost")
    /\ <<200, "one">> \in Forms("ReplacePost") /\ <<404, "error">> \in Forms("ReplacePost")
    /\ <<204, "none">> \in Forms("DeletePost")
    /\ <<200, "list">> \in Forms("ListComments") /\ <<404, "error">> \in Forms("ListComments")
    /\ <<201, "one">> \in Forms("CreateComment") /\ <<401, "error">> \in Forms("CreateComment")
    /\ <<200, "one">> \in Forms("UpdateComment") /\ <<404, "error">> \in Forms("UpdateComment")
    /\ <<204, "none">> \in Forms("DeleteComment")
BY DEF Forms, Errors, ListPostsForms, CreatePostForms, GetPostForms, ReplacePostForms,
       DeletePostForms, ListCommentsForms, CreateCommentForms, UpdateCommentForms,
       DeleteCommentForms

\* An answer with one resource, and one with none.
LEMMA OneResource ==
    ASSUME NEW c, NEW status, NEW r, Answer(c, status, {r}), Concerns(req[c].call, r),
           <<status, "one">> \in Forms(req[c].call.op)
    PROVE  FittingStep(c)
<1>1. Resource(req[c].call, status, {r})
  BY DEF Resource
<1> QED BY <1>1 DEF FittingStep

LEMMA OneWritten ==
    ASSUME NEW c, NEW status, NEW r, AnswerWritten(c, status, {r}), Concerns(req[c].call, r),
           <<status, "one">> \in Forms(req[c].call.op)
    PROVE  FittingStep(c)
BY OneResource DEF AnswerWritten, FittingStep

LEMMA NoResource ==
    ASSUME NEW c, NEW status, Answer(c, status, {}) \/ AnswerWritten(c, status, {}),
           Bare(req[c].call, status)
    PROVE  FittingStep(c)
BY DEF AnswerWritten, FittingStep

\* The steps of the user handlers.
LEMMA UserStepFits ==
    ASSUME TypeInv, AnswerInv, NEW c \in Clients, UserStep(c)
    PROVE  FittingStep(c)
<1> DEFINE call == req[c].call
<1>0. /\ ReqOK /\ UsersOK
  BY TypeInvParts DEF TablesOK
<1>1. CASE Login(c)
  <2>1. call.op = "Login"
    BY <1>1 DEF Login, Serves
  <2>0. Bare(call, 401) /\ <<200, "one">> \in Forms(call.op)
    BY <2>1, UserForms DEF Bare
  <2>2. \/ Answer(c, 401, {})
        \/ \E u \in LiveIds(users) : /\ users[u].email = call.email
              /\ Answer(c, 200, {<<u, toAPIUser(users[u], users[u].role)>>})
    BY <1>1 DEF Login
  <2>3. ASSUME NEW u, users[u].email = call.email
        PROVE  Concerns(call, <<u, toAPIUser(users[u], users[u].role)>>)
    BY <2>1, <2>3 DEF Concerns, toAPIUser
  <2>4. ASSUME Answer(c, 401, {}) PROVE FittingStep(c)
    BY <2>0, <2>4, NoResource
  <2>5. ASSUME NEW u, users[u].email = call.email,
               Answer(c, 200, {<<u, toAPIUser(users[u], users[u].role)>>})
        PROVE  FittingStep(c)
    <3> DEFINE r == <<u, toAPIUser(users[u], users[u].role)>>
    <3>1. Concerns(call, r)
      BY <2>3, <2>5
    <3>2. Answer(c, 200, {r})
      BY <2>5
    <3> HIDE DEF r
    <3> QED BY <2>0, <3>1, <3>2, OneResource
  <2> QED BY <2>2, <2>4, <2>5
<1>2. CASE ListUsers(c)
  <2>1. call.op = "ListUsers"
    BY <1>2 DEF ListUsers, Serves
  <2>0. <<200, "list">> \in Forms(call.op)
    BY <2>1, UserForms
  <2>2. ServerError(c) \/ \E ids : Continue(c, "count", ViewUsers(ids))
    BY <1>2 DEF ListUsers
  <2>3. ASSUME NEW rows PROVE Many(call, rows)
    BY <2>0, <2>1 DEF Many, Concerns
  <2> QED BY <2>2, <2>3 DEF FittingStep
<1>3. CASE CountUsers(c)
  BY <1>3 DEF CountUsers, Serves, FittingStep
<1>4. CASE CreateUserRole(c) \/ ReplaceUserRole(c)
  <2>1. call.op \in {"CreateUser", "ReplaceUser"}
    BY <1>4 DEF CreateUserRole, ReplaceUserRole, LookupRole, Serves
  <2>0. Bare(call, 422)
    BY <2>1, UserForms DEF Bare
  <2>2. Answer(c, 422, {}) \/ ServerError(c) \/ Continue(c, "main", {})
    BY <1>4 DEF CreateUserRole, ReplaceUserRole, LookupRole
  <2> QED BY <2>0, <2>2, NoResource DEF FittingStep
<1>5. CASE CreateUser(c)
  <2>1. call.op = "CreateUser"
    BY <1>5 DEF CreateUser, Serves
  <2>0. Bare(call, 409) /\ <<201, "one">> \in Forms(call.op)
    BY <2>1, UserForms DEF Bare
  <2>2. \/ Answer(c, 409, {})
        \/ \E u, salt : AnswerWritten(c, 201, {<<u, toAPIUser(UserRow(call, salt), call.role)>>})
    BY <1>5 DEF CreateUser
  <2>3. ASSUME NEW u, NEW salt
        PROVE  Concerns(call, <<u, toAPIUser(UserRow(call, salt), call.role)>>)
    BY <2>1 DEF Concerns, toAPIUser, UserRow
  <2>4. ASSUME Answer(c, 409, {}) PROVE FittingStep(c)
    BY <2>0, <2>4, NoResource
  <2>5. ASSUME NEW u, NEW salt,
               AnswerWritten(c, 201, {<<u, toAPIUser(UserRow(call, salt), call.role)>>})
        PROVE  FittingStep(c)
    <3> DEFINE r == <<u, toAPIUser(UserRow(call, salt), call.role)>>
    <3>1. Concerns(call, r) /\ AnswerWritten(c, 201, {r})
      BY <2>3, <2>5
    <3> HIDE DEF r
    <3> QED BY <2>0, <3>1, OneWritten
  <2> QED BY <2>2, <2>4, <2>5
<1>6. CASE GetUser(c)
  <2>1. call.op = "GetUser"
    BY <1>6 DEF GetUser, Serves
  <2>0. Bare(call, 404) /\ <<200, "one">> \in Forms(call.op)
    BY <2>1, UserForms DEF Bare
  <2> DEFINE r == <<call.user, toAPIUser(users[call.user], users[call.user].role)>>
  <2>2. ViewUsers({call.user}) = {r} /\ Concerns(call, r)
    BY <2>1 DEF ViewUsers, Concerns
  <2>3. Answer(c, 404, {}) \/ Answer(c, 200, {r})
    BY <1>6, <2>2 DEF GetUser
  <2> HIDE DEF r
  <2>4. ASSUME Answer(c, 404, {}) PROVE FittingStep(c)
    BY <2>0, <2>4, NoResource
  <2>5. ASSUME Answer(c, 200, {r}) PROVE FittingStep(c)
    BY <2>0, <2>2, <2>5, OneResource
  <2> QED BY <2>3, <2>4, <2>5
<1>7. CASE UpdateUserRole(c)
  <2>1. call.op = "UpdateUser"
    BY <1>7 DEF UpdateUserRole, Serves
  <2>0. Bare(call, 404) /\ Bare(call, 409) /\ Bare(call, 422) /\ <<200, "one">> \in Forms(call.op)
    BY <2>1, UserForms DEF Bare
  <2>2. Answer(c, 422, {}) \/ Continue(c, "main", {})
    BY <1>7 DEF UpdateUserRole
  <2> QED BY <2>0, <2>2, NoResource DEF FittingStep
<1>8. CASE UpdateUser(c)
  <2>1. call.op = "UpdateUser"
    BY <1>8 DEF UpdateUser, Serves
  <2>0. Bare(call, 404) /\ Bare(call, 409) /\ Bare(call, 422) /\ <<200, "one">> \in Forms(call.op)
    BY <2>1, UserForms DEF Bare
  <2> DEFINE row(salt) == UpdatedRow(call, users[call.user], salt)
             seen(salt) == <<call.user, toAPIUser(row(salt), row(salt).role)>>
  <2>2. \/ Answer(c, 404, {}) \/ Answer(c, 409, {}) \/ ServerError(c)
        \/ \E salt : Continue(c, "load", {seen(salt)})
    BY <1>8, ZenonT(40) DEF UpdateUser
  <2>3. ASSUME NEW salt PROVE Resource(call, 200, {seen(salt)})
    <3>1. call.email \in {None, seen(salt)[2].email}
      BY DEF toAPIUser, UpdatedRow, Coalesce
    <3> DEFINE r == seen(salt)
    <3>2. r[1] = call.user /\ call.email \in {None, r[2].email}
      BY <3>1
    <3> HIDE DEF r
    <3>3. Concerns(call, r)
      BY <2>1, <3>2 DEF Concerns
    <3>4. Resource(call, 200, {r})
      BY <2>0, <3>3 DEF Resource
    <3> QED BY <3>4 DEF r
  <2> HIDE DEF seen
  <2>4. Answer(c, 404, {}) \/ Answer(c, 409, {}) => FittingStep(c)
    BY <2>0, NoResource
  <2>5. ASSUME NEW salt, Continue(c, "load", {seen(salt)}) PROVE FittingStep(c)
    BY <2>3, <2>5 DEF FittingStep
  <2>6. ServerError(c) => FittingStep(c)
    BY DEF FittingStep
  <2> QED BY <2>2, <2>4, <2>5, <2>6
<1>9. CASE UpdateUserLoad(c)
  <2>1. call.op = "UpdateUser" /\ Resource(call, 200, req[c].rows)
    BY <1>9 DEF UpdateUserLoad, Serves, AnswerInv, AnswerOK
  <2>0. Bare(call, 404) /\ Bare(call, 409) /\ Bare(call, 422) /\ <<200, "one">> \in Forms(call.op)
    BY <2>1, UserForms DEF Bare
  <2>2. PICK r : req[c].rows = {r} /\ Concerns(call, r)
    BY <2>1 DEF Resource
  <2> DEFINE bare == <<r[1], toAPIUser(r[2], None)>>
  <2>3. {<<q[1], toAPIUser(q[2], None)>> : q \in req[c].rows} = {bare}
    BY <2>2
  <2>4. Concerns(call, bare)
    BY <2>1, <2>2 DEF Concerns, toAPIUser
  <2>5. Answer(c, 200, {r}) \/ Answer(c, 200, {bare})
    BY <1>9, <2>2, <2>3 DEF UpdateUserLoad
  <2> HIDE DEF bare
  <2> QED BY <2>0, <2>2, <2>4, <2>5, OneResource
<1>10. CASE ReplaceUser(c)
  <2>1. call.op = "ReplaceUser"
    BY <1>10 DEF ReplaceUser, Serves
  <2>0. Bare(call, 404) /\ Bare(call, 409) /\ Bare(call, 422) /\ <<200, "one">> \in Forms(call.op)
    BY <2>1, UserForms DEF Bare
  <2>2. \/ Answer(c, 404, {}) \/ Answer(c, 409, {})
        \/ \E salt : AnswerWritten(c, 200, {<<call.user, toAPIUser(UserRow(call, salt), call.role)>>})
    BY <1>10, ZenonT(40) DEF ReplaceUser
  <2>3. ASSUME NEW salt
        PROVE  Concerns(call, <<call.user, toAPIUser(UserRow(call, salt), call.role)>>)
    BY <2>1 DEF Concerns, toAPIUser, UserRow
  <2>4. Answer(c, 404, {}) \/ Answer(c, 409, {}) => FittingStep(c)
    BY <2>0, NoResource
  <2>5. ASSUME NEW salt,
               AnswerWritten(c, 200, {<<call.user, toAPIUser(UserRow(call, salt), call.role)>>})
        PROVE  FittingStep(c)
    <3> DEFINE r == <<call.user, toAPIUser(UserRow(call, salt), call.role)>>
    <3>1. Concerns(call, r) /\ AnswerWritten(c, 200, {r})
      BY <2>3, <2>5
    <3> HIDE DEF r
    <3> QED BY <2>0, <3>1, OneWritten
  <2> QED BY <2>2, <2>4, <2>5
<1>11. CASE DeleteUser(c)
  <2>1. call.op = "DeleteUser" /\ AnswerWritten(c, 204, {})
    BY <1>11 DEF DeleteUser, Serves
  <2>0. Bare(call, 204)
    BY <2>1, UserForms DEF Bare
  <2> QED BY <2>0, <2>1, NoResource
<1> QED BY <1>1, <1>2, <1>3, <1>4, <1>5, <1>6, <1>7, <1>8, <1>9, <1>10, <1>11 DEF UserStep

\* The steps of the post handlers.
LEMMA PostStepFits ==
    ASSUME NEW c \in Clients, PostStep(c)
    PROVE  FittingStep(c)
<1> DEFINE call == req[c].call
<1>1. CASE ListPosts(c)
  <2>1. call.op = "ListPosts"
    BY <1>1 DEF ListPosts, Serves
  <2>0. <<200, "list">> \in Forms(call.op)
    BY <2>1, ContentForms
  <2>2. ServerError(c) \/ \E ids \in SUBSET Selected(call.status) :
                             Continue(c, "count", ViewPosts(ids))
    BY <1>1 DEF ListPosts, Pages
  <2>3. ASSUME NEW ids \in SUBSET Selected(call.status) PROVE Many(call, ViewPosts(ids))
    <3> SUFFICES ASSUME NEW p \in ids
                 PROVE  Concerns(call, <<p, toAPIPost(posts[p], CommentCount(comments, p))>>)
      BY <2>0 DEF Many, ViewPosts
    <3>1. call.status \in {None, posts[p].status}
      BY DEF Selected
    <3> QED BY <2>1, <3>1 DEF Concerns, toAPIPost
  <2>4. ASSUME NEW ids \in SUBSET Selected(call.status), Continue(c, "count", ViewPosts(ids))
        PROVE  FittingStep(c)
    BY <2>3, <2>4 DEF FittingStep
  <2> QED BY <2>2, <2>4 DEF FittingStep
<1>2. CASE CountPosts(c)
  BY <1>2 DEF CountPosts, Serves, FittingStep
<1>3. CASE CreatePost(c)
  <2>1. call.op = "CreatePost"
    BY <1>3 DEF CreatePost, Serves
  <2>0. <<201, "one">> \in Forms(call.op)
    BY <2>1, ContentForms
  <2> DEFINE seen(p, suffix) == <<p, toAPIPost(PostRow(call.caller, call, suffix), 0)>>
  <2>2. ServerError(c) \/ \E p, suffix : AnswerWritten(c, 201, {seen(p, suffix)})
    BY <1>3 DEF CreatePost
  <2>3. ASSUME NEW p, NEW suffix PROVE Concerns(call, seen(p, suffix))
    BY <2>1 DEF Concerns, toAPIPost, PostRow
  <2> HIDE DEF seen
  <2>4. ASSUME NEW p, NEW suffix, AnswerWritten(c, 201, {seen(p, suffix)}) PROVE FittingStep(c)
    BY <2>0, <2>3, <2>4, OneWritten
  <2> QED BY <2>2, <2>4 DEF FittingStep
<1>4. CASE GetPost(c)
  <2>1. call.op = "GetPost"
    BY <1>4 DEF GetPost, Serves
  <2>0. Bare(call, 404) /\ <<200, "one">> \in Forms(call.op)
    BY <2>1, ContentForms DEF Bare
  <2> DEFINE r == <<call.post, toAPIPost(posts[call.post], CommentCount(comments, call.post))>>
  <2>2. ViewPosts({call.post}) = {r} /\ Concerns(call, r)
    BY <2>1 DEF ViewPosts, Concerns
  <2>3. Answer(c, 404, {}) \/ Answer(c, 200, {r})
    BY <1>4, <2>2 DEF GetPost
  <2> HIDE DEF r
  <2>5. ASSUME Answer(c, 200, {r}) PROVE FittingStep(c)
    BY <2>0, <2>2, <2>5, OneResource
  <2> QED BY <2>0, <2>3, <2>5, NoResource
<1>5. CASE ReplacePost(c)
  <2>1. call.op = "ReplacePost"
    BY <1>5 DEF ReplacePost, Serves
  <2>0. Bare(call, 404) /\ <<200, "one">> \in Forms(call.op)
    BY <2>1, ContentForms DEF Bare
  <2> DEFINE seen(row) == <<call.post, toAPIPost(row, 0)>>
  <2>2. \/ ServerError(c) \/ Answer(c, 404, {})
        \/ \E row : AnswerWritten(c, 200, {seen(row)})
    BY <1>5 DEF ReplacePost
  <2>3. ASSUME NEW row PROVE Concerns(call, seen(row))
    BY <2>1 DEF Concerns
  <2> HIDE DEF seen
  <2>5. ASSUME NEW row, AnswerWritten(c, 200, {seen(row)}) PROVE FittingStep(c)
    BY <2>0, <2>3, <2>5, OneWritten
  <2>6. Answer(c, 404, {}) => FittingStep(c)
    BY <2>0, NoResource
  <2>7. ServerError(c) => FittingStep(c)
    BY DEF FittingStep
  <2> QED BY <2>2, <2>5, <2>6, <2>7
<1>6. CASE DeletePost(c)
  <2>1. call.op = "DeletePost" /\ AnswerWritten(c, 204, {})
    BY <1>6 DEF DeletePost, Serves
  <2>0. Bare(call, 204)
    BY <2>1, ContentForms DEF Bare
  <2> QED BY <2>0, <2>1, NoResource
<1> QED BY <1>1, <1>2, <1>3, <1>4, <1>5, <1>6 DEF PostStep

\* The steps of the comment handlers.
LEMMA CommentStepFits ==
    ASSUME NEW c \in Clients, CommentStep(c)
    PROVE  FittingStep(c)
<1> DEFINE call == req[c].call
<1>1. CASE ListCommentsPost(c)
  <2>1. call.op = "ListComments"
    BY <1>1 DEF ListCommentsPost, Serves
  <2>0. Bare(call, 404) /\ <<200, "list">> \in Forms(call.op)
    BY <2>1, ContentForms DEF Bare
  <2>2. Answer(c, 404, {}) \/ Continue(c, "main", {})
    BY <1>1 DEF ListCommentsPost
  <2> QED BY <2>0, <2>2, NoResource DEF FittingStep
<1>2. CASE ListComments(c)
  <2>1. call.op = "ListComments"
    BY <1>2 DEF ListComments, Serves
  <2>0. Bare(call, 404) /\ <<200, "list">> \in Forms(call.op)
    BY <2>1, ContentForms DEF Bare
  <2> DEFINE seen(ids) == {<<k, toAPIComment(comments[k])>> : k \in ids}
  <2>2. ServerError(c) \/ \E ids \in SUBSET CommentsOn(comments, {call.post}) :
                             Continue(c, "count", seen(ids))
    BY <1>2 DEF ListComments, Pages
  <2>3. ASSUME NEW ids \in SUBSET CommentsOn(comments, {call.post}) PROVE Many(call, seen(ids))
    <3> SUFFICES ASSUME NEW k \in ids PROVE Concerns(call, <<k, toAPIComment(comments[k])>>)
      BY <2>0 DEF Many
    <3>1. comments[k].post = call.post
      BY DEF CommentsOn
    <3> QED BY <2>1, <3>1 DEF Concerns, toAPIComment
  <2> HIDE DEF seen
  <2>4. ASSUME NEW ids \in SUBSET CommentsOn(comments, {call.post}),
               Continue(c, "count", seen(ids))
        PROVE  FittingStep(c)
    BY <2>3, <2>4 DEF FittingStep
  <2> QED BY <2>2, <2>4 DEF FittingStep
<1>3. CASE CountComments(c)
  BY <1>3 DEF CountComments, Serves, FittingStep
<1>4. CASE CreateComment(c)
  <2>1. call.op = "CreateComment"
    BY <1>4 DEF CreateComment, Serves
  <2>0. <<201, "one">> \in Forms(call.op)
    BY <2>1, ContentForms
  <2> DEFINE row == [post |-> call.post, author |-> call.caller, text |-> call.text]
             seen(k) == <<k, toAPIComment(row)>>
  <2>2. ServerError(c) \/ \E k : AnswerWritten(c, 201, {seen(k)})
    BY <1>4, ZenonT(40) DEF CreateComment
  <2>3. ASSUME NEW k PROVE Concerns(call, seen(k))
    BY <2>1 DEF Concerns, toAPIComment
  <2> HIDE DEF seen
  <2>4. ASSUME NEW k, AnswerWritten(c, 201, {seen(k)}) PROVE FittingStep(c)
    BY <2>0, <2>3, <2>4, OneWritten
  <2> QED BY <2>2, <2>4 DEF FittingStep
<1>5. CASE UpdateComment(c)
  <2>1. call.op = "UpdateComment"
    BY <1>5 DEF UpdateComment, Serves
  <2>0. Bare(call, 404) /\ <<200, "one">> \in Forms(call.op)
    BY <2>1, ContentForms DEF Bare
  <2> DEFINE seen(row) == <<call.comment, toAPIComment(row)>>
  <2>2. Answer(c, 404, {}) \/ \E row : AnswerWritten(c, 200, {seen(row)})
    BY <1>5 DEF UpdateComment
  <2>3. ASSUME NEW row PROVE Concerns(call, seen(row))
    BY <2>1 DEF Concerns
  <2> HIDE DEF seen
  <2>5. ASSUME NEW row, AnswerWritten(c, 200, {seen(row)}) PROVE FittingStep(c)
    BY <2>0, <2>3, <2>5, OneWritten
  <2> QED BY <2>0, <2>2, <2>5, NoResource
<1>6. CASE DeleteComment(c)
  <2>1. call.op = "DeleteComment" /\ AnswerWritten(c, 204, {})
    BY <1>6 DEF DeleteComment, Serves
  <2>0. Bare(call, 204)
    BY <2>1, ContentForms DEF Bare
  <2> QED BY <2>0, <2>1, NoResource
<1> QED BY <1>1, <1>2, <1>3, <1>4, <1>5, <1>6 DEF CommentStep

\* Whatever a handler does, it does in one of the fitting ways.
LEMMA HandledFits ==
    ASSUME TypeInv, AnswerInv, NEW c \in Clients, Handle(c)
    PROVE  FittingStep(c)
BY UserStepFits, PostStepFits, CommentStepFits DEF Handle, StatementFails, FittingStep

\* Only a request in service is handled.
LEMMA HandledIsRunning ==
    ASSUME NEW c \in Clients, Handle(c)
    PROVE  req[c].stage \in Running
<1>1. CASE UserStep(c)
  BY <1>1 DEF UserStep, Login, ListUsers, CountUsers, CreateUserRole, CreateUser, GetUser,
              UpdateUserRole, UpdateUser, UpdateUserLoad, ReplaceUserRole, ReplaceUser,
              DeleteUser, LookupRole, Serves, Running
<1>2. CASE PostStep(c)
  BY <1>2 DEF PostStep, ListPosts, CountPosts, CreatePost, GetPost, ReplacePost, DeletePost,
              Serves, Running
<1>3. CASE CommentStep(c)
  BY <1>3 DEF CommentStep, ListCommentsPost, ListComments, CountComments, CreateComment,
              UpdateComment, DeleteComment, Serves, Running
<1>4. CASE StatementFails(c)
  BY <1>4 DEF StatementFails
<1> QED BY <1>1, <1>2, <1>3, <1>4 DEF Handle

\* A call that is answered on arrival is answered in a form of its operation.
LEMMA EarlyAnswers ==
    ASSUME NEW call \in OpCalls, EarlyStatus(call) # 0
    PROVE  Answered(call, EarlyStatus(call), {})
<1>1. CASE call.op \in {"Login", "CreateUser", "ReplaceUser"} /\ call.password = None
  <2>1. EarlyStatus(call) = 422
    BY <1>1 DEF EarlyStatus
  <2> QED BY <1>1, <2>1, UserForms DEF Answered, Bare
<1>2. CASE call.op = "UpdateUser" /\ call.password \in LongPasswords
  <2>1. EarlyStatus(call) = 500
    BY <1>2 DEF EarlyStatus
  <2> QED BY <2>1 DEF Answered
<1>3. CASE call.op \in {"CreatePost", "CreateComment"} /\ call.caller = None
  <2>1. EarlyStatus(call) = 401
    BY <1>3 DEF EarlyStatus
  <2> QED BY <1>3, <2>1, ContentForms DEF Answered, Bare
<1> QED BY <1>1, <1>2, <1>3 DEF EarlyStatus

\* The steps outside the handlers.
LEMMA EndsKeepInv ==
    ASSUME ReqOK, AnswerInv, NEW c \in Clients,
           Receive(c) \/ ReceiveMalformed(c) \/ Return(c)
    PROVE  AnswerInv'
<1>1. ASSUME NEW r, AnswerOK(r), req' = [req EXCEPT ![c] = r] PROVE AnswerInv'
  BY <1>1 DEF AnswerInv, ReqOK
<1>2. ASSUME NEW call, NEW status, Answered(call, status, {})
      PROVE  AnswerOK(Request("done", call, status))
  BY <1>2 DEF AnswerOK, Request
<1>3. CASE Receive(c)
  <2>1. PICK call \in OpCalls :
           req' = [req EXCEPT ![c] =
                IF EarlyStatus(call) # 0
                THEN Request("done", call, EarlyStatus(call))
                ELSE Request(FirstStage(call), call, 0)]
    BY <1>3 DEF Receive
  <2>2. CASE EarlyStatus(call) # 0
    BY <1>1, <1>2, <2>1, <2>2, EarlyAnswers
  <2>3. CASE EarlyStatus(call) = 0
    <3>1. FirstStage(call) \in {"role", "post", "main"}
      BY DEF FirstStage
    <3>2. AnswerOK(Request(FirstStage(call), call, 0))
      BY <3>1 DEF AnswerOK, Request
    <3> QED BY <1>1, <2>1, <2>3, <3>2
  <2> QED BY <2>2, <2>3
<1>4. CASE ReceiveMalformed(c)
  <2>1. PICK call \in MalformedCalls : req' = [req EXCEPT ![c] = Request("done", call, 400)]
    BY <1>4 DEF ReceiveMalformed
  <2> DEFINE r == Request("done", call, 400)
  <2>2. Answered(call, 400, {})
    BY DEF Answered
  <2>3. AnswerOK(r) /\ req' = [req EXCEPT ![c] = r]
    BY <1>2, <2>1, <2>2
  <2> HIDE DEF r
  <2> QED BY <1>1, <2>3
<1>5. CASE Return(c)
  <2>1. AnswerOK(Idle)
    BY DEF AnswerOK, Idle, Request
  <2> QED BY <1>1, <1>5, <2>1 DEF Return
<1> QED BY <1>3, <1>4, <1>5

\* The invariant is one.
LEMMA AnswerInit == Init => AnswerInv
BY DEF Init, AnswerInv, AnswerOK, Idle, Request

LEMMA AnswerStep == TypeInv /\ AnswerInv /\ [Next]_vars => AnswerInv'
<1> SUFFICES ASSUME TypeInv, AnswerInv, [Next]_vars PROVE AnswerInv'
  OBVIOUS
<1>0. ReqOK
  BY TypeInvParts
<1>1. CASE UNCHANGED vars
  BY <1>1 DEF vars, AnswerInv
<1>2. ASSUME NEW c \in Clients, Handle(c) PROVE AnswerInv'
  BY <1>0, <1>2, HandledFits, HandledIsRunning, FittingStepKeepsInv
<1>3. ASSUME NEW c \in Clients, Receive(c) \/ ReceiveMalformed(c) \/ Return(c)
      PROVE  AnswerInv'
  BY <1>0, <1>3, EndsKeepInv
<1> QED BY <1>1, <1>2, <1>3 DEF Next

\* Every answer has a form its operation declares, with the resources the call
\* is about, whatever other requests do between its statements.
THEOREM Answers == Spec => []AnswersFitTheirCalls
BY AnswerInit, AnswerStep, TypeInit, TypeStep, AnswersFit, PTL DEF Spec
=============================================================================
