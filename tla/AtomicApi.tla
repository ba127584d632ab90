----------------------------- MODULE AtomicApi ------------------------------
(***************************************************************************)
(* What the sample API promises its clients: every request takes effect,   *)
(* and its answer is decided, at one moment between the call and the       *)
(* return, and an answer other than 500 is right for the tables as they    *)
(* are at that moment.  SampleApi, whose handlers take several statements, *)
(* implements this specification.                                          *)
(*                                                                         *)
(* A 500 says nothing: the request may have had its effect.  What the code *)
(* does not promise is weaker here: a list's total is not part of the      *)
(* answer, a list of comments may be that of a post deleted meanwhile, and *)
(* UpdateUser may answer without the role.                                 *)
(***************************************************************************)
EXTENDS Calls

CONSTANT Seed

VARIABLES users, posts, comments, task

tables == <<users, posts, comments>>
vars   == <<users, posts, comments, task>>

\* A client's task is idle, called or decided.
Free == [phase |-> "idle", call |-> None, status |-> 0, rows |-> {}]

Init ==
    /\ users = [u \in UserIds |-> IF u \in DOMAIN Seed THEN Seed[u] ELSE Fresh]
    /\ posts = [p \in PostIds |-> Fresh]
    /\ comments = [k \in CommentIds |-> Fresh]
    /\ task = [c \in Clients |-> Free]

-----------------------------------------------------------------------------
(* Refusals: which statuses a call may be refused with, and when.          *)

Refusal(call, status) ==
    \/ status = 500
    \/ /\ status = 422
       /\ \/ "password" \in DOMAIN call /\ call.password = None
          \/ "role" \in DOMAIN call /\ call.role \notin Optional(Roles)
    \/ /\ status = 401
       /\ \/ "caller" \in DOMAIN call /\ call.caller = None
          \/ /\ call.op = "Login"
             /\ \A u \in LiveIds(users) :
                   users[u].email = call.email => users[u].hash.password # call.password
    \/ /\ status = 404
       /\ CASE call.op \in {"GetUser", "UpdateUser", "ReplaceUser"} ->
                   call.user \notin LiveIds(users)
            [] call.op \in {"GetPost", "ReplacePost", "ListComments"} ->
                   call.post \notin LiveIds(posts)
            [] call.op = "UpdateComment" -> call.comment \notin LiveIds(comments)
            [] OTHER -> FALSE
    \/ /\ status = 409
       /\ CASE call.op = "CreateUser" -> EmailTaken(users, call.email, None)
            [] call.op \in {"UpdateUser", "ReplaceUser"} ->
                   EmailTaken(users, call.email, call.user)
            [] OTHER -> FALSE

-----------------------------------------------------------------------------
(* Acceptances: the answer's rows and the tables after it.                 *)

UserView(u) == <<u, toAPIUser(users[u], users[u].role)>>
PostView(p) == <<p, toAPIPost(posts[p], CommentCount(comments, p))>>

\* The page asked for of a selection of ids.
PageAsked(call, ids, shown) ==
    LET window == Paginate(call.page, call.per_page)
    IN  window.offset >= 0 /\ shown \in Pages(ids, window)

\* rows answer a call that only reads.
Shows(call, rows) ==
    CASE call.op = "Login" ->
            \E u \in LiveIds(users) :
               /\ rows = {UserView(u)}
               /\ users[u].email = call.email
               /\ users[u].hash.password = call.password
      [] call.op = "GetUser" -> call.user \in LiveIds(users) /\ rows = {UserView(call.user)}
      [] call.op = "GetPost" -> call.post \in LiveIds(posts) /\ rows = {PostView(call.post)}
      [] call.op = "ListUsers" ->
            \E ids \in SUBSET LiveIds(users) :
               PageAsked(call, LiveIds(users), ids) /\ rows = {UserView(u) : u \in ids}
      [] call.op = "ListPosts" ->
            LET wanted == {p \in LiveIds(posts) : call.status \in {None, posts[p].status}}
            IN  \E ids \in SUBSET wanted :
                   PageAsked(call, wanted, ids) /\ rows = {PostView(p) : p \in ids}
      [] call.op = "ListComments" ->
            LET onPost == CommentsOn(comments, {call.post})
            IN  \E ids \in SUBSET onPost :
                   PageAsked(call, onPost, ids) /\ rows = {<<k, comments[k]>> : k \in ids}
      [] OTHER -> FALSE

\* No row but i's changes, and i's is there afterwards.
ChangesOnly(table, after, i) ==
    /\ i \in LiveIds(after)
    /\ \A j \in DOMAIN table \ {i} : after[j] = table[j]

\* User u ends up with what the call asks for and keeps what it leaves out.
WritesUser(call, u) ==
    LET before == users[u]
        after  == users'[u]
    IN  /\ call.op \in {"CreateUser", "ReplaceUser", "UpdateUser"}
        /\ ChangesOnly(users, users', u)
        /\ IF call.op = "CreateUser" THEN before = Fresh
                                     ELSE u \in LiveIds(users) \cap {call.user}
        /\ call.op # "UpdateUser" => call.password # None
        /\ call.role \in Optional(Roles)
        /\ after.email = Coalesce(call.email, before.email)
        /\ after.role = Coalesce(call.role, before.role)
        /\ IF call.password = None
           THEN after.hash = before.hash /\ after.salt = before.salt
           ELSE after.hash = HashOf(call.password, after.salt)
        /\ ~EmailTaken(users, after.email, u)
        /\ UNCHANGED <<posts, comments>>

WritesPost(call, p) ==
    LET before == posts[p]
        after  == posts'[p]
    IN  /\ call.op \in {"CreatePost", "ReplacePost"}
        /\ ChangesOnly(posts, posts', p)
        /\ IF call.op = "CreatePost"
           THEN before = Fresh /\ call.caller \in LiveIds(users) /\ after.author = call.caller
           ELSE p \in LiveIds(posts) \cap {call.post} /\ after.author = before.author
        /\ after.title = call.title /\ after.slug.base = call.title
        /\ after.status = Coalesce(call.status, "draft") /\ after.status \in Statuses
        /\ ~SlugTaken(posts, after.slug, p)
        /\ UNCHANGED <<users, comments>>

WritesComment(call, k) ==
    LET before == comments[k]
        after  == comments'[k]
    IN  /\ call.op \in {"CreateComment", "UpdateComment"}
        /\ ChangesOnly(comments, comments', k)
        /\ IF call.op = "CreateComment"
           THEN /\ before = Fresh
                /\ call.caller \in LiveIds(users) /\ call.post \in LiveIds(posts)
                /\ after = [post |-> call.post, author |-> call.caller, text |-> call.text]
           ELSE /\ k \in LiveIds(comments) \cap {call.comment}
                /\ after = [before EXCEPT !.text = call.text]
        /\ UNCHANGED <<users, posts>>

\* The rows a deletion takes: those named and those that refer to one it takes.
DoomedUsers(call) == LiveIds(users) \cap (IF call.op = "DeleteUser" THEN {call.user} ELSE {})
DoomedPosts(call) ==
    {p \in LiveIds(posts) : \/ call.op = "DeletePost" /\ p = call.post
                            \/ posts[p].author \in DoomedUsers(call)}
DoomedComments(call) ==
    {k \in LiveIds(comments) : \/ call.op = "DeleteComment" /\ k = call.comment
                               \/ comments[k].author \in DoomedUsers(call)
                               \/ comments[k].post \in DoomedPosts(call)}

\* The doomed rows are gone, every other row is as it was.
Loses(table, after, doomed) ==
    \A i \in DOMAIN table : after[i] = (IF i \in doomed THEN Gone ELSE table[i])

Deletes(call) ==
    /\ call.op \in {"DeleteUser", "DeletePost", "DeleteComment"}
    /\ Loses(users, users', DoomedUsers(call))
    /\ Loses(posts, posts', DoomedPosts(call))
    /\ Loses(comments, comments', DoomedComments(call))

\* The call has its effect, whether or not its client learns of it.
HasEffect(call) ==
    \/ \E u \in UserIds : WritesUser(call, u)
    \/ \E p \in PostIds : WritesPost(call, p)
    \/ \E k \in CommentIds : WritesComment(call, k)
    \/ Deletes(call)

Success(call) == IF call.op \in {"CreateUser", "CreatePost", "CreateComment"} THEN 201 ELSE 200

Accepted(call, status, rows) ==
    \/ status = 200 /\ Shows(call, rows) /\ UNCHANGED tables
    \/ status = 204 /\ rows = {} /\ Deletes(call)
    \/ /\ status = Success(call)
       /\ \/ \E u \in UserIds : WritesUser(call, u) /\ rows = {UserView(u)'}
          \/ \E p \in PostIds : WritesPost(call, p) /\ rows = {<<p, toAPIPost(posts'[p], 0)>>}
          \/ \E k \in CommentIds : WritesComment(call, k) /\ rows = {<<k, comments'[k]>>}

-----------------------------------------------------------------------------
(* The life of a request.                                                  *)

Call(c) ==
    /\ task[c].phase = "idle"
    /\ task'[c].call \in OpCalls
    /\ task' = [task EXCEPT ![c] = [phase |-> "called", call |-> task'[c].call,
                                    status |-> 0, rows |-> {}]]
    /\ UNCHANGED tables

\* A call answered before it is seen waiting.
CallRefused(c) ==
    LET now == task'[c]
    IN  /\ task[c].phase = "idle"
        /\ task' = [task EXCEPT ![c] = [phase |-> "decided", call |-> now.call,
                                        status |-> now.status, rows |-> {}]]
        /\ \/ now.call \in MalformedCalls /\ now.status = 400
           \/ now.call \in OpCalls /\ Refusal(now.call, now.status)
        /\ UNCHANGED tables

Decide(c) ==
    LET call == task[c].call
        now  == task'[c]
    IN  /\ task[c].phase = "called"
        /\ task' = [task EXCEPT ![c] = [phase |-> "decided", call |-> call,
                                        status |-> now.status, rows |-> now.rows]]
        /\ \/ Refusal(call, now.status) /\ now.rows = {} /\ UNCHANGED tables
           \/ Accepted(call, now.status, now.rows)
           \/ now.status = 500 /\ now.rows = {} /\ HasEffect(call)

\* The answer to a list may still give way to a 500, that to UpdateUser may
\* lose the role.
Degrade(c) ==
    LET was == task[c]
        now == task'[c]
    IN  /\ was.phase = "decided" /\ was.status = 200
        /\ \/ /\ was.call.op \in ListOps
              /\ task' = [task EXCEPT ![c] = [phase |-> "decided", call |-> was.call,
                                              status |-> 500, rows |-> {}]]
           \/ /\ was.call.op = "UpdateUser"
              /\ task' = [task EXCEPT ![c] = [was EXCEPT !.rows =
                             {<<r[1], toAPIUser(r[2], None)>> : r \in was.rows}]]
        /\ UNCHANGED tables

Return(c) ==
    /\ task[c].phase = "decided"
    /\ task' = [task EXCEPT ![c] = Free]
    /\ UNCHANGED tables

Next == \E c \in Clients : Call(c) \/ CallRefused(c) \/ Decide(c) \/ Degrade(c) \/ Return(c)

Spec == Init /\ [][Next]_vars
=============================================================================
