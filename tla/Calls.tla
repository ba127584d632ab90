------------------------------- MODULE Calls --------------------------------
(***************************************************************************)
(* The HTTP interface of the sample API (openapi/schema.yaml as oapi-      *)
(* codegen rendered it in gen.go): the calls the wrapper and the strict    *)
(* handler pass to a handler, and the resources a handler answers with.    *)
(* A call is a record of the fields its operation reads.                   *)
(***************************************************************************)
EXTENDS Store

CONSTANTS
    Clients,      \* the requests in flight: one goroutine each
    Ops,          \* the operations clients call in this instance
    RoleArgs,     \* role slugs clients send, those of no role included
    StatusArgs,   \* post statuses clients send, those of no status included
    PageArgs,     \* values of ?page
    PerPageArgs   \* values of ?per_page

\* A slug that is sent is never the absent field.
ASSUME CallsAssumption == None \notin RoleArgs

Optional(S) == S \cup {None}

LoginCalls      == [op : {"Login"}, email : Emails, password : Optional(Passwords)]
ListUsersCalls  == [op : {"ListUsers"}, page : PageArgs, per_page : PerPageArgs]
CreateUserCalls == [op : {"CreateUser"}, email : Emails,
                    password : Optional(Passwords), role : RoleArgs]
GetUserCalls    == [op : {"GetUser"}, user : UserIds]
UpdateUserCalls == [op : {"UpdateUser"}, user : UserIds, email : Optional(Emails),
                    password : Optional(Passwords), role : Optional(RoleArgs)]
ReplaceUserCalls == [op : {"ReplaceUser"}, user : UserIds, email : Emails,
                     password : Optional(Passwords), role : RoleArgs]
DeleteUserCalls == [op : {"DeleteUser"}, user : UserIds]

ListPostsCalls   == [op : {"ListPosts"}, status : Optional(StatusArgs),
                     page : PageArgs, per_page : PerPageArgs]
CreatePostCalls  == [op : {"CreatePost"}, caller : Optional(UserIds),
                     title : Titles, status : Optional(StatusArgs)]
GetPostCalls     == [op : {"GetPost"}, post : PostIds]
ReplacePostCalls == [op : {"ReplacePost"}, post : PostIds, title : Titles,
                     status : Optional(StatusArgs)]
DeletePostCalls  == [op : {"DeletePost"}, post : PostIds]

ListCommentsCalls  == [op : {"ListComments"}, post : PostIds,
                       page : PageArgs, per_page : PerPageArgs]
CreateCommentCalls == [op : {"CreateComment"}, caller : Optional(UserIds),
                       post : PostIds, text : Texts]
UpdateCommentCalls == [op : {"UpdateComment"}, post : PostIds,
                       comment : CommentIds, text : Texts]
DeleteCommentCalls == [op : {"DeleteComment"}, post : PostIds, comment : CommentIds]

UserCalls == LoginCalls \cup ListUsersCalls \cup CreateUserCalls \cup GetUserCalls
             \cup UpdateUserCalls \cup ReplaceUserCalls \cup DeleteUserCalls
PostCalls == ListPostsCalls \cup CreatePostCalls \cup GetPostCalls
             \cup ReplacePostCalls \cup DeletePostCalls
CommentCalls == ListCommentsCalls \cup CreateCommentCalls \cup UpdateCommentCalls
                \cup DeleteCommentCalls

AllCalls == UserCalls \cup PostCalls \cup CommentCalls
OpCalls  == {call \in AllCalls : call.op \in Ops}

\* A request the wrapper or the strict handler answers 400 itself, its
\* parameters or its body not decoding: the handler never sees it.
MalformedCalls == [op : Ops]

ListOps == {"ListUsers", "ListPosts", "ListComments"}

-----------------------------------------------------------------------------
(* The resources of the answers (mapping.go).                              *)

\* A role of None is a Role whose slug is the empty string.
toAPIUser(u, role) == [email |-> u.email, role |-> role]

toAPIPost(p, commentCount) ==
    [author |-> p.author, title |-> p.title, slug |-> p.slug,
     status |-> p.status, comment_count |-> commentCount]

toAPIComment(k) == [post |-> k.post, author |-> k.author, text |-> k.text]

APIUsers    == [email : Emails, role : Optional(Roles)]
APIPosts    == [author : UserIds, title : Titles, slug : Slugs,
                status : Statuses, comment_count : Nat]
APIComments == [post : PostIds, author : UserIds, text : Texts]

Resources == (UserIds \X APIUsers) \cup (PostIds \X APIPosts)
             \cup (CommentIds \X APIComments)

HttpStatuses == {200, 201, 204, 400, 401, 404, 409, 422, 500}

\* How many comments a post has: the subselect of GetPost and ListPosts.
CommentCount(comments, p) == Cardinality(CommentsOn(comments, {p}))
=============================================================================
