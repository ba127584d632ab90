------------------------------ MODULE Responses -----------------------------
(***************************************************************************)
(* What each operation may answer, as oapi-codegen rendered the responses  *)
(* of openapi/schema.yaml in gen.go: one type for each status, whose Visit *)
(* method writes the status and a body.  A body is one resource, a list of *)
(* resources, an error or nothing.                                         *)
(***************************************************************************)
EXTENDS Naturals

Errors(statuses) == statuses \X {"error"}

LoginForms         == {<<200, "one">>}  \cup Errors({400, 401, 422})
ListPostsForms     == {<<200, "list">>} \cup Errors({400, 401})
CreatePostForms    == {<<201, "one">>}  \cup Errors({400, 401, 403, 422})
DeletePostForms    == {<<204, "none">>} \cup Errors({401, 403, 404})
GetPostForms       == {<<200, "one">>}  \cup Errors({401, 404})
ReplacePostForms   == {<<200, "one">>}  \cup Errors({400, 401, 403, 404, 422})
ListCommentsForms  == {<<200, "list">>} \cup Errors({400, 401, 404})
CreateCommentForms == {<<201, "one">>}  \cup Errors({400, 401, 404, 422})
DeleteCommentForms == {<<204, "none">>} \cup Errors({401, 403, 404})
UpdateCommentForms == {<<200, "one">>}  \cup Errors({400, 401, 403, 404, 422})
ListUsersForms     == {<<200, "list">>} \cup Errors({400, 401, 403})
CreateUserForms    == {<<201, "one">>}  \cup Errors({400, 401, 403, 409, 422})
DeleteUserForms    == {<<204, "none">>} \cup Errors({401, 403, 404})
GetUserForms       == {<<200, "one">>}  \cup Errors({401, 403, 404})
UpdateUserForms    == {<<200, "one">>}  \cup Errors({400, 401, 403, 404, 409, 422})
ReplaceUserForms   == {<<200, "one">>}  \cup Errors({400, 401, 403, 404, 409, 422})

\* The pairs of a status and a body an operation has a response type for.
Forms(op) ==
    CASE op = "Login"         -> LoginForms
      [] op = "ListPosts"     -> ListPostsForms
      [] op = "CreatePost"    -> CreatePostForms
      [] op = "DeletePost"    -> DeletePostForms
      [] op = "GetPost"       -> GetPostForms
      [] op = "ReplacePost"   -> ReplacePostForms
      [] op = "ListComments"  -> ListCommentsForms
      [] op = "CreateComment" -> CreateCommentForms
      [] op = "DeleteComment" -> DeleteCommentForms
      [] op = "UpdateComment" -> UpdateCommentForms
      [] op = "ListUsers"     -> ListUsersForms
      [] op = "CreateUser"    -> CreateUserForms
      [] op = "DeleteUser"    -> DeleteUserForms
      [] op = "GetUser"       -> GetUserForms
      [] op = "UpdateUser"    -> UpdateUserForms
      [] op = "ReplaceUser"   -> ReplaceUserForms
=============================================================================
