------------------------------- MODULE Store --------------------------------
(***************************************************************************)
(* The Postgres tables behind the sample API, as the migration             *)
(* 000001_init_schema.up.sql declares them, and the SQL statements of      *)
(* pkg/db/query.sql.go as operators: what a statement selects, when a      *)
(* constraint refuses it, and what it leaves in the tables.                *)
(*                                                                         *)
(* A table maps every id the database may ever draw to its row, to Fresh   *)
(* (never drawn yet) or to Gone (its row was deleted): gen_random_uuid     *)
(* never draws the same id twice.  The role table is filled by the         *)
(* migration and no statement of the service writes it: it is the constant *)
(* set Roles.                                                              *)
(***************************************************************************)
EXTENDS Pagination, FiniteSets

CONSTANTS
    UserIds, PostIds, CommentIds,  \* the ids the database may draw
    Emails, Texts, Titles,         \* users.email, comments.content, posts.title
    Suffixes,                      \* the 8 random hex digits slugify appends
    Passwords,                     \* the passwords clients send
    LongPasswords,                 \* those that exceed bcrypt with the salt
    Salts,                         \* what generateSalt may return
    Roles,                         \* the slugs in user_roles
    Fresh, Gone

Statuses == {"draft", "published", "archived"}
Hashes   == [password : Passwords, salt : Salts]
Slugs    == [base : Titles, suffix : Suffixes]

UserRows    == [email : Emails, hash : Hashes, salt : Salts, role : Roles]
PostRows    == [author : UserIds, title : Titles, slug : Slugs, status : Statuses]
CommentRows == [post : PostIds, author : UserIds, text : Texts]

ASSUME StoreAssumption ==
    /\ LongPasswords \subseteq Passwords
    /\ Fresh # Gone
    /\ {Fresh, Gone} \cap (UserRows \cup PostRows \cup CommentRows) = {}
    /\ IsFiniteSet(UserIds) /\ IsFiniteSet(PostIds) /\ IsFiniteSet(CommentIds)
    /\ None \notin UserIds \cup PostIds \cup Emails \cup Passwords \cup Roles \cup Statuses

-----------------------------------------------------------------------------
(* Rows and ids.                                                           *)

LiveIds(table)  == {i \in DOMAIN table : table[i] \notin {Fresh, Gone}}
FreshIds(table) == {i \in DOMAIN table : table[i] = Fresh}
Drawn(table)    == {i \in DOMAIN table : table[i] # Fresh}

\* COALESCE(arg, column) of the partial UPDATE.
Coalesce(arg, column) == IF arg = None THEN column ELSE arg

\* bcrypt of password || salt, as CreateUser and the updates store it.
HashOf(password, salt) == [password |-> password, salt |-> salt]

-----------------------------------------------------------------------------
(* The constraints.                                                        *)

\* MUTANT of EmailTaken: an address is looked for on INSERT only.
EmailTakenOnInsert(users, email, id) ==
    id = None /\ \E u \in LiveIds(users) : users[u].email = email

\* users.email UNIQUE: a row other than id's already holds the address.
EmailTaken(users, email, id) ==
    \E u \in LiveIds(users) \ {id} : users[u].email = email

\* MUTANT of SlugTaken: no unique constraint on an UPDATE.
SlugTakenOnInsert(posts, slug, id) ==
    id = None /\ \E p \in LiveIds(posts) : posts[p].slug = slug

\* posts.slug UNIQUE: a row other than id's already holds the slug.
SlugTaken(posts, slug, id) ==
    \E p \in LiveIds(posts) \ {id} : posts[p].slug = slug

-----------------------------------------------------------------------------
(* The deletions, with the rows ON DELETE CASCADE takes along.             *)

\* The table without the ids a deletion reaches; absent ids are no error.
Without(table, ids) ==
    [i \in DOMAIN table |-> IF i \in ids \cap LiveIds(table) THEN Gone ELSE table[i]]

PostsOf(posts, author) == {p \in LiveIds(posts) : posts[p].author = author}

CommentsOn(comments, onPosts) ==
    {k \in LiveIds(comments) : comments[k].post \in onPosts}

CommentsBy(comments, author) ==
    {k \in LiveIds(comments) : comments[k].author = author}

-----------------------------------------------------------------------------
(* The selections.                                                         *)

\* The ids a LIMIT/OFFSET page of a selection may hold.  created_at, the sort
\* key, may tie, so that any part of the selection of the right size is a page.
Pages(ids, window) ==
    LET n    == Cardinality(ids)
        left == IF window.offset < n THEN n - window.offset ELSE 0
        size == IF left < window.limit THEN left ELSE window.limit
    IN  {page \in SUBSET ids : Cardinality(page) = size}
=============================================================================
