--------------------------- MODULE Authorization ---------------------------
(***************************************************************************)
(* The guards of src/libs/shared/security/authorization.decorator.ts:      *)
(* RolesGuard, PermissionsGuard and ResourceGuard, and the decorator       *)
(* @Secure that puts them on a route.  Three answers to "may this user do  *)
(* that?" from the same user object, written separately; the module is     *)
(* pure, `asked' holds the question under examination.                     *)
(*                                                                         *)
(* A permission is <<resource, action>>; "*" is the wildcard.              *)
(***************************************************************************)
EXTENDS Integers, FiniteSets

CONSTANTS Undefined, Resources, Accesses

VARIABLES asked   \* [user, required, ids]

Role == {"admin", "manager", "user", "guest"}
Permission == (Resources \X Accesses) \cup (Resources \X {"*"}) \cup {<<"*", "*">>}

\* Undefined is no id and no list of permissions.
ASSUME UndefinedAssumption ==
  /\ Undefined \notin {"caller", "another"}
  /\ \A list \in SUBSET Permission : list # Undefined

\* request.user: roles, a single role, explicit permissions if the token has any.
UserObject == [roles : SUBSET Role, role : {Undefined, "admin"}, permissions : {Undefined} \cup SUBSET Permission]

\* The userId a request carries in its body and in its path.
Ids == {Undefined, "caller", "another"}
RequestIds == [body : Ids, path : Ids]

\* What @Secure puts on a route; a part left out is Undefined, and has no guard.
Required ==
  [roles : {Undefined, {"admin"}, {"manager", "user"}},
   permissions : {Undefined} \cup {{<<r, a>>} : r \in Resources, a \in Accesses},
   resource : {Undefined} \cup [resource : Resources, access : SUBSET Accesses \ {{}},
                                condition : {Undefined, "ownerId", "admin", "user.id", "other"}]]

RolesGuard(user, roles) ==
  IF roles = Undefined THEN TRUE ELSE (user.roles \cup {user.role}) \cap roles # {}

PermissionsOf(role) ==
  CASE role = "admin" -> {<<"*", "*">>}
    [] role = "manager" -> {<<"product", "read">>, <<"product", "create">>, <<"product", "update">>,
                            <<"order", "read">>, <<"order", "update">>, <<"user", "read">>}
    [] role = "user" -> {<<"product", "read">>, <<"order", "create">>, <<"order", "read">>,
                         <<"order", "update">>}
    [] role = "guest" -> {<<"product", "read">>}

\* Mutant: the guest's permissions replace what was derived before.
DerivePermissionsLastWins(roles) ==
  IF "guest" \in roles THEN PermissionsOf("guest") ELSE UNION {PermissionsOf(r) : r \in roles}

DerivePermissionsFromRoles(roles) == UNION {PermissionsOf(r) : r \in roles}

\* Explicit permissions, even an empty list, replace the derived ones.
UserPermissions(user) ==
  IF user.permissions # Undefined THEN user.permissions
  ELSE DerivePermissionsFromRoles(user.roles)

HasPermission(permissions, p) == {<<"*", "*">>, p, <<p[1], "*">>} \cap permissions # {}

PermissionsGuard(user, permissions) ==
  IF permissions = Undefined THEN TRUE
  ELSE \A p \in permissions : HasPermission(UserPermissions(user), p)

\* ResourceGuard.hasPermission: explicit permissions only, no resource wildcard.
HasExplicitPermission(user, p) ==
  IF user.permissions = Undefined THEN FALSE
  ELSE {<<"*", "*">>, p} \cap user.permissions # {}

\* checkUserIdMatch: body.userId || params.userId is the user's.
CheckUserIdMatch(ids) == (IF ids.body # Undefined THEN ids.body ELSE ids.path) = "caller"

\* A condition on resource.ownerId looks nothing up (checkResourceOwnership returns
\* true), and one that is not recognised holds.
EvaluateCondition(condition, user, ids) ==
  CASE condition = "ownerId" -> TRUE
    [] condition = "admin" -> "admin" \in user.roles
    [] condition = "user.id" -> CheckUserIdMatch(ids)
    [] OTHER -> TRUE

CheckResourceAccess(user, resource, ids) ==
  \/ "admin" \in user.roles
  \/ /\ \A a \in resource.access : HasExplicitPermission(user, <<resource.resource, a>>)
     /\ EvaluateCondition(resource.condition, user, ids)

ResourceGuard(user, resource, ids) ==
  IF resource = Undefined THEN TRUE ELSE CheckResourceAccess(user, resource, ids)

\* @Secure: every guard that was put on the route must admit.
Secure(user, required, ids) ==
  /\ RolesGuard(user, required.roles)
  /\ PermissionsGuard(user, required.permissions)
  /\ ResourceGuard(user, required.resource, ids)

\* A request by nobody in particular, then any request.
AuthorizationInit ==
  asked = [user |-> [roles |-> {}, role |-> Undefined, permissions |-> Undefined],
           required |-> [roles |-> Undefined, permissions |-> Undefined, resource |-> Undefined],
           ids |-> [body |-> Undefined, path |-> Undefined]]

CanActivate ==
  /\ AuthorizationInit
  /\ asked' \in [user : UserObject, required : Required, ids : RequestIds]

AuthorizationSpec == AuthorizationInit /\ [][CanActivate]_asked

-----------------------------------------------------------------------------
Admitted == Secure(asked.user, asked.required, asked.ids)

\* A right never closes a route: who is admitted stays admitted with one role more,
\* and with one more permission in an explicit list, through all three guards and
\* whether permissions are derived or not.  (A first list, even an empty one, is no
\* such right: it replaces what the roles gave.)
RightsOnlyAdd ==
  Admitted =>
    /\ \A role \in Role :
         Secure([asked.user EXCEPT !.roles = @ \cup {role}], asked.required, asked.ids)
    /\ asked.user.permissions # Undefined => \A p \in Permission :
         Secure([asked.user EXCEPT !.permissions = @ \cup {p}], asked.required, asked.ids)

\* Behind a condition on user.id a non-admin reaches another's path only with the own
\* id in the body, which overrules the path, and never with another's id in the body
\* or with no id at all.
OwnIdOnly ==
  LET resource == asked.required.resource IN
  resource # Undefined =>
    (resource.condition = "user.id" /\ "admin" \notin asked.user.roles /\ Admitted =>
       /\ asked.ids.body # "another"
       /\ asked.ids.path # "caller" => asked.ids.body = "caller")

\* No role and no permission takes a right away, and a condition on the caller's own
\* id holds as far as the body's id is the one the handler acts on.
PermissionsSound == RightsOnlyAdd /\ OwnIdOnly
=============================================================================
