--------------------------- MODULE AccessControl ----------------------------
(***************************************************************************)
(* Who may call a protected endpoint: the chain of dependencies behind     *)
(* require_roles. jwt.decode and pydantic are taken by their outcome,      *)
(* which is what `token` of a credential stands for.                       *)
(*                                                                         *)
(* Code: shared/auth.py, shared/schemas/auth.py.                           *)
(***************************************************************************)
CONSTANT RoleNames  \* the names a token may carry, known or not

RoleEnum == {"admin", "analyst", "service", "readonly"}

(* "invalid": refused by jwt.decode, for its signature, audience, issuer   *)
(* or form; "untyped": decoded, but not a TokenPayload (no `sub`, say).    *)
Tokens == {"invalid", "expired", "untyped", "valid"}

Credentials ==
  [scheme : {"none", "basic", "bearer"}, token : Tokens, roles : SUBSET RoleNames]

(* Unknown role names are dropped.                                         *)
UserRoles(credentials) == credentials.roles \cap RoleEnum

(* get_current_user; a ValidationError is no PyJWTError and ends in a 500. *)
Authenticate(credentials) ==
  CASE credentials.scheme # "bearer" -> "401"
    [] credentials.token \in {"invalid", "expired"} -> "401"
    [] credentials.token = "untyped" -> "500"
    [] OTHER -> "200"

(* Mutant: a known role is taken for a required one.                       *)
AuthorizeAnyRole(credentials, required) ==
  IF Authenticate(credentials) # "200" THEN Authenticate(credentials)
  ELSE IF UserRoles(credentials) = {} THEN "403" ELSE "200"

(* The answer of require_roles(required): "200" lets the request in.       *)
Authorize(credentials, required) ==
  IF Authenticate(credentials) # "200" THEN Authenticate(credentials)
  ELSE IF required \cap UserRoles(credentials) = {} THEN "403" ELSE "200"
=============================================================================
