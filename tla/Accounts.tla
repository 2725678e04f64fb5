------------------------------ MODULE Accounts ------------------------------
(***************************************************************************)
(* Users, upload jobs and logins together, as the API runs them: all       *)
(* requests share the users collection, a registration ends in a login, a  *)
(* user is removed or cancelled while logged in or while an upload runs.   *)
(***************************************************************************)
EXTENDS BulkUpload, AuthSessions

vars == <<users, reqs, load, jobVars, authVars>>

Init == UsersInit /\ UploadInit /\ AuthInit

Next ==
  \/ UsersNext /\ UNCHANGED <<jobVars, authVars>>
  \/ UploadNext /\ UNCHANGED authVars
  \/ AuthNext /\ UNCHANGED jobVars

Spec == Init /\ [][Next]_vars

TypeOK ==
  /\ users \in [Users -> User]
  /\ reqs \in [Requests -> Request]
  /\ load \in 0..MaxLoad
  /\ UploadTypeOK
  /\ AuthTypeOK
=============================================================================
