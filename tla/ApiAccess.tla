------------------------------ MODULE ApiAccess ------------------------------
(* Requests about realms, groups, users, roles, tickets, second factors and *)
(* resource pools, one set per stretch of the source.                        *)
EXTENDS ApiTable

\* ACL, permissions, realms and groups.
AccessRealmsAndGroups == {
    Get("Client", "ACL", <<"access", "acl">>, {}, Data),
    Put("Client", "UpdateACL", <<"access", "acl">>, {}, Nothing),
    Get("Client", "Permissions", <<"access", "permissions">>, {}, Data),
    Put("Client", "Password", <<"access", "password">>, {}, Nothing),
    Post("Client", "NewDomain", <<"access", "domains">>, {}, Nothing),
    Get("Client", "Domain", <<"access", "domains", "<realm>">>, {},
        One("Domain", ".realm" :> "<realm>", Wired, "panic")),
    Get("Client", "Domains", <<"access", "domains">>, {}, Each("Domain", FromReply, Wired)),
    Put("Domain", "Update", <<"access", "domains", ".realm">>, {".realm"}, Nothing),
    Delete("Domain", "Delete", <<"access", "domains", ".realm">>, {".realm"}, Nothing),
    Post("Domain", "Sync", <<"access", "domains", ".realm", "sync">>, {".realm"}, Nothing),
    Post("Client", "NewGroup", <<"access", "groups">>, {}, Nothing),
    Get("Client", "Group", <<"access", "groups", "<groupid>">>, {},
        One("Group", ".groupid" :> "<groupid>", Wired, "panic")),
    Get("Client", "Groups", <<"access", "groups">>, {}, Each("Group", FromReply, Wired)),
    Put("Group", "Update", <<"access", "groups", ".groupid">>, {}, Nothing),
    Delete("Group", "Delete", <<"access", "groups", ".groupid">>, {}, Nothing)}

\* Users with their tokens, and roles.
AccessUsersAndRoles == {
    Get("Client", "User", <<"access", "users", "<userid>">>, {}, One("User", ".userid" :> "<userid>", Wired, "panic")),
    Get("Client", "Users", <<"access", "users">>, {}, Each("User", FromReply, Wired)),
    Post("Client", "NewUser", <<"access", "users">>, {}, Nothing),
    Put("User", "Update", <<"access", "users", ".userid">>, {}, Nothing),
    Delete("User", "Delete", <<"access", "users", ".userid">>, {}, Nothing),
    Get("User", "GetAPITokens", <<"access", "users", ".userid", "token">>, {}, Data),
    Get("User", "APIToken", <<"access", "users", ".userid", "token", "<tokenid>">>, {}, Data),
    Post("User", "NewAPIToken", <<"access", "users", ".userid", "token", "<tokenid>">>, {}, Data),
    Put("User", "UpdateAPIToken", <<"access", "users", ".userid", "token", "<tokenid>">>, {}, Data),
    Delete("User", "DeleteAPIToken", <<"access", "users", ".userid", "token", "<tokenid>">>, {}, Nothing),
    Get("User", "GetTFA", <<"access", "users", ".userid", "tfa">>, {}, Data),
    Put("User", "UnlockTFA", <<"access", "users", ".userid", "unlock-tfa">>, {}, Nothing),
    Get("Client", "Role", <<"access", "roles", "<roleid>">>, {}, Data),
    Post("Client", "NewRole", <<"access", "roles">>, {}, Nothing),
    Get("Client", "Roles", <<"access", "roles">>, {}, Each("Role", FromReply, Wired)),
    Put("Role", "Update", <<"access", "roles", ".roleid">>, {}, Nothing),
    Delete("Role", "Delete", <<"access", "roles", ".roleid">>, {}, Nothing)}

\* The access index and the tickets checked there.
AccessIndexes == {
    Get("Client", "AccessIndex", <<"access">>, {}, Data),
    Get("Client", "OpenIDIndex", <<"access", "openid">>, {}, Data),
    Get("Client", "GetTicket", <<"access", "ticket">>, {}, Nothing),
    Post("Client", "VerifyVNCTicket", <<"access", "vncticket">>, {"<authid>", "<path>", "<vncticket>"}, Nothing)}

\* Signing in through an OpenID provider.
AccessOpenID == {
    Post("Client", "OpenIDAuthURL", <<"access", "openid", "auth-url">>, {"<realm>", "<redirecturl>"}, Data),
    Post("Client", "OpenIDLogin", <<"access", "openid", "login">>, {"<code>", "<redirecturl>", "<state>"}, Data)}

\* Second factors of a user.
AccessTFA == {
    Get("Client", "TFAUsers", <<"access", "tfa">>, {}, Data),
    Get("Client", "TFAEntries", <<"access", "tfa", "<userid>">>, {"<userid>"}, Data),
    Get("Client", "TFAEntry", <<"access", "tfa", "<userid>", "<id>">>, {"<id>", "<userid>"}, Data),
    Post("Client", "NewTFAEntry", <<"access", "tfa", "<userid>">>, {"<type>", "<userid>"}, Data),
    Put("Client", "UpdateTFAEntry", <<"access", "tfa", "<userid>", "<id>">>, {"<id>", "<userid>"}, Nothing),
    Delete("Client", "DeleteTFAEntry", <<"access", "tfa", "<userid>", "<id>">>, {"<id>", "<userid>"}, Nothing),
    Put("Client", "UnlockUserTFA", <<"access", "users", "<userid>", "unlock-tfa">>, {"<userid>"}, Nothing)}

\* Pools, by the current and by the deprecated paths.
ResourcePools == {
    Post("Client", "NewPool", <<"pools">>, {}, Nothing),
    Get("Client", "Pools", <<"pools">>, {}, Each("Pool", FromReply, Wired)),
    Get("Client", "Pool", <<"pools", "<poolid>">>, {}, Found("Pool", FromReply, Wired)),
    Put("Pool", "Update", <<"pools", ".poolid">>, {}, Nothing),
    Delete("Pool", "Delete", <<"pools", ".poolid">>, {}, Nothing),
    Get("Pool", "GetDeprecated", <<"pools", ".poolid">>, {}, One("Pool", ".poolid" :> ".poolid", Wired, "kept")),
    Put("Pool", "UpdateDeprecated", <<"pools", ".poolid">>, {}, Nothing),
    Delete("Pool", "DeleteDeprecated", <<"pools", ".poolid">>, {}, Nothing)}

\* Every access-control and pool request.
ApiAccessOps ==
    UNION {AccessRealmsAndGroups, AccessUsersAndRoles, AccessIndexes, AccessOpenID, AccessTFA, ResourcePools}
================================================================================
