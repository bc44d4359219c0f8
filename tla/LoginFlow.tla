------------------------------ MODULE LoginFlow ------------------------------
(***************************************************************************)
(* How a client of the gateway gets a token: the 401 of McpController, the *)
(* metadata it leads to (DiscoveryService, DiscoveryController), the login *)
(* page and the token endpoint, which AuthController serves below          *)
(* /auth/:alias and McpAuthController below /mcp/:alias, and OAuthService, *)
(* which asks the IoT cloud.  One alias, one client and its user.          *)
(*                                                                         *)
(* External: the client, its browser and the user; nginx, which rewrites   *)
(* alias.domain/x to domain/mcp/alias/x; the registry, where an alias may  *)
(* come, go or move to another project; and the cloud, which may fail at   *)
(* any request, before or after it took effect.  What a token proves is    *)
(* left out.                                                               *)
(***************************************************************************)
EXTENDS Naturals, Sequences

CONSTANTS
  Projects, NoProject, Absent,
  Texts, URLs,            \* what a field of a form may hold, what new URL() takes
  RedirectURIs, States,   \* what IsUrl and IsString of AuthorizeQueryDto let in
  AsAttribute             \* what a browser reads of a text put between value=" and "

ASSUME LoginFlowAssumption ==
  /\ NoProject \notin Projects /\ Absent \notin Texts
  /\ RedirectURIs \subseteq URLs /\ URLs \cup States \cup {"given", "undefined"} \subseteq Texts
  /\ AsAttribute \in [Texts -> Texts]
  /\ AsAttribute["given"] = "given" /\ AsAttribute["undefined"] = "undefined"

VARIABLES
  subdomains,  \* BASE_URL is a domain; otherwise localhost or an address
  entry,       \* where the client was told to connect: "base" or "sub"
  strict,      \* it compares the resource of the metadata with that
  secret,      \* it sends its secret in the body of a token request
  hinted,      \* it went by the header of the 401, or by McpAuthController
  handed,      \* the addresses of the last answer that named any
  project,     \* what the alias stands for
  at,          \* what the client does next
  url,         \* and where
  endpoints,   \* as the authorization server's metadata names them
  query,       \* its authorization request
  page,        \* the form the user sees: its action and its hidden fields
  serving,     \* the login or token request being served
  code, token, \* what the client holds: the project that issued it
  used,        \* the cloud has taken the code
  moved, lost  \* history: since the login was sent, the alias has changed,
               \* an answer of the cloud was lost or refused

setup == <<subdomains, entry, strict, secret>>
tracks == <<hinted, handed, endpoints, query>>
vars == <<setup, tracks, project, at, url, page, serving, code, token, used, moved, lost>>

(***************************************************************************)
(* URLs.                                                                   *)
(***************************************************************************)
URL(host, path) == [host |-> host, path |-> path]
base == URL("base", << >>)
Below(address, path) == URL(address.host, address.path \o path)

(* alias.domain, but localhost and addresses have no subdomains.           *)
buildSubdomainUrl == IF subdomains THEN URL("sub", << >>) ELSE base

rewritten(address) ==
  IF address.host = "sub" THEN <<"mcp", "alias">> \o address.path ELSE address.path

resourceWK == <<".well-known", "oauth-protected-resource">>
serverWK == <<".well-known", "oauth-authorization-server">>

(* The routes of the controllers; none serves the root metadata.           *)
OAuthRoutes == {<<"authorize">>, <<"login">>, <<"token">>, <<"register">>, resourceWK, serverWK}
AuthRoutes == {<<"auth", "alias">> \o route : route \in OAuthRoutes}
McpRoutes == {<<"mcp", "alias">> \o route : route \in OAuthRoutes \cup {<< >>}}
DiscoveryRoutes == {serverWK \o <<"auth", "alias">>, resourceWK \o <<"mcp", "alias">>}

Serves(routes, address) == rewritten(address) \in routes
Served(address) == Serves(AuthRoutes \cup McpRoutes \cup DiscoveryRoutes, address)

(***************************************************************************)
(* Metadata.                                                               *)
(***************************************************************************)
Resource(resource, server, others) ==
  [resource |-> resource, server |-> server, others |-> others]
Server(issuer, others) ==
  [authorize |-> Below(issuer, <<"authorize">>), token |-> Below(issuer, <<"token">>),
   register |-> Below(issuer, <<"register">>), others |-> others]

mcpURL == URL("base", <<"mcp", "alias">>)
authURL == URL("base", <<"auth", "alias">>)
documents == {URL("base", <<name>>) : name \in {"docs", "policy", "terms"}}
jwks == {URL("base", <<"auth", "alias", name>>) : name \in {"jwks", "revoke", "introspect"}}

getProtectedResourceMetadata == Resource(mcpURL, authURL, documents)
getAuthorizationServerMetadata == Server(authURL, jwks \cup documents)
getSubdomainResourceMetadata == Resource(buildSubdomainUrl, buildSubdomainUrl, {})
getSubdomainAuthServerMetadata == Server(buildSubdomainUrl, {})
getPathAwareProtectedResourceMetadata == Resource(mcpURL, authURL, {})
getPathAwareAuthServerMetadata == Server(authURL, {})

(* The client looks for metadata below an address, or puts the well-known  *)
(* part before its path.                                                   *)
WellKnown(address, wk) == {Below(address, wk), URL(address.host, wk \o address.path)}

(* What the holder of metadata may call.                                   *)
ResourceLinks(resource) ==
  {resource.resource} \cup WellKnown(resource.server, serverWK) \cup resource.others
ServerLinks(server) == {server.authorize, server.token, server.register} \cup server.others

Init ==
  /\ subdomains \in BOOLEAN /\ strict \in BOOLEAN /\ secret \in BOOLEAN
  /\ entry \in IF subdomains THEN {"base", "sub"} ELSE {"base"}
  /\ project \in Projects /\ hinted = FALSE /\ handed = {}
  /\ at = "new" /\ url = base /\ endpoints = Server(base, {})
  /\ query = << >> /\ page = << >> /\ serving = << >>
  /\ code = NoProject /\ token = NoProject /\ used = FALSE
  /\ moved = FALSE /\ lost = FALSE

Goes(place, address) == at' = place /\ url' = address
Holds == UNCHANGED <<code, token, used, moved, lost>>
Idle == serving = << >>

(***************************************************************************)
(* Discovery.                                                              *)
(***************************************************************************)
EntryURL == IF entry = "sub" THEN URL("sub", << >>) ELSE mcpURL

(* POST without a token: 401, with the place of the resource metadata in a *)
(* header.  The client follows it, looks at the well-known place, or reads *)
(* the metadata below its own address or below that of the login.          *)
hint == URL(buildSubdomainUrl.host, resourceWK)
validateAuth ==
  /\ at = "new" /\ project # NoProject /\ handed' = {hint}
  /\ \/ Goes("resource", hint) /\ hinted' = TRUE
     \/ Goes("resource", URL(EntryURL.host, resourceWK \o EntryURL.path)) /\ hinted' = FALSE
     \/ Goes("resource", Below(EntryURL, resourceWK)) /\ hinted' = TRUE
     \/ entry = "base" /\ Goes("resource", Below(authURL, resourceWK)) /\ hinted' = FALSE
  /\ UNCHANGED <<setup, endpoints, query, project, page, serving>> /\ Holds

(* The client reads the metadata of the resource, and goes on to that of   *)
(* its authorization server unless it is another resource than its own.    *)
Learn(resource) ==
  /\ at = "resource" /\ handed' = ResourceLinks(resource)
  /\ IF strict /\ resource.resource # EntryURL THEN Goes("lost", url)
     ELSE \E place \in WellKnown(resource.server, serverWK) : Goes("server", place)
  /\ UNCHANGED <<setup, hinted, endpoints, query, project, page, serving>> /\ Holds

Choose(server) ==
  /\ at = "server" /\ endpoints' = server /\ Goes("register", server.register)
  /\ handed' = ServerLinks(server)
  /\ UNCHANGED <<setup, hinted, query, project, page, serving>> /\ Holds

DiscoveryController_metadata ==
  /\ Serves(DiscoveryRoutes, url)
  /\ Learn(getPathAwareProtectedResourceMetadata) \/ Choose(getPathAwareAuthServerMetadata)

AuthController_metadata ==
  /\ Serves(AuthRoutes, url)
  /\ Learn(getProtectedResourceMetadata) \/ Choose(getAuthorizationServerMetadata)

McpAuthController_metadata ==
  /\ Serves(McpRoutes, url) /\ project # NoProject
  /\ Learn(getSubdomainResourceMetadata) \/ Choose(getSubdomainAuthServerMetadata)

(* A static client id, the same for all.                                   *)
Registered ==
  /\ at = "register" /\ Goes("authorize", endpoints.authorize)
  /\ UNCHANGED <<setup, tracks, project, page, serving>> /\ Holds
AuthController_register == Serves(AuthRoutes, url) /\ Registered
McpAuthController_register == Serves(McpRoutes, url) /\ project # NoProject /\ Registered

(***************************************************************************)
(* The login page.                                                         *)
(***************************************************************************)
Optional == {"code_challenge", "code_challenge_method", "scope", "resource"}
AuthorizeQueryDto ==
  {[f \in Optional \cup {"redirect_uri", "state"} |->
      IF f = "redirect_uri" THEN r ELSE IF f = "state" THEN s
      ELSE IF f \in given THEN "given" ELSE Absent] :
     r \in RedirectURIs, s \in States, given \in {{}, Optional}}

(* The hidden fields, as the browser reads them and sends them back: what  *)
(* they hold is put into the page as it is, so a text with a quote is cut  *)
(* there and an entity is decoded, each time the page is shown.  A missing *)
(* scope or resource is left out; the others are written as "undefined".   *)
generateLoginPage(action, params) ==
  [action |-> action,
   fields |-> [f \in DOMAIN params |->
                 IF params[f] # Absent THEN AsAttribute[params[f]]
                 ELSE IF f \in {"scope", "resource"} THEN Absent ELSE "undefined"]]

AuthForm(params) == generateLoginPage(Below(authURL, <<"login">>), params)

(* /login, at the host that has served the page.                           *)
SubdomainForm(params) == generateLoginPage(URL(url.host, <<"login">>), params)

AuthController_authorize ==
  /\ at = "authorize" /\ Serves(AuthRoutes, url) /\ project # NoProject
  /\ query' \in AuthorizeQueryDto /\ page' = AuthForm(query') /\ Goes("login", page'.action)
  /\ handed' = {page'.action}
  /\ UNCHANGED <<setup, hinted, endpoints, project, serving>> /\ Holds

McpAuthController_authorize ==
  /\ at = "authorize" /\ Serves(McpRoutes, url) /\ project # NoProject
  /\ query' \in AuthorizeQueryDto /\ page' = SubdomainForm(query') /\ Goes("login", page'.action)
  /\ handed' = {page'.action}
  /\ UNCHANGED <<setup, hinted, endpoints, project, serving>> /\ Holds

(* The form is sent, with some password.  The key of the alias is read     *)
(* once, before the cloud is asked.                                        *)
Submit(routes) ==
  /\ at = "login" /\ Idle /\ Serves(routes, url) /\ project # NoProject
  /\ serving' = [step |-> "login", key |-> project]
  /\ moved' = FALSE /\ lost' = FALSE
  /\ UNCHANGED <<setup, tracks, project, at, url, page, code, token, used>>

(* To the redirect_uri of the form, with the code and the form's state.  A *)
(* client takes the code only at its own redirect_uri and with its own     *)
(* state; otherwise the browser and the code have gone elsewhere.          *)
ComesBack ==
  \A f \in {"redirect_uri", "state"} : page.fields[f] = query[f]

Redirect(routes) ==
  /\ at = "login" /\ ~Idle /\ Serves(routes, url) /\ serving.step = "code"
  /\ page.fields["redirect_uri"] \in URLs
  /\ serving' = << >> /\ page' = << >> /\ used' = FALSE
  /\ IF ComesBack
     THEN Goes("exchange", endpoints.token) /\ code' = serving.key /\ query' = << >>
     ELSE Goes("misled", url) /\ UNCHANGED <<code, query>>
  /\ UNCHANGED <<setup, hinted, handed, endpoints, project, token, moved, lost>>

(* The page again, with the parameters of the form: after a failure of the *)
(* service, or of new URL() on the form's redirect_uri.                    *)
ShowAgain(routes, form) ==
  /\ at = "login" /\ ~Idle /\ Serves(routes, url)
  /\ \/ serving.step = "error"
     \/ serving.step = "code" /\ page.fields["redirect_uri"] \notin URLs
  /\ serving' = << >> /\ page' = form /\ Goes("login", form.action) /\ handed' = {form.action}
  /\ UNCHANGED <<setup, hinted, endpoints, query, project>> /\ Holds

AuthController_login ==
  \/ Submit(AuthRoutes) \/ Redirect(AuthRoutes)
  \/ ShowAgain(AuthRoutes, AuthForm(page.fields))

(* Mutation: after a failed login the page has the action of AuthController *)
(* below the host of the subdomain.                                        *)
LoginDropsAction ==
  \/ Submit(McpRoutes) \/ Redirect(McpRoutes)
  \/ ShowAgain(McpRoutes, generateLoginPage(Below(URL(url.host, authURL.path), <<"login">>), page.fields))

(* Mutation: the state is not among the parameters of the page shown again. *)
LoginDropsState ==
  \/ Submit(McpRoutes) \/ Redirect(McpRoutes)
  \/ ShowAgain(McpRoutes, SubdomainForm([page.fields EXCEPT !["state"] = Absent]))

(* Mutation: what the service throws is not caught.                        *)
LoginUncaught == Submit(McpRoutes) \/ Redirect(McpRoutes)

McpAuthController_login ==
  \/ Submit(McpRoutes) \/ Redirect(McpRoutes)
  \/ ShowAgain(McpRoutes, SubdomainForm(page.fields))

(***************************************************************************)
(* OAuthService and the cloud.                                             *)
(***************************************************************************)
Step(from, to) ==
  /\ ~Idle /\ serving.step = from /\ serving' = [serving EXCEPT !.step = to]
  /\ UNCHANGED <<setup, tracks, project, at, url, page, code, token, moved>>

login == Step("login", "registerAuthCode") /\ UNCHANGED <<used, lost>>
registerAuthCode == Step("registerAuthCode", "code") /\ UNCHANGED <<used, lost>>

(* Login, then the code; whatever fails, the user is told "Invalid         *)
(* credentials".                                                           *)
handleLogin ==
  \/ login \/ registerAuthCode
  \/ \E step \in {"login", "registerAuthCode"} : Step(step, "error") /\ UNCHANGED <<used, lost>>

(* A code is taken once, by the project that issued it.                    *)
exchangeAuthCode ==
  /\ Step("exchange", "answer")
  /\ code = serving.key /\ ~used /\ used' = TRUE /\ UNCHANGED lost
refreshToken == Step("refresh", "answer") /\ token = serving.key /\ UNCHANGED <<used, lost>>

(* Mutation: the exchange is asked for a second time before its answer     *)
(* is passed on.                                                           *)
exchangeCodeTwice ==
  \/ exchangeAuthCode
  \/ Step("exchange", "error") /\ (code # serving.key \/ used) /\ UNCHANGED <<used, lost>>
  \/ Step("exchange", "exchange") /\ code = serving.key /\ used' = TRUE /\ UNCHANGED lost
  \/ Step("exchange", "error") /\ used' \in {used, TRUE} /\ lost' = TRUE

exchangeCode ==
  \/ exchangeAuthCode
  \/ Step("exchange", "error") /\ (code # serving.key \/ used) /\ UNCHANGED <<used, lost>>
  \/ Step("exchange", "error") /\ used' \in {used, TRUE} /\ lost' = TRUE

OAuthService_refreshToken ==
  \/ refreshToken
  \/ Step("refresh", "error") /\ UNCHANGED <<used, lost>>

(***************************************************************************)
(* The token endpoint.                                                     *)
(***************************************************************************)
(* A client_secret is not in TokenRequestDto, and the pipe forbids what is *)
(* not: 400 before the handler, though the metadata offers that way to any *)
(* client.  (register answers that none is needed.)                        *)
Forbidden == secret /\ at \in {"exchange", "refresh"}
Refuse == IF at = "exchange" THEN Goes("refused", url) ELSE Goes("new", EntryURL)

ValidationPipe(routes) ==
  /\ Forbidden /\ Idle /\ Serves(routes, url) /\ Refuse
  /\ UNCHANGED <<setup, tracks, project, page, serving>> /\ Holds

(* Mutation: the token endpoint does not ask whether the alias is known.   *)
TokenUnresolved(routes) ==
  /\ at \in {"exchange", "refresh"} /\ Idle /\ Serves(routes, url) /\ ~Forbidden
  /\ serving' = [step |-> at, key |-> project]
  /\ UNCHANGED <<setup, tracks, project, at, url, page>> /\ Holds

TokenRequest(routes) ==
  /\ at \in {"exchange", "refresh"} /\ Idle /\ Serves(routes, url) /\ ~Forbidden
  /\ project # NoProject
  /\ serving' = [step |-> at, key |-> project]
  /\ UNCHANGED <<setup, tracks, project, at, url, page>> /\ Holds

(* Tokens; or 401, and the client begins anew.                             *)
TokenReply(routes) ==
  /\ at \in {"exchange", "refresh"} /\ ~Idle /\ Serves(routes, url)
  /\ serving' = << >>
  /\ \/ serving.step = "answer" /\ token' = serving.key /\ Goes("connect", EntryURL)
     \/ serving.step = "error" /\ UNCHANGED token /\ Refuse
  /\ UNCHANGED <<setup, tracks, project, page, code, used, moved, lost>>

AuthController_token ==
  ValidationPipe(AuthRoutes) \/ TokenRequest(AuthRoutes) \/ TokenReply(AuthRoutes)
McpAuthController_token ==
  ValidationPipe(McpRoutes) \/ TokenRequest(McpRoutes) \/ TokenReply(McpRoutes)

(***************************************************************************)
(* The client on its own, and the registry.                                *)
(***************************************************************************)
handleMcpPost ==
  /\ at = "connect" /\ project # NoProject /\ Goes("connected", url)
  /\ UNCHANGED <<setup, tracks, project, page, serving>> /\ Holds

(* 404 for an alias nobody has registered: later, from the beginning.      *)
(* AuthController asks for it only where it is needed.                     *)
resolveAlias ==
  /\ project = NoProject /\ Idle /\ ~Forbidden
  /\ \/ Serves(AuthRoutes, url) /\ at \in {"authorize", "login", "exchange", "refresh"}
     \/ Serves(McpRoutes, url) /\ at \notin {"new", "refused", "connected", "misled", "lost"}
  /\ Goes("new", EntryURL) /\ query' = << >> /\ page' = << >>
  /\ UNCHANGED <<setup, hinted, handed, endpoints, project, serving>> /\ Holds

StartAgain ==
  /\ at = "refused" /\ Goes("new", EntryURL)
  /\ UNCHANGED <<setup, tracks, project, page, serving>> /\ Holds

(* 404 of a place no controller serves.                                    *)
GetLost ==
  /\ at \notin {"new", "connected", "refused", "misled", "lost"} /\ ~Served(url) /\ Goes("lost", url)
  /\ UNCHANGED <<setup, tracks, project, page, serving>> /\ Holds

Expire ==
  /\ at = "connected" /\ Goes("refresh", endpoints.token)
  /\ UNCHANGED <<setup, tracks, project, page, serving>> /\ Holds

Move ==
  /\ \E p \in (Projects \cup {NoProject}) \ {project} : project' = p
  /\ moved' = TRUE
  /\ UNCHANGED <<setup, tracks, at, url, page, serving, code, token, used, lost>>

-----------------------------------------------------------------------------
Controllers ==
  \/ validateAuth \/ handleMcpPost \/ resolveAlias
  \/ DiscoveryController_metadata \/ AuthController_metadata \/ McpAuthController_metadata
  \/ AuthController_register \/ McpAuthController_register
  \/ AuthController_authorize \/ McpAuthController_authorize
  \/ AuthController_login \/ McpAuthController_login
  \/ AuthController_token \/ McpAuthController_token

Service == handleLogin \/ exchangeCode \/ OAuthService_refreshToken
Client == StartAgain \/ GetLost

Next == Controllers \/ Service \/ Client \/ Expire \/ Move

(* Fairness: handlers run, the client goes on and its user keeps trying;   *)
(* the cloud answers every request, and does what is asked of it now and   *)
(* then.  The registry may do as it likes.                                 *)
Spec ==
  /\ Init /\ [][Next]_vars
  /\ WF_vars(Controllers) /\ WF_vars(Service) /\ WF_vars(Client)
  /\ SF_vars(login) /\ SF_vars(registerAuthCode) /\ SF_vars(exchangeAuthCode)

-----------------------------------------------------------------------------
(* Type invariant.  A request is served only while its sender waits.       *)
TypeOK ==
  /\ at \in {"new", "resource", "server", "register", "authorize", "login", "exchange",
             "refresh", "refused", "connect", "connected", "misled", "lost"}
  /\ entry \in {"base", "sub"} /\ project \in Projects \cup {NoProject}
  /\ {code, token} \subseteq Projects \cup {NoProject}
  /\ serving # << >> => /\ at \in {"login", "exchange", "refresh"}
                        /\ serving.key \in Projects

(* The addresses the gateway hands out and nobody serves: those of keys,   *)
(* revocation, introspection and documents in the metadata of              *)
(* AuthController; and the root, where there are no subdomains to go to.   *)
Unserved ==
  jwks \cup documents \cup {base, URL("base", resourceWK), URL("base", serverWK)}

(* Of the addresses in a header, in metadata or in a form, exactly those   *)
(* are served by no controller.  None of them is needed for a login, but   *)
(* the root by a client that was not given the address of a subdomain and  *)
(* goes by the header or by McpAuthController: no other is led astray.     *)
LinksAreServed ==
  /\ \A address \in handed : Served(address) <=> address \notin Unserved
  /\ at = "lost" => entry = "base" /\ hinted

(* However often a login fails, and whichever controller shows the page, a *)
(* text that reads the same as an attribute stays what it was: a client    *)
(* whose state and redirect_uri are such texts gets its code, at its own   *)
(* redirect_uri and with its own state.  With a quote or an entity in one  *)
(* of them it may not.                                                     *)
Plain(text) == text = Absent \/ AsAttribute[text] = text

LoginKeepsTheRequest ==
  /\ at = "login" => \A f \in DOMAIN query : Plain(query[f]) =>
       page.fields[f] \in {query[f]} \cup (IF query[f] = Absent THEN {"undefined"} ELSE {})
  /\ at = "misled" => ~Plain(query["state"]) \/ ~Plain(query["redirect_uri"])

(* A client is told that its code is invalid only when the alias changed   *)
(* under the login, the cloud failed or the pipe forbids its requests: no  *)
(* code is used up by the gateway itself, or tried at a project that has   *)
(* not issued it.                                                          *)
RefusalsAreExplained == at = "refused" => moved \/ lost \/ secret

(* When the registry leaves the alias alone in the end, every client that  *)
(* sends no secret gets its connection, from wherever the failures left    *)
(* it, and again each time its token expires; unless it is led astray, or  *)
(* the page has spoilt its state or redirect_uri.                          *)
Spoilt == at = "login" /\ page.fields["redirect_uri"] \notin URLs
EveryClientConnects ==
  \A p \in Projects :
    <>[](project = p /\ ~secret) => []<>(at \in {"connected", "misled", "lost"} \/ Spoilt)
=============================================================================
