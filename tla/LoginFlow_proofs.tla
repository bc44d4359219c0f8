---------------------------- MODULE LoginFlow_proofs ----------------------------
(***************************************************************************)
(* Proofs about LoginFlow, for any projects, redirect_uris and states, and *)
(* any way browsers read an attribute.  A refusal is explained by what     *)
(* holds since the login was sent: as long as the alias has not changed,   *)
(* the request being served, the code and the registry name the same       *)
(* project.                                                                *)
(***************************************************************************)
EXTENDS LoginFlow, TLAPS, SequenceTheorems

(* What is being served fits what the client waits for, and was sent to an *)
(* address that is served: a client is not led astray while it waits.      *)
Serving(steps) == serving \in [step : steps, key : Projects]
ServesTheClient ==
  /\ moved \in BOOLEAN /\ lost \in BOOLEAN /\ used \in BOOLEAN
  /\ ~Idle => Served(url)
  /\ ~Idle => \/ at = "login" /\ Serving({"login", "registerAuthCode", "code", "error"})
              \/ at = "exchange" /\ Serving({"exchange", "answer", "error"})
              \/ at = "refresh" /\ Serving({"refresh", "answer", "error"})

(* The form in front of the user has the plain fields of the request.      *)
Keeps(fields, params) ==
  /\ DOMAIN fields = DOMAIN params
  /\ \A f \in DOMAIN params : Plain(params[f]) =>
       fields[f] \in {params[f]} \cup (IF params[f] = Absent THEN {"undefined"} ELSE {})
FormIsKept ==
  /\ at = "login" => query \in AuthorizeQueryDto /\ Keeps(page.fields, query)
  /\ at = "misled" => ~Plain(query["state"]) \/ ~Plain(query["redirect_uri"])

(* Unless the alias has moved or an answer was lost, the code is of the    *)
(* alias's project, and it is used up only by an exchange that succeeds.   *)
CodeIsGood ==
  /\ at = "login" /\ ~Idle /\ moved = FALSE => serving.key = project
  /\ at = "exchange" /\ moved = FALSE /\ lost = FALSE =>
       /\ code = project
       /\ Idle => used = FALSE
       /\ ~Idle => /\ serving.step # "error"
                   /\ serving.step = "exchange" => serving.key = code /\ used = FALSE
  /\ at = "refused" /\ moved = FALSE /\ ~secret => lost = TRUE

Inv == TypeOK /\ ServesTheClient /\ FormIsKept /\ CodeIsGood

(* A page keeps the plain fields of what it is made from.                  *)
LEMMA PageKeeps ==
  ASSUME NEW action, NEW params, NEW asked, Keeps(params, asked)
  PROVE  Keeps(generateLoginPage(action, params).fields, asked)
<1> DEFINE fields == generateLoginPage(action, params).fields
<1>1. /\ DOMAIN fields = DOMAIN asked
      /\ \A f \in DOMAIN asked :
           fields[f] = IF params[f] # Absent THEN AsAttribute[params[f]]
                       ELSE IF f \in {"scope", "resource"} THEN Absent ELSE "undefined"
  BY DEF Keeps, generateLoginPage
<1> HIDE DEF fields
<1>2. ASSUME NEW f \in DOMAIN asked, Plain(asked[f])
      PROVE  fields[f] \in {asked[f]} \cup (IF asked[f] = Absent THEN {"undefined"} ELSE {})
  <2>1. params[f] = asked[f] \/ (asked[f] = Absent /\ params[f] = "undefined")
    BY <1>2 DEF Keeps
  <2>2. CASE params[f] = asked[f] BY <1>1, <1>2, <2>2 DEF Plain
  <2>3. CASE asked[f] = Absent /\ params[f] = "undefined"
    <3>1. "undefined" # Absent /\ AsAttribute["undefined"] = "undefined"
      BY LoginFlowAssumption
    <3>2. fields[f] = "undefined" BY ONLY <1>1, <1>2, <2>3, <3>1
    <3> QED BY <2>3, <3>2
  <2> QED BY <2>1, <2>2, <2>3
<1> QED BY <1>1, <1>2 DEF Keeps, fields

(* A page keeps a request it is made from directly.                        *)
LEMMA FirstPageKeeps ==
  ASSUME NEW action, NEW params
  PROVE  Keeps(generateLoginPage(action, params).fields, params)
<1>1. Keeps(params, params) BY DEF Keeps
<1> QED BY <1>1, PageKeeps

(* What does not come back was not plain.                                  *)
LEMMA PlainComesBack ==
  ASSUME query \in AuthorizeQueryDto, Keeps(page.fields, query), ~ComesBack
  PROVE  ~Plain(query["state"]) \/ ~Plain(query["redirect_uri"])
<1>1. {"redirect_uri", "state"} \subseteq DOMAIN query /\ query["redirect_uri"] \in RedirectURIs
      /\ query["state"] \in States
  BY DEF AuthorizeQueryDto
<1>2. query["redirect_uri"] # Absent /\ query["state"] # Absent
  BY <1>1, LoginFlowAssumption
<1>3. PICK f \in {"redirect_uri", "state"} : page.fields[f] # query[f] BY DEF ComesBack
<1> QED BY <1>1, <1>2, <1>3 DEF Keeps

LEMMA InitInv == Init => Inv
BY DEF Init, Inv, TypeOK, ServesTheClient, FormIsKept, CodeIsGood, Idle

(* Steps of the client before it logs in and after it is done, which only  *)
(* take it from place to place.                                            *)
Wanders ==
  /\ at' \in {"new", "resource", "server", "register", "authorize", "refresh", "connect",
              "connected", "lost"}
  /\ Idle
  /\ UNCHANGED <<setup, project, serving, code, token, used, moved, lost>>

LEMMA WanderingKeepsInv == ASSUME Inv, Wanders PROVE Inv'
BY DEF Inv, TypeOK, ServesTheClient, FormIsKept, CodeIsGood, Wanders, Idle, setup

LEMMA ClientWanders ==
  ASSUME Inv,
         \/ validateAuth \/ handleMcpPost \/ resolveAlias
         \/ DiscoveryController_metadata \/ AuthController_metadata \/ McpAuthController_metadata
         \/ AuthController_register \/ McpAuthController_register
         \/ Client \/ Expire
  PROVE  Wanders
<1> USE DEF Wanders, Goes, Holds, setup, tracks, Idle, Inv, ServesTheClient
<1>1. CASE validateAuth BY <1>1 DEF validateAuth
<1>2. CASE handleMcpPost BY <1>2 DEF handleMcpPost
<1>3. CASE resolveAlias BY <1>3 DEF resolveAlias
<1>4. ASSUME NEW resource, Learn(resource) PROVE Wanders BY <1>4 DEF Learn
<1>5. ASSUME NEW server, Choose(server) PROVE Wanders BY <1>5 DEF Choose
<1>6. CASE DiscoveryController_metadata BY ONLY <1>4, <1>5, <1>6 DEF DiscoveryController_metadata
<1>7. CASE AuthController_metadata BY ONLY <1>4, <1>5, <1>7 DEF AuthController_metadata
<1>8. CASE McpAuthController_metadata BY ONLY <1>4, <1>5, <1>8 DEF McpAuthController_metadata
<1>9. CASE AuthController_register \/ McpAuthController_register
  BY <1>9 DEF AuthController_register, McpAuthController_register, Registered
<1>10. CASE Client BY <1>10 DEF Client, StartAgain, GetLost
<1>11. CASE Expire BY <1>11 DEF Expire
<1> QED BY <1>1, <1>2, <1>3, <1>6, <1>7, <1>8, <1>9, <1>10, <1>11

LEMMA AuthorizeKeepsInv ==
  ASSUME Inv, AuthController_authorize \/ McpAuthController_authorize
  PROVE  Inv'
<1>1. /\ at = "authorize" /\ at' = "login"
      /\ UNCHANGED <<setup, project, serving, code, token, used, moved, lost>>
  BY DEF AuthController_authorize, McpAuthController_authorize, Goes, Holds, setup
<1>2. Idle BY <1>1 DEF Inv, ServesTheClient
<1>3. FormIsKept'
  BY <1>1, FirstPageKeeps DEF AuthController_authorize, McpAuthController_authorize, AuthForm,
     SubdomainForm, FormIsKept
<1> QED BY <1>1, <1>2, <1>3 DEF Inv, TypeOK, ServesTheClient, CodeIsGood, Idle, setup

LEMMA SubmitKeepsInv ==
  ASSUME Inv, NEW routes \in {AuthRoutes, McpRoutes}, Submit(routes)
  PROVE  Inv'
<1>1. Served(url)' BY DEF Submit, Served, Serves, rewritten
<1> QED BY <1>1
   DEF Inv, TypeOK, ServesTheClient, FormIsKept, CodeIsGood, Submit, Idle, Serving, setup, tracks

LEMMA RedirectKeepsInv == ASSUME Inv, NEW routes, Redirect(routes) PROVE Inv'
<1>1. CASE ComesBack
  BY <1>1 DEF Inv, TypeOK, ServesTheClient, FormIsKept, CodeIsGood, Redirect, Idle, Serving, Goes,
     setup
<1>2. CASE ~ComesBack
  <2>1. FormIsKept' BY <1>2, PlainComesBack DEF Inv, FormIsKept, Redirect, Goes
  <2> QED BY <1>2, <2>1 DEF Inv, TypeOK, ServesTheClient, CodeIsGood, Redirect, Idle, Goes, setup
<1> QED BY <1>1, <1>2

LEMMA ShowAgainKeepsInv ==
  ASSUME Inv, NEW routes, NEW action, ShowAgain(routes, generateLoginPage(action, page.fields))
  PROVE  Inv'
<1>1. FormIsKept'
  BY PageKeeps DEF ShowAgain, Goes, Inv, FormIsKept
<1> QED BY <1>1 DEF Inv, TypeOK, ServesTheClient, CodeIsGood, ShowAgain, Idle, Goes, Holds, setup

LEMMA LoginKeepsInv ==
  ASSUME Inv, AuthController_login \/ McpAuthController_login
  PROVE  Inv'
BY SubmitKeepsInv, RedirectKeepsInv, ShowAgainKeepsInv
   DEF AuthController_login, McpAuthController_login, AuthForm, SubdomainForm

(* What the service does for a login leaves the code and the registry.     *)
LEMMA HandleLoginKeepsInv == ASSUME Inv, handleLogin PROVE Inv'
<1>1. PICK from \in {"login", "registerAuthCode"}, to \in {"registerAuthCode", "code", "error"} :
        Step(from, to) /\ UNCHANGED <<used, lost>>
  BY DEF handleLogin, login, registerAuthCode
<1>2. at = "login"
  BY <1>1 DEF Inv, ServesTheClient, Serving, Step
<1> QED
  BY <1>1, <1>2 DEF Inv, TypeOK, ServesTheClient, FormIsKept, CodeIsGood, Step, Idle, Serving,
     setup, tracks

LEMMA ExchangeKeepsInv == ASSUME Inv, exchangeCode PROVE Inv'
<1>1. PICK to \in {"answer", "error"} : Step("exchange", to)
  BY DEF exchangeCode, exchangeAuthCode
<1>2. at = "exchange" /\ at' = at /\ ~Idle
  BY <1>1 DEF Inv, ServesTheClient, Serving, Step
<1>3. TypeOK' /\ ServesTheClient' /\ FormIsKept'
  BY <1>1, <1>2 DEF Inv, TypeOK, ServesTheClient, FormIsKept, Step, Idle, Serving, setup, tracks,
     exchangeCode, exchangeAuthCode
<1>4. ASSUME exchangeAuthCode PROVE CodeIsGood'
  BY <1>2, <1>4 DEF Inv, ServesTheClient, CodeIsGood, Step, Idle, Serving, exchangeAuthCode
<1>5. ASSUME Step("exchange", "error"), code # serving.key \/ used, UNCHANGED <<used, lost>>
      PROVE  CodeIsGood'
  BY <1>2, <1>5 DEF Inv, ServesTheClient, CodeIsGood, Step, Idle, Serving
<1>6. ASSUME Step("exchange", "error"), lost' = TRUE PROVE CodeIsGood'
  BY <1>2, <1>6 DEF CodeIsGood
<1> QED BY <1>3, <1>4, <1>5, <1>6 DEF Inv, exchangeCode

LEMMA RefreshKeepsInv == ASSUME Inv, OAuthService_refreshToken PROVE Inv'
<1>1. PICK to \in {"answer", "error"} : Step("refresh", to) /\ UNCHANGED <<used, lost>>
  BY DEF OAuthService_refreshToken, refreshToken
<1>2. at = "refresh" BY <1>1 DEF Inv, ServesTheClient, Serving, Step
<1> QED
  BY <1>1, <1>2 DEF Inv, TypeOK, ServesTheClient, FormIsKept, CodeIsGood, Step, Idle, Serving,
     setup, tracks

LEMMA TokenKeepsInv ==
  ASSUME Inv, NEW routes \in {AuthRoutes, McpRoutes},
         ValidationPipe(routes) \/ TokenRequest(routes) \/ TokenReply(routes)
  PROVE  Inv'
<1> USE DEF Inv, TypeOK, ServesTheClient, FormIsKept, CodeIsGood, Idle, Serving, Holds, Goes,
            setup, tracks
<1>1. CASE ValidationPipe(routes)
  BY <1>1 DEF ValidationPipe, Refuse, Forbidden
<1>2. CASE TokenRequest(routes)
  <2>1. Served(url)' BY <1>2 DEF TokenRequest, Served, Serves, rewritten
  <2> QED BY <1>2, <2>1 DEF TokenRequest
<1>3. CASE TokenReply(routes)
  BY <1>3 DEF TokenReply, Refuse
<1> QED BY <1>1, <1>2, <1>3

LEMMA MoveKeepsInv == ASSUME Inv, Move PROVE Inv'
BY DEF Inv, TypeOK, ServesTheClient, FormIsKept, CodeIsGood, Move, Idle, Serving, setup, tracks

LEMMA NextKeepsInv == Inv /\ [Next]_vars => Inv'
<1> SUFFICES ASSUME Inv, [Next]_vars PROVE Inv'
  OBVIOUS
<1>1. CASE Controllers
  <2>1. CASE AuthController_token \/ McpAuthController_token
    BY <2>1, TokenKeepsInv
       DEF AuthController_token, McpAuthController_token
  <2> QED
    BY <1>1, <2>1, WanderingKeepsInv, ClientWanders, AuthorizeKeepsInv, LoginKeepsInv
       DEF Controllers
<1>2. CASE Service
  BY <1>2, HandleLoginKeepsInv, ExchangeKeepsInv, RefreshKeepsInv DEF Service
<1>3. CASE Client \/ Expire BY <1>3, WanderingKeepsInv, ClientWanders
<1>4. CASE Move BY <1>4, MoveKeepsInv
<1>5. CASE UNCHANGED vars
  BY <1>5 DEF Inv, TypeOK, ServesTheClient, FormIsKept, CodeIsGood, Idle, Serving, vars, setup,
     tracks
<1> QED BY <1>1, <1>2, <1>3, <1>4, <1>5 DEF Next

LEMMA InvHolds == Spec => []Inv
BY InitInv, NextKeepsInv, PTL DEF Spec

(* Type correctness: whatever fails and however the alias moves, a request *)
(* is served for a registered project while its sender waits.              *)
THEOREM TypeCorrect == Spec => []TypeOK
<1>1. Inv => TypeOK BY DEF Inv
<1> QED BY <1>1, InvHolds, PTL

(* However browsers read attributes, and however often either controller   *)
(* shows the page: it neither loses nor alters a field whose text reads as *)
(* itself, but for a missing challenge, and the code goes to a client with *)
(* such a state and redirect_uri only as that client asked.                *)
THEOREM RequestIsKept == Spec => []LoginKeepsTheRequest
<1>1. Inv => LoginKeepsTheRequest BY DEF Inv, FormIsKept, Keeps, LoginKeepsTheRequest
<1> QED BY <1>1, InvHolds, PTL

(* The gateway itself never spends a code or tries it at a project other   *)
(* than its own: a refusal follows a move of the alias or a lost answer,   *)
(* or a secret in the body of the request.                                 *)
THEOREM NoGratuitousRefusal == Spec => []RefusalsAreExplained
<1>1. Inv => RefusalsAreExplained
  BY DEF Inv, ServesTheClient, CodeIsGood, RefusalsAreExplained
<1> QED BY <1>1, InvHolds, PTL

-----------------------------------------------------------------------------
(***************************************************************************)
(* Where the links lead.                                                   *)
(***************************************************************************)
AuthAt(route) == URL("base", <<"auth", "alias">> \o route)
McpAt(route) == URL("base", <<"mcp", "alias">> \o route)
SubAt(route) == URL("sub", route)
serverAt == URL("base", serverWK \o <<"auth", "alias">>)
resourceAt == URL("base", resourceWK \o <<"mcp", "alias">>)
rootServer == URL("base", serverWK)
rootResource == URL("base", resourceWK)

AuthServer == Server(authURL, {})
FullServer == Server(authURL, jwks \cup documents)
SubServer == Server(URL("sub", << >>), {})

Names ==
  {"auth", "mcp", "alias", "authorize", "login", "token", "register", ".well-known",
   "oauth-protected-resource", "oauth-authorization-server"}

LEMMA RoutesAreSequences ==
  /\ \A route \in OAuthRoutes \cup {<< >>} : route \in Seq(Names)
  /\ {<<"auth", "alias">>, <<"mcp", "alias">>, resourceWK, serverWK} \subseteq Seq(Names)
BY DEF OAuthRoutes, Names, resourceWK, serverWK

(* The first name of a path tells the controllers apart.                   *)
LEMMA FirstNames ==
  /\ \A path \in AuthRoutes :
       Len(path) > 2 /\ path[1] = "auth" /\ path[3] \notin {"jwks", "revoke", "introspect"}
  /\ \A path \in McpRoutes : Len(path) > 1 /\ path[1] = "mcp"
  /\ \A path \in DiscoveryRoutes : Len(path) = 4 /\ path[1] = ".well-known"
<1>1. ASSUME NEW path \in AuthRoutes
      PROVE  Len(path) > 2 /\ path[1] = "auth" /\ path[3] \notin {"jwks", "revoke", "introspect"}
  <2>1. PICK route \in OAuthRoutes : path = <<"auth", "alias">> \o route BY DEF AuthRoutes
  <2>2. route \in Seq(Names) BY RoutesAreSequences
  <2>3. Len(route) > 0 /\ route[1] \notin {"jwks", "revoke", "introspect"}
    BY <2>1 DEF OAuthRoutes, resourceWK, serverWK
  <2>4. path[3] = route[1] /\ Len(path) = 2 + Len(route) BY <2>1, <2>2, <2>3
  <2> QED BY <2>1, <2>2, <2>3, <2>4
<1>2. ASSUME NEW path \in McpRoutes PROVE Len(path) > 1 /\ path[1] = "mcp"
  <2>1. PICK route \in OAuthRoutes \cup {<< >>} : path = <<"mcp", "alias">> \o route
    BY DEF McpRoutes
  <2>2. route \in Seq(Names) BY RoutesAreSequences
  <2> QED BY <2>1, <2>2
<1>3. ASSUME NEW path \in DiscoveryRoutes PROVE Len(path) = 4 /\ path[1] = ".well-known"
  <2>1. CASE path = serverWK \o <<"auth", "alias">> BY <2>1 DEF serverWK
  <2>2. CASE path = resourceWK \o <<"mcp", "alias">> BY <2>2 DEF resourceWK
  <2> QED BY <2>1, <2>2 DEF DiscoveryRoutes
<1> QED BY <1>1, <1>2, <1>3

LEMMA AuthLinks ==
  ASSUME NEW route \in OAuthRoutes
  PROVE  /\ Served(AuthAt(route)) /\ Serves(AuthRoutes, AuthAt(route))
         /\ ~Serves(McpRoutes, AuthAt(route)) /\ ~Serves(DiscoveryRoutes, AuthAt(route))
<1>1. rewritten(AuthAt(route)) = <<"auth", "alias">> \o route BY DEF rewritten, AuthAt, URL
<1>2. <<"auth", "alias">> \o route \in AuthRoutes BY DEF AuthRoutes
<1>3. (<<"auth", "alias">> \o route)[1] = "auth" BY <1>2, FirstNames
<1> QED BY <1>1, <1>2, <1>3, FirstNames DEF Served, Serves

LEMMA McpLinks ==
  ASSUME NEW route \in OAuthRoutes
  PROVE  /\ Served(McpAt(route)) /\ Serves(McpRoutes, McpAt(route))
         /\ ~Serves(AuthRoutes, McpAt(route)) /\ ~Serves(DiscoveryRoutes, McpAt(route))
<1>1. rewritten(McpAt(route)) = <<"mcp", "alias">> \o route BY DEF rewritten, McpAt, URL
<1>2. <<"mcp", "alias">> \o route \in McpRoutes BY DEF McpRoutes
<1>3. (<<"mcp", "alias">> \o route)[1] = "mcp" BY <1>2, FirstNames
<1> QED BY <1>1, <1>2, <1>3, FirstNames DEF Served, Serves

LEMMA SubLinks ==
  ASSUME NEW route \in OAuthRoutes
  PROVE  /\ Served(SubAt(route)) /\ Serves(McpRoutes, SubAt(route))
         /\ ~Serves(AuthRoutes, SubAt(route)) /\ ~Serves(DiscoveryRoutes, SubAt(route))
<1>1. rewritten(SubAt(route)) = rewritten(McpAt(route)) BY DEF rewritten, SubAt, McpAt, URL
<1> QED BY <1>1, McpLinks DEF Served, Serves

LEMMA DiscoveryLinks ==
  ASSUME NEW place \in {serverAt, resourceAt}
  PROVE  /\ Served(place) /\ Serves(DiscoveryRoutes, place)
         /\ ~Serves(AuthRoutes, place) /\ ~Serves(McpRoutes, place)
<1>1. rewritten(place) \in DiscoveryRoutes
  BY DEF rewritten, serverAt, resourceAt, URL, DiscoveryRoutes
<1>2. rewritten(place)[1] = ".well-known" BY <1>1, FirstNames
<1> QED BY <1>1, <1>2, FirstNames DEF Served, Serves

(* The addresses the property excepts have no route.                       *)
LEMMA NobodyServes == ASSUME NEW address \in Unserved PROVE ~Served(address)
<1>1. PICK path : address = URL("base", path) /\
        \/ path \in {<< >>, resourceWK, serverWK}
        \/ \E name \in {"docs", "policy", "terms"} : path = <<name>>
        \/ \E name \in {"jwks", "revoke", "introspect"} : path = <<"auth", "alias", name>>
  <2>1. CASE address \in {base, URL("base", resourceWK), URL("base", serverWK)}
    BY <2>1 DEF base
  <2>2. CASE address \in documents BY <2>2 DEF documents
  <2>3. CASE address \in jwks BY <2>3 DEF jwks
  <2> QED BY <2>1, <2>2, <2>3 DEF Unserved
<1>2. rewritten(address) = path BY <1>1 DEF rewritten, URL
<1>3. \/ Len(path) = 0
      \/ Len(path) \in {1, 2} /\ path[1] \notin {"auth", "mcp"}
      \/ Len(path) = 3 /\ path[1] = "auth" /\ path[3] \in {"jwks", "revoke", "introspect"}
  BY <1>1 DEF resourceWK, serverWK
<1>4. path \notin AuthRoutes /\ path \notin McpRoutes /\ path \notin DiscoveryRoutes
  <2>1. CASE Len(path) = 0 BY <2>1, FirstNames
  <2>2. CASE Len(path) \in {1, 2} /\ path[1] \notin {"auth", "mcp"} BY <2>2, FirstNames
  <2>3. CASE Len(path) = 3 /\ path[1] = "auth" /\ path[3] \in {"jwks", "revoke", "introspect"}
    BY <2>3, FirstNames
  <2> QED BY <1>3, <2>1, <2>2, <2>3
<1> QED BY <1>2, <1>4 DEF Served, Serves

LEMMA EntryIsServed == Served(mcpURL) /\ Served(URL("sub", << >>)) /\ Served(EntryURL)
<1>1. <<"mcp", "alias">> \o << >> = <<"mcp", "alias">> OBVIOUS
<1>2. <<"mcp", "alias">> \in McpRoutes BY <1>1 DEF McpRoutes
<1> QED BY <1>1, <1>2 DEF EntryURL, mcpURL, Served, Serves, rewritten, URL

(* The metadata of an authorization server names places of its own.        *)
LEMMA ServerPlaces ==
  /\ \A server \in {AuthServer, FullServer} :
       /\ server.authorize = AuthAt(<<"authorize">>) /\ server.token = AuthAt(<<"token">>)
       /\ server.register = AuthAt(<<"register">>)
  /\ SubServer.authorize = SubAt(<<"authorize">>) /\ SubServer.token = SubAt(<<"token">>)
  /\ SubServer.register = SubAt(<<"register">>)
  /\ \A server \in {AuthServer, FullServer, SubServer} : server.others \subseteq Unserved
<1>1. /\ << >> \o <<"authorize">> = <<"authorize">>
      /\ << >> \o <<"token">> = <<"token">>
      /\ << >> \o <<"register">> = <<"register">>
  OBVIOUS
<1> QED BY <1>1 DEF AuthServer, FullServer, SubServer, Server, AuthAt, SubAt, Below, authURL, URL,
        Unserved

LEMMA WellKnownLinks ==
  /\ WellKnown(authURL, serverWK) = {AuthAt(serverWK), serverAt}
  /\ WellKnown(URL("sub", << >>), serverWK) = {SubAt(serverWK)}
  /\ WellKnown(base, serverWK) = {rootServer}
<1>1. << >> \o serverWK = serverWK /\ serverWK \o << >> = serverWK BY DEF serverWK
<1> QED BY <1>1 DEF WellKnown, AuthAt, SubAt, serverAt, rootServer, Below, base, authURL, URL

(* Addresses that are served, or excepted.                                 *)
Known(addresses) == \A address \in addresses : Served(address) \/ address \in Unserved

LEMMA MetadataIsKnown ==
  /\ \A server \in {AuthServer, FullServer, SubServer} : Known(ServerLinks(server))
  /\ \A resource \in {getProtectedResourceMetadata, getPathAwareProtectedResourceMetadata,
                     getSubdomainResourceMetadata} : Known(ResourceLinks(resource))
<1>1. {serverWK, <<"authorize">>, <<"token">>, <<"register">>} \subseteq OAuthRoutes
  BY DEF OAuthRoutes
<1>2. ASSUME NEW server \in {AuthServer, FullServer, SubServer} PROVE Known(ServerLinks(server))
  <2>1. Known({server.authorize, server.token, server.register})
    BY <1>1, AuthLinks, SubLinks, ServerPlaces DEF Known
  <2> QED BY <2>1, ServerPlaces DEF Known, ServerLinks
<1>3. Known({mcpURL, URL("sub", << >>), base}) /\ Known(documents)
  BY EntryIsServed DEF Known, Unserved
<1>4. \A issuer \in {authURL, URL("sub", << >>), base} : Known(WellKnown(issuer, serverWK))
  BY <1>1, AuthLinks, SubLinks, DiscoveryLinks, WellKnownLinks DEF Known, Unserved, rootServer
<1>5. \A resource \in {getProtectedResourceMetadata, getPathAwareProtectedResourceMetadata,
                     getSubdomainResourceMetadata} : Known(ResourceLinks(resource))
  BY <1>3, <1>4 DEF Known, ResourceLinks, Resource, getProtectedResourceMetadata,
     getPathAwareProtectedResourceMetadata, getSubdomainResourceMetadata, buildSubdomainUrl
<1> QED BY <1>2, <1>5

(* Which links the client can hold, at each point of its way.              *)
Astray == entry = "base" /\ hinted
Links ==
  /\ subdomains \in BOOLEAN /\ entry \in {"base", "sub"} /\ (entry = "sub" => subdomains)
  /\ Known(handed)
  /\ at = "resource" =>
       \/ url = rootResource /\ ~subdomains /\ Astray
       \/ url = SubAt(resourceWK) /\ subdomains /\ (entry = "base" => hinted)
       \/ url = McpAt(resourceWK) /\ Astray
       \/ url \in {resourceAt, AuthAt(resourceWK)} /\ entry = "base"
  /\ at = "server" =>
       \/ url \in {AuthAt(serverWK), serverAt}
       \/ subdomains /\ url = SubAt(serverWK)
       \/ url = rootServer /\ Astray
  /\ at \in {"register", "authorize", "login", "exchange", "refresh", "connect", "connected"} =>
       endpoints \in {AuthServer, FullServer, SubServer}
  /\ at = "register" => url = endpoints.register
  /\ at = "authorize" => url = endpoints.authorize
  /\ at = "login" => url \in {AuthAt(<<"login">>), SubAt(<<"login">>)}
  /\ at \in {"exchange", "refresh"} => url = endpoints.token
  /\ at = "connect" => url = EntryURL
  /\ at = "lost" => Astray

LEMMA InitLinks == Init => Links
BY DEF Init, Links, Known

(* What the client holds is served, but for the metadata of the root.      *)
LEMMA LinksServe ==
  ASSUME Links, TypeOK, at \notin {"new", "connected", "refused", "misled", "lost"}
  PROVE  Served(url) \/ Astray
<1>1. {resourceWK, serverWK, <<"authorize">>, <<"login">>, <<"token">>, <<"register">>}
        \subseteq OAuthRoutes
  BY DEF OAuthRoutes
<1>2. CASE at = "resource" BY <1>1, <1>2, AuthLinks, SubLinks, DiscoveryLinks DEF Links
<1>3. CASE at = "server" BY <1>1, <1>3, AuthLinks, SubLinks, DiscoveryLinks DEF Links
<1>4. CASE at \in {"register", "authorize", "exchange", "refresh"}
  <2>1. url \in {endpoints.register, endpoints.authorize, endpoints.token}
        /\ endpoints \in {AuthServer, FullServer, SubServer}
    BY <1>4 DEF Links
  <2>2. url \in {AuthAt(<<"authorize">>), AuthAt(<<"token">>), AuthAt(<<"register">>),
                 SubAt(<<"authorize">>), SubAt(<<"token">>), SubAt(<<"register">>)}
    BY <2>1, ServerPlaces
  <2> QED BY <1>1, <2>2, AuthLinks, SubLinks
<1>5. CASE at = "login" BY <1>1, <1>5, AuthLinks, SubLinks DEF Links
<1>6. CASE at = "connect" BY <1>6, EntryIsServed DEF Links
<1> QED BY <1>2, <1>3, <1>4, <1>5, <1>6 DEF TypeOK

(* Who serves the client tells where it is.                                *)
LEMMA WhoServes ==
  ASSUME Links, at \in {"resource", "server", "authorize"}
  PROVE  /\ at = "resource" => /\ Serves(AuthRoutes, url) => entry = "base"
                               /\ Serves(McpRoutes, url) =>
                                    (url = SubAt(resourceWK) /\ subdomains
                                       /\ (entry = "base" => hinted))
                                    \/ Astray
                               /\ Serves(DiscoveryRoutes, url) => entry = "base"
         /\ at = "server" => /\ Serves(McpRoutes, url) => subdomains
         /\ at = "authorize" /\ Serves(McpRoutes, url) => url.host = "sub"
<1>1. {resourceWK, serverWK, <<"authorize">>} \subseteq OAuthRoutes BY DEF OAuthRoutes
<1>2. CASE at = "resource"
  BY <1>1, <1>2, AuthLinks, SubLinks, DiscoveryLinks DEF Links, Astray
<1>3. CASE at = "server"
  <2>1. ~Served(rootServer) BY NobodyServes DEF Unserved, rootServer
  <2> QED BY <1>1, <1>3, <2>1, AuthLinks, DiscoveryLinks DEF Links, Served, Serves
<1>4. CASE at = "authorize"
  <2>1. url \in {AuthAt(<<"authorize">>), SubAt(<<"authorize">>)}
    BY <1>4, ServerPlaces DEF Links
  <2> QED BY <1>1, <1>4, <2>1, AuthLinks DEF SubAt, URL
<1> QED BY <1>2, <1>3, <1>4

LEMMA MetadataKeepsLinks ==
  ASSUME Links, DiscoveryController_metadata \/ AuthController_metadata \/ McpAuthController_metadata
  PROVE  Links'
(* The metadata of a server: its places are the client's from now on.       *)
<1>1. ASSUME NEW server \in {AuthServer, FullServer, SubServer}, Choose(server) PROVE Links'
  <2>1. Known(handed)' BY <1>1, MetadataIsKnown DEF Choose, Known
  <2> QED BY <1>1, <2>1 DEF Choose, Goes, setup, Holds, Links, Astray
<1>2. ASSUME NEW resource, Learn(resource), Known(ResourceLinks(resource)),
             ~(strict /\ resource.resource # EntryURL) \/ Astray,
             \/ resource.server = authURL
             \/ subdomains /\ resource.server = URL("sub", << >>)
             \/ Astray /\ resource.server = base
      PROVE  Links'
  <2>0. /\ at = "resource" /\ UNCHANGED <<subdomains, entry, hinted>> /\ (Astray <=> Astray')
        /\ Known(handed)'
    BY <1>2 DEF Learn, setup, Astray, Known
  <2>1. CASE at' = "lost" /\ url' = url
    <3>1. Astray' BY <1>2, <2>0, <2>1 DEF Learn, Goes
    <3> QED BY <2>0, <2>1, <3>1 DEF Links
  <2>2. CASE at' = "server" /\ url' \in WellKnown(resource.server, serverWK)
    <3>1. \/ url' \in {AuthAt(serverWK), serverAt}
          \/ subdomains /\ url' = SubAt(serverWK)
          \/ url' = rootServer /\ Astray
      BY <1>2, <2>2, WellKnownLinks
    <3>2. \/ url' \in {AuthAt(serverWK), serverAt}
          \/ subdomains' /\ url' = SubAt(serverWK)
          \/ url' = rootServer /\ Astray'
      BY <2>0, <3>1
    <3>3. UNCHANGED <<subdomains, entry>> /\ Known(handed)' BY <2>0
    <3> QED BY <2>2, <3>2, <3>3 DEF Links
  <2> QED BY <1>2, <2>1, <2>2 DEF Learn, Goes
<1>3. CASE DiscoveryController_metadata
  <2>1. CASE Learn(getPathAwareProtectedResourceMetadata)
    <3>1. entry = "base" BY <1>3, <2>1, WhoServes DEF Learn, DiscoveryController_metadata
    <3>2. /\ EntryURL = getPathAwareProtectedResourceMetadata.resource
          /\ getPathAwareProtectedResourceMetadata.server = authURL
      BY <3>1 DEF EntryURL, getPathAwareProtectedResourceMetadata, Resource
    <3> QED BY <1>2, <2>1, <3>2, MetadataIsKnown
  <2>2. CASE Choose(getPathAwareAuthServerMetadata)
    BY <1>1, <2>2 DEF getPathAwareAuthServerMetadata, AuthServer
  <2> QED BY <1>3, <2>1, <2>2 DEF DiscoveryController_metadata
<1>4. CASE AuthController_metadata
  <2>1. CASE Learn(getProtectedResourceMetadata)
    <3>1. entry = "base" BY <1>4, <2>1, WhoServes DEF Learn, AuthController_metadata
    <3>2. /\ EntryURL = getProtectedResourceMetadata.resource
          /\ getProtectedResourceMetadata.server = authURL
      BY <3>1 DEF EntryURL, getProtectedResourceMetadata, Resource
    <3> QED BY <1>2, <2>1, <3>2, MetadataIsKnown
  <2>2. CASE Choose(getAuthorizationServerMetadata)
    BY <1>1, <2>2 DEF getAuthorizationServerMetadata, FullServer
  <2> QED BY <1>4, <2>1, <2>2 DEF AuthController_metadata
<1>5. CASE McpAuthController_metadata
  <2>1. CASE Learn(getSubdomainResourceMetadata)
    <3>1. \/ subdomains /\ (entry = "base" => hinted)
          \/ Astray
      BY <1>5, <2>1, WhoServes DEF Learn, McpAuthController_metadata
    <3>2. /\ getSubdomainResourceMetadata.resource = buildSubdomainUrl
          /\ getSubdomainResourceMetadata.server = buildSubdomainUrl
      BY DEF getSubdomainResourceMetadata, Resource
    <3>3. buildSubdomainUrl = IF subdomains THEN URL("sub", << >>) ELSE base
      BY DEF buildSubdomainUrl
    <3>4. entry = "sub" => EntryURL = URL("sub", << >>) BY DEF EntryURL
    <3>5. entry = "sub" \/ Astray BY <3>1 DEF Links, Astray
    <3>6. entry = "sub" => subdomains BY DEF Links
    <3> QED BY <1>2, <2>1, <3>1, <3>2, <3>3, <3>4, <3>5, <3>6, MetadataIsKnown
  <2>2. CASE Choose(getSubdomainAuthServerMetadata)
    <3>1. subdomains
      BY <1>5, <2>2, WhoServes DEF Choose, McpAuthController_metadata
    <3> QED BY <1>1, <2>2, <3>1 DEF getSubdomainAuthServerMetadata, SubServer, buildSubdomainUrl
  <2> QED BY <1>5, <2>1, <2>2 DEF McpAuthController_metadata
<1> QED BY <1>3, <1>4, <1>5

LEMMA HintKeepsLinks == ASSUME Links, validateAuth PROVE Links'
<1>1. at' = "resource" /\ handed' = {hint} /\ UNCHANGED <<subdomains, entry, endpoints>>
  BY DEF validateAuth, Goes, setup
<1>2. << >> \o resourceWK = resourceWK /\ resourceWK \o << >> = resourceWK BY DEF resourceWK
<1>3. hint = IF subdomains THEN SubAt(resourceWK) ELSE rootResource
  BY DEF hint, buildSubdomainUrl, base, SubAt, rootResource, URL
<1>4. Known(handed)'
  <2>1. Served(SubAt(resourceWK)) BY SubLinks DEF OAuthRoutes
  <2> QED BY <1>1, <1>3, <2>1 DEF Known, Unserved, rootResource
<1>5. CASE url' = hint /\ hinted' = TRUE
  BY <1>1, <1>3, <1>4, <1>5 DEF Links, Astray
<1>6. CASE url' = URL(EntryURL.host, resourceWK \o EntryURL.path)
  <2>1. url' = IF entry = "sub" THEN SubAt(resourceWK) ELSE resourceAt
    BY <1>2, <1>6 DEF EntryURL, mcpURL, SubAt, resourceAt, URL
  <2> QED BY <1>1, <1>4, <2>1 DEF Links, Astray
<1>7. CASE url' = Below(EntryURL, resourceWK) /\ hinted' = TRUE
  <2>1. url' = IF entry = "sub" THEN SubAt(resourceWK) ELSE McpAt(resourceWK)
    BY <1>2, <1>7 DEF EntryURL, mcpURL, Below, SubAt, McpAt, URL
  <2> QED BY <1>1, <1>4, <1>7, <2>1 DEF Links, Astray
<1>8. CASE entry = "base" /\ url' = Below(authURL, resourceWK)
  <2>1. url' = AuthAt(resourceWK) BY <1>8 DEF authURL, Below, AuthAt, URL
  <2> QED BY <1>1, <1>4, <1>8, <2>1 DEF Links, Astray
<1> QED BY <1>5, <1>6, <1>7, <1>8 DEF validateAuth, Goes

LEMMA PagesKeepLinks ==
  ASSUME Links, \/ AuthController_authorize \/ McpAuthController_authorize
                \/ AuthController_login \/ McpAuthController_login
  PROVE  Links'
<1>1. \A params : /\ AuthForm(params).action = AuthAt(<<"login">>)
                  /\ SubdomainForm(params).action = URL(url.host, <<"login">>)
  BY DEF AuthForm, SubdomainForm, generateLoginPage, Below, authURL, AuthAt, URL
(* The page leads to a login.                                               *)
<1>2. ASSUME at \in {"authorize", "login"}, at' = "login", UNCHANGED <<setup, hinted, endpoints>>,
             url' \in {AuthAt(<<"login">>), SubAt(<<"login">>)}, handed' = {url'}
      PROVE  Links'
  <2>1. Known(handed)'
    <3>1. <<"login">> \in OAuthRoutes BY DEF OAuthRoutes
    <3> QED BY <1>2, <3>1, AuthLinks, SubLinks DEF Known
  <2> QED BY <1>2, <2>1 DEF Links, setup
<1>3. CASE AuthController_authorize
  <2>1. url' = AuthAt(<<"login">>) /\ handed' = {url'}
    BY <1>1, <1>3 DEF AuthController_authorize, Goes
  <2> QED BY <1>2, <1>3, <2>1 DEF AuthController_authorize, Goes
<1>4. CASE McpAuthController_authorize
  <2>1. url.host = "sub" BY <1>4, WhoServes DEF McpAuthController_authorize
  <2>2. url' = SubAt(<<"login">>) /\ handed' = {url'}
    BY <1>1, <1>4, <2>1 DEF McpAuthController_authorize, Goes, SubAt
  <2> QED BY <1>2, <1>4, <2>2 DEF McpAuthController_authorize, Goes
<1>5. ASSUME NEW routes, Submit(routes) PROVE Links'
  BY <1>5 DEF Submit, Links, Known, EntryURL, Astray, setup, tracks
<1>6. ASSUME NEW routes, Redirect(routes) PROVE Links'
  BY <1>6 DEF Redirect, Goes, Links, Known, Astray, setup
<1>7. CASE AuthController_login
  <2>1. CASE ShowAgain(AuthRoutes, AuthForm(page.fields))
    <3>1. url' = AuthAt(<<"login">>) /\ handed' = {url'} BY <1>1, <2>1 DEF ShowAgain, Goes
    <3> QED BY <1>2, <2>1, <3>1 DEF ShowAgain, Goes
  <2> QED BY <1>5, <1>6, <1>7, <2>1 DEF AuthController_login
<1>8. CASE McpAuthController_login
  <2>1. CASE ShowAgain(McpRoutes, SubdomainForm(page.fields))
    <3>1. at = "login" /\ url' = URL(url.host, <<"login">>) /\ handed' = {url'}
      BY <1>1, <2>1 DEF ShowAgain, Goes
    <3>2. url = SubAt(<<"login">>)
      <4>1. <<"login">> \in OAuthRoutes BY DEF OAuthRoutes
      <4> QED BY <2>1, <3>1, <4>1, AuthLinks DEF Links, ShowAgain
    <3>3. url' = SubAt(<<"login">>) BY <3>1, <3>2 DEF SubAt, URL
    <3> QED BY <1>2, <2>1, <3>1, <3>3 DEF ShowAgain, Goes
  <2> QED BY <1>5, <1>6, <1>8, <2>1 DEF McpAuthController_login
<1> QED BY <1>3, <1>4, <1>7, <1>8

LEMMA NextKeepsLinks == ASSUME Links, TypeOK, [Next]_vars PROVE Links'
<1>1. CASE validateAuth BY <1>1, HintKeepsLinks
<1>2. CASE DiscoveryController_metadata \/ AuthController_metadata \/ McpAuthController_metadata
  BY <1>2, MetadataKeepsLinks
<1>3. CASE \/ AuthController_authorize \/ McpAuthController_authorize
           \/ AuthController_login \/ McpAuthController_login
  BY <1>3, PagesKeepLinks
<1>4. CASE AuthController_register \/ McpAuthController_register
  BY <1>4 DEF AuthController_register, McpAuthController_register, Registered, Goes, Links,
              Known, Astray, setup, tracks
<1>5. CASE AuthController_token \/ McpAuthController_token
  <2>1. ASSUME NEW routes, TokenRequest(routes) PROVE Links'
    BY <2>1 DEF TokenRequest, Links, Known, Astray, EntryURL, setup, tracks
  <2>2. ASSUME NEW routes, TokenReply(routes) PROVE Links'
    BY <2>2 DEF TokenReply, Refuse, Goes, Links, Known, Astray, EntryURL, setup, tracks
  <2>3. ASSUME NEW routes, ValidationPipe(routes) PROVE Links'
    BY <2>3 DEF ValidationPipe, Refuse, Goes, Links, Known, Astray, EntryURL, setup, tracks
  <2> QED BY <1>5, <2>1, <2>2, <2>3 DEF AuthController_token, McpAuthController_token
<1>6. CASE handleMcpPost \/ resolveAlias \/ StartAgain \/ Expire
  BY <1>6 DEF handleMcpPost, resolveAlias, StartAgain, Expire, Goes, Links, Known, Astray,
              EntryURL, setup, tracks
<1>7. CASE GetLost
  <2>1. Astray BY <1>7, LinksServe DEF GetLost
  <2>2. at' = "lost" /\ UNCHANGED <<subdomains, entry, hinted, handed>>
    BY <1>7 DEF GetLost, Goes, setup, tracks
  <2> QED BY <2>1, <2>2 DEF Links, Known, Astray
<1>8. CASE Service \/ Move \/ UNCHANGED vars
  <2>1. UNCHANGED <<subdomains, entry, hinted, handed, at, url, endpoints>>
    BY <1>8 DEF Service, handleLogin, login, registerAuthCode, exchangeCode, exchangeAuthCode,
                OAuthService_refreshToken, refreshToken, Step, Move, vars, setup, tracks
  <2> QED BY <2>1 DEF Links, Known, Astray, EntryURL
<1> QED BY <1>1, <1>2, <1>3, <1>4, <1>5, <1>6, <1>7, <1>8 DEF Next, Controllers, Client

(* Of the addresses in a header, in metadata or in a form, exactly the     *)
(* listed ones are served by no controller, whatever the alias and the     *)
(* cloud do; and they lead astray none but a client that was not given the *)
(* address of a subdomain and goes by the header or by McpAuthController.  *)
THEOREM EveryLinkIsServed == Spec => []LinksAreServed
<1>1. Init => Links BY InitLinks
<1>2. Links /\ TypeOK /\ [Next]_vars => Links' BY NextKeepsLinks
<1>3. Links => LinksAreServed BY NobodyServes DEF Links, Known, Astray, LinksAreServed
<1>4. Inv => TypeOK BY DEF Inv
<1> QED BY <1>1, <1>2, <1>3, <1>4, InvHolds, PTL DEF Spec
=================================================================================
