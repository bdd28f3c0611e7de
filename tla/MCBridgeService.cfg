CONSTANTS
    t1 = t1
    t2 = t2
    p1 = p1
    p2 = p2
    proxy = proxy
    Tickets = {t1, t2}
    admin = admin
    panel = panel
    Owners = {admin}
    Panel = panel
    Codes = {"482913"}
    MaxActive = 2
    MaxOwner = 1
    Urls = {p1, p2, proxy}
    Ports = {p1, p2}
    Proxy = proxy
    Clients = {"quest"}
    MaxAdrift = 1
SYMMETRY Symmetric
SPECIFICATION Spec
INVARIANTS CredentialsAreCurrent SwitchIsObeyed UrlIsLive RestartChangesNothing
PROPERTY EndIsFinal
