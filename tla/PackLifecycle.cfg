SPECIFICATION Spec
CONSTANTS
    r1 = r1
    r2 = r2
    r3 = r3
    v = v
    w = w
    x = x
    vw = vw
    wv = wv
    Ids <- MCIds
    Contents = {v, w, x, vw, wv}
    Versions = {v, w, x}
    Text <- MCText
    People <- MCPeople
    Requests = {r1, r2, r3}
    Manifest <- MCManifest
    TemplateManifest <- MCTemplateManifest
SYMMETRY Symmetry
INVARIANTS
    RegistriesShowFiles
    
PROPERTIES
    PublishedWhenReady
CHECK_DEADLOCK FALSE
