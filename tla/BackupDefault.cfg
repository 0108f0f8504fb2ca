CONSTANTS
    r1 = r1
    r2 = r2
    a1 = a1
    Requests = {r1}
    Assets = {a1}
    AssetOf <- MCOne
    InitialPreferences = {"unset"}
    MaxCancels <- MCOneCancel
SPECIFICATION Spec
PROPERTY OffByDefault
