SPECIFICATION Spec
CONSTANTS
    mac = mac
    linux = linux
    k1 = k1
    k2 = k2
    None = None
    Hosts <- MCHosts
    Keys = {k1, k2}
    MaxVersion = 2
    MaxUpload = 2
    Settings <- RelabelSettings
PROPERTY RelabelKeeps
