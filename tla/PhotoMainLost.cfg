SPECIFICATION Spec
CONSTANTS
    Sessions = {s1}
    Photos = {p1, p2, p3}
    Crowd = {}
    Copies = {1, 2}
    NoPhoto = NoPhoto
    KeepList = KeepList
    MaxFiles = 2
PROPERTIES UploadKeepsMain
