\* One update of a Capp whose size and resources are its own.
SPECIFICATION MCCappSpec
CONSTANTS
    Updates = {c1}
    Values = {"v1", "v2"}
    Volumes = {vol}
    Sizes <- SizesByName
    Applied <- SomeCapps
    Bodies <- SomeBodies
    Flags <- SomeFlags
    NoCapp = NoCapp
    Unset = Unset
    Blank = Blank
    Malformed = Malformed
PROPERTY UnspecifiedFieldsArePreserved
