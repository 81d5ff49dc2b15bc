CONSTANTS
    Reports = {r1}
    Names = {a, b}
    Scanners = {s1}
SPECIFICATION Spec
PROPERTIES ManifestNeverScavenged
