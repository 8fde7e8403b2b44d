SPECIFICATION Spec
CONSTANTS
    Members = {ann, bob}
    Outsider = eve
    Handlers = {h1, h2}
    MaxRequests = 4
INVARIANTS SettingsSound
PROPERTIES NotifiedAsAsked DeletedIsGone
