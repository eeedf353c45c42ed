\* The comment above Send: errors are only logged.
CONSTANTS
    Commands <- MCCommands
    Lines <- NoFlags
SPECIFICATION Spec
INVARIANTS
    SendErrorsAreHarmless
